------------------------- MODULE PlanTransferProofs -------------------------
(***************************************************************************)
(* Theorems about PlanTransfer, for every plan, retry limit and network.   *)
(*                                                                         *)
(* The inductive invariant IInv adds to the properties one fact: a read    *)
(* holds no item while it waits for the count, so the items it then asks   *)
(* for are all of them.                                                    *)
(*                                                                         *)
(* That the plans of station and vehicle agree, while nothing arrives      *)
(* after a timer and nothing twice, needs more (Agreeing, at the end):     *)
(* which message is on its way, and how much of a plan the vehicle has.    *)
(***************************************************************************)
EXTENDS PlanTransfer, SequenceTheorems, WellFoundedInduction, TLAPS

CountComesFirst == expect = "Count" => items = <<>>

IInv == TypeOK /\ WaitsAreTimed /\ ReadAccountsForEveryItem /\ CountComesFirst

-----------------------------------------------------------------------------
(* Lemmas about the operators of the model.                                *)

\* The item asked for next is one of those still to be read.
LEMMA FirstIsMember ==
  ASSUME NEW set \in SUBSET Nat, set # {}
  PROVE  Lowest(set) \in set
<1>1. PICK n \in set : \A m \in set : <<m, n>> \notin OpToRel(<, Nat)
  BY NatLessThanWellFounded, WFMin
<1>2. ASSUME NEW m \in set, m < n PROVE FALSE
  <2>1. <<m, n>> \in Nat \X Nat /\ <<m, n>>[1] < <<m, n>>[2]
    BY <1>2
  <2>2. <<m, n>> \in OpToRel(<, Nat)
    BY <2>1, Zenon DEF OpToRel
  <2> QED BY <2>2, <1>1
<1>3. \A m \in set : n <= m
  BY <1>2
<1> QED BY <1>3 DEF Lowest

\* Sending keeps a channel a sequence of messages.
LEMMA CarriedType ==
  ASSUME NEW S, NEW channel \in Seq(S), NEW m \in S, NEW after \in Carried(channel, m)
  PROVE  after \in Seq(S)
BY AppendProperties DEF Carried

\* So does delivering from it.
LEMMA TakenType ==
  ASSUME NEW S, NEW channel \in Seq(S), channel # <<>>, NEW after \in Delivered(channel)
  PROVE  after \in Seq(S) /\ Head(channel) \in S
BY HeadTailProperties DEF Delivered

\* What write prepares is a numbered plan, if a count can say its length.
LEMMA NumberedType ==
  ASSUME NEW plan \in Plans, Len(Numbered(plan)) <= MaxCount
  PROVE  /\ Numbered(plan) \in Seq(Item)
         /\ Len(Numbered(plan)) \in 0 .. MaxCount
         /\ DOMAIN Numbered(plan) = 1 .. Len(Numbered(plan))
<1> DEFINE listed == IF SkipFirst /\ plan # <<>> THEN Tail(plan) ELSE plan
           e(i) == [seq |-> i - 1, jump |-> listed[i].jump,
                    arg |-> IF SkipFirst /\ listed[i].jump THEN listed[i].arg - 1
                                                           ELSE listed[i].arg]
<1>1. plan \in Seq(PlanItem)
  BY PlansAssumption
<1>2. listed \in Seq(PlanItem)
  BY <1>1, HeadTailProperties
<1>3. Numbered(plan) = [i \in 1 .. Len(listed) |-> e(i)]
  BY DEF Numbered
<1> HIDE DEF listed
<1>4. Len(listed) \in Nat /\ \A i \in 1 .. Len(listed) : listed[i] \in PlanItem
  BY <1>2, LenProperties, ElementOfSeq
<1>5. DOMAIN Numbered(plan) = 1 .. Len(listed)
  BY <1>3
<1>6. \A i \in 1 .. Len(listed) : e(i).jump \in BOOLEAN /\ e(i).arg \in Int
  BY <1>4 DEF PlanItem
<1>7. Numbered(plan) \in Seq([seq : Nat, jump : BOOLEAN, arg : Int])
  <2>1. \A i \in 1 .. Len(listed) : e(i) \in [seq : Nat, jump : BOOLEAN, arg : Int]
    BY <1>6, <1>4
  <2> HIDE DEF e
  <2> QED BY <2>1, <1>3, <1>4, IsASeq
<1>8. Len(Numbered(plan)) = Len(listed)
  BY <1>5, <1>7, <1>4, LenProperties
<1>9. \A i \in 1 .. Len(listed) : e(i) \in Item
  BY <1>8, <1>6, <1>4, BoundsAssumption DEF Item, Seqs
<1>10. Numbered(plan) \in Seq(Item)
  <2> HIDE DEF e
  <2> QED BY <1>9, <1>3, <1>4, IsASeq
<1> QED BY <1>10, <1>8, <1>5, <1>4

-----------------------------------------------------------------------------
(* Type correctness of the messages sent.                                  *)

LEMMA SentType ==
  ASSUME NEW message \in VehicleMessages, TypeOK, ToVehicle(message)
  PROVE  toVehicle' \in Seq(VehicleMessages)
BY CarriedType DEF ToVehicle, TypeOK

LEMMA RepliedType ==
  ASSUME NEW message \in StationMessages, TypeOK, Reply(message)
  PROVE  toStation' \in Seq(StationMessages)
BY CarriedType DEF Reply, TypeOK

-----------------------------------------------------------------------------
(* One lemma per group of actions.                                         *)

LEMMA InitInv == Init => IInv
<1> SUFFICES ASSUME Init PROVE IInv
  OBVIOUS
<1> USE DEF Init, StationInit, VehicleInit
<1>1. TypeOK
  <2>1. /\ <<>> \in Seq(Item) /\ <<>> \in Seq(Int) /\ Len(<<>>) = 0
        /\ <<>> \in Seq(VehicleMessages) /\ <<>> \in Seq(StationMessages)
    BY EmptySeq
  <2>2. NoUpload \in [count : 0 .. MaxCount, items : Seq(Item)]
    BY <2>1, BoundsAssumption DEF NoUpload
  <2>3. /\ transaction \in Transactions /\ finished \in Transactions /\ expect \in Expects
        /\ due \in BOOLEAN /\ failed \in BOOLEAN
        /\ toRead \in SUBSET Seqs /\ toWrite \in SUBSET Seqs
    BY DEF Transactions, Expects, Nil
  <2>5. retries \in 0 .. MaxRetry + 1
    BY BoundsAssumption
  <2>4. Len(writing) <= MaxCount /\ Len(mission) <= MaxCount
    BY <2>1, BoundsAssumption
  <2> QED BY <2>1, <2>2, <2>3, <2>4, <2>5 DEF TypeOK
<1>2. WaitsAreTimed /\ ReadAccountsForEveryItem /\ CountComesFirst
  BY DEF WaitsAreTimed, ReadAccountsForEveryItem, CountComesFirst, Nil
<1> QED BY <1>1, <1>2 DEF IInv

\* Ending a transaction leaves nothing that could break the invariant.
LEMMA FinishInv ==
  ASSUME IInv, NEW success \in BOOLEAN, NEW held \in Seq(Item), Finish(success, held),
         retries' \in 0 .. MaxRetry + 1,
         toVehicle' \in Seq(VehicleMessages), toStation' \in Seq(StationMessages),
         UNCHANGED protocol
  PROVE  IInv'
<1> USE DEF Finish, HeldAfter, protocol
<1>1. TypeOK'
  <2>1. <<>> \in Seq(Item) /\ Len(<<>>) = 0
    BY EmptySeq
  <2>2. items' \in Seq(Item)
    BY <2>1 DEF IInv, TypeOK
  <2>3. failed' \in BOOLEAN /\ finished' \in Transactions
    BY DEF IInv, TypeOK
  <2>4. /\ transaction' \in Transactions /\ expect' \in Expects /\ due' \in BOOLEAN
        /\ toRead' \in SUBSET Seqs /\ toWrite' \in SUBSET Seqs
    BY DEF Transactions, Expects, Nil
  <2>5. writing' \in Seq(Item) /\ Len(writing') <= MaxCount
    BY <2>1, BoundsAssumption
  <2>6. /\ home' \in Seq(Int) /\ mission' \in Seq(Item) /\ Len(mission') <= MaxCount
        /\ upload' \in [count : 0 .. MaxCount, items : Seq(Item)]
        /\ upload' = NoUpload \/ Len(upload'.items) < upload'.count
    BY DEF IInv, TypeOK
  <2> QED BY <2>2, <2>3, <2>4, <2>5, <2>6 DEF TypeOK
<1>2. WaitsAreTimed' /\ ReadAccountsForEveryItem' /\ CountComesFirst'
  BY DEF WaitsAreTimed, ReadAccountsForEveryItem, CountComesFirst, Nil
<1> QED BY <1>1, <1>2 DEF IInv

LEMMA OperatorInv == ASSUME IInv, Operator PROVE IInv'
<1> USE DEF IInv
<1>1. CASE Load
  <2>1. toVehicle' \in Seq(VehicleMessages)
    <3>1. [type |-> "RequestList"] \in VehicleMessages
      BY DEF VehicleMessages
    <3> QED BY <1>1, <3>1, SentType DEF Load, RequestList
  <2>2. TypeOK'
    BY <1>1, <2>1, EmptySeq, BoundsAssumption
       DEF Load, RequestList, Expecting, TypeOK, Transactions, Expects, protocol
  <2> QED BY <1>1, <2>2
       DEF Load, RequestList, Expecting, WaitsAreTimed, ReadAccountsForEveryItem,
           CountComesFirst, Nil
<1>2. CASE RemoveAll
  <2>1. toVehicle' \in Seq(VehicleMessages)
    <3>1. [type |-> "ClearAll"] \in VehicleMessages
      BY DEF VehicleMessages
    <3> QED BY <1>2, <3>1, SentType DEF RemoveAll, ClearAll
  <2>2. TypeOK'
    BY <1>2, <2>1, EmptySeq, BoundsAssumption
       DEF RemoveAll, ClearAll, Expecting, TypeOK, Transactions, Expects, protocol
  <2> QED BY <1>2, <2>2
       DEF RemoveAll, ClearAll, Expecting, WaitsAreTimed, ReadAccountsForEveryItem,
           CountComesFirst, Nil
<1>3. CASE GuidedItem
  <2>1. toVehicle' \in Seq(VehicleMessages)
    <3>1. [type |-> "GuidedItem"] \in VehicleMessages
      BY DEF VehicleMessages
    <3> QED BY <1>3, <3>1, SentType DEF GuidedItem
  <2>2. TypeOK'
    BY <1>3, <2>1 DEF GuidedItem, Expecting, TypeOK, Transactions, Expects, protocol
  <2> QED BY <1>3, <2>2
       DEF GuidedItem, Expecting, WaitsAreTimed, ReadAccountsForEveryItem,
           CountComesFirst, Nil
<1>4. ASSUME NEW plan \in Plans, Write(plan) PROVE IInv'
  <2>1. Len(Numbered(plan)) <= MaxCount
    BY <1>4 DEF Write
  <2>2. /\ Numbered(plan) \in Seq(Item)
        /\ Len(Numbered(plan)) \in 0 .. MaxCount
        /\ DOMAIN Numbered(plan) = 1 .. Len(Numbered(plan))
    BY <2>1, NumberedType
  <2>3. toVehicle' \in Seq(VehicleMessages)
    <3>1. [type |-> "Count", count |-> Len(Numbered(plan))] \in VehicleMessages
      BY <2>2 DEF VehicleMessages
    <3> QED BY <1>4, <3>1, SentType DEF Write, WriteCount
  <2>4. {i - 1 : i \in DOMAIN Numbered(plan)} \in SUBSET Seqs
    BY <2>2, BoundsAssumption DEF Seqs
  <2>5. TypeOK'
    BY <1>4, <2>2, <2>3, <2>4, BoundsAssumption
       DEF Write, WriteCount, Expecting, TypeOK, Transactions, Expects, protocol
  <2> QED BY <1>4, <2>5
       DEF Write, WriteCount, Expecting, WaitsAreTimed, ReadAccountsForEveryItem,
           CountComesFirst, Nil
<1>5. ASSUME NEW plan \in Plans, WriteTooLong(plan) PROVE IInv'
  <2>1. TypeOK'
    BY <1>5 DEF WriteTooLong, TypeOK, protocol, network
  <2> QED BY <1>5, <2>1
       DEF WriteTooLong, WaitsAreTimed, ReadAccountsForEveryItem, CountComesFirst, Nil
<1> QED BY <1>1, <1>2, <1>3, <1>4, <1>5 DEF Operator

LEMMA TimeoutInv == ASSUME IInv, Timeout PROVE IInv'
<1> USE DEF IInv
<1>0. UNCHANGED protocol /\ UNCHANGED toStation
  BY DEF Timeout
<1>1. CASE GivesUp
  BY <1>0, <1>1, FinishInv DEF GivesUp, TypeOK
<1>2. CASE AskAgain
  <2>0. /\ retries' \in 0 .. MaxRetry + 1
        /\ UNCHANGED <<transaction, toWrite, writing, finished, failed, home>>
    BY <1>2, BoundsAssumption DEF AskAgain, MayRetry, CountedRetry, TypeOK
  <2>1. CASE expect = "Count" /\ RequestList
    <3>1. toVehicle' \in Seq(VehicleMessages)
      <4>1. [type |-> "RequestList"] \in VehicleMessages
        BY DEF VehicleMessages
      <4> QED BY <2>1, <4>1, SentType DEF RequestList
    <3>2. TypeOK'
      BY <1>0, <2>0, <2>1, <3>1, EmptySeq
         DEF RequestList, Expecting, TypeOK, Expects, protocol
    <3> QED BY <2>0, <2>1, <3>2
         DEF RequestList, Expecting, WaitsAreTimed, ReadAccountsForEveryItem,
             CountComesFirst, Nil
  <2>2. CASE expect = "Item" /\ RequestNext(toRead) /\ UNCHANGED items
    <3>1. Lowest(toRead) \in Seqs
      <4>1. toRead # {} /\ toRead \in SUBSET Nat /\ toRead \in SUBSET Seqs
        BY <2>2, BoundsAssumption DEF ReadAccountsForEveryItem, TypeOK, Seqs
      <4> QED BY <4>1, FirstIsMember
    <3>2. toVehicle' \in Seq(VehicleMessages)
      <4>1. [type |-> "RequestItem", seq |-> Lowest(toRead)] \in VehicleMessages
        BY <3>1 DEF VehicleMessages
      <4> QED BY <2>2, <4>1, SentType DEF RequestNext
    <3>3. TypeOK'
      BY <1>0, <2>0, <2>2, <3>2 DEF RequestNext, Expecting, TypeOK, Expects, protocol
    <3> QED BY <2>0, <2>2, <3>3
         DEF RequestNext, Expecting, WaitsAreTimed, ReadAccountsForEveryItem,
             CountComesFirst, Nil
  <2>3. CASE expect = "Request" /\ WriteCount(Len(writing)) /\ UNCHANGED <<toRead, items>>
    <3>1. toVehicle' \in Seq(VehicleMessages)
      <4>1. Len(writing) \in 0 .. MaxCount
        BY LenProperties DEF TypeOK
      <4>2. [type |-> "Count", count |-> Len(writing)] \in VehicleMessages
        BY <4>1 DEF VehicleMessages
      <4> QED BY <2>3, <4>2, SentType DEF WriteCount
    <3>2. TypeOK'
      BY <1>0, <2>0, <2>3, <3>1 DEF WriteCount, Expecting, TypeOK, Expects, protocol
    <3> QED BY <2>0, <2>3, <3>2
         DEF WriteCount, Expecting, WaitsAreTimed, ReadAccountsForEveryItem,
             CountComesFirst, Nil
  <2>4. CASE expect = "ClearAck" /\ ClearAll /\ UNCHANGED <<toRead, items>>
    <3>1. toVehicle' \in Seq(VehicleMessages)
      <4>1. [type |-> "ClearAll"] \in VehicleMessages
        BY DEF VehicleMessages
      <4> QED BY <2>4, <4>1, SentType DEF ClearAll
    <3>2. TypeOK'
      BY <1>0, <2>0, <2>4, <3>1 DEF ClearAll, Expecting, TypeOK, Expects, protocol
    <3> QED BY <2>0, <2>4, <3>2
         DEF ClearAll, Expecting, WaitsAreTimed, ReadAccountsForEveryItem,
             CountComesFirst, Nil
  <2> QED BY <1>2, <2>1, <2>2, <2>3, <2>4 DEF AskAgain
<1> QED BY <1>1, <1>2 DEF Timeout

\* An item that arrives, whatever was waited for.
LEMMA OnItemInv ==
  ASSUME IInv, NEW item \in Item, OnItem(item), UNCHANGED protocol,
         toStation' \in Seq(StationMessages)
  PROVE  IInv'
<1> USE DEF IInv
<1>1. AsRead(item) \in Item /\ AsRead(item).seq = item.seq
  BY DEF AsRead, Item
<1>2. Append(items, AsRead(item)) \in Seq(Item)
  BY <1>1, AppendProperties DEF TypeOK
<1>3. CASE UNCHANGED <<transaction, expect, due, retries, toRead, toWrite, writing,
                       items, finished, failed, toVehicle>>
           /\ home' \in {<<item.arg>>, home}
  <2>1. <<item.arg>> \in Seq(Int)
    BY DEF Item
  <2>2. TypeOK'
    BY <1>3, <2>1 DEF TypeOK, protocol
  <2> QED BY <1>3, <2>2 DEF WaitsAreTimed, ReadAccountsForEveryItem, CountComesFirst
<1>4. CASE /\ expect = "Item" /\ Expecting("Item")
           /\ UNCHANGED <<transaction, retries, toRead, toWrite, writing, items, finished,
                          failed, home, toVehicle>>
  <2>1. TypeOK'
    BY <1>4 DEF Expecting, TypeOK, protocol
  <2> QED BY <1>4, <2>1
       DEF Expecting, WaitsAreTimed, ReadAccountsForEveryItem, CountComesFirst, Nil
<1>5. CASE /\ retries' = 0 /\ ToVehicle([type |-> "Ack"])
           /\ Finish(TRUE, Append(items, AsRead(item)))
  <2>1. toVehicle' \in Seq(VehicleMessages)
    <3>1. [type |-> "Ack"] \in VehicleMessages
      BY DEF VehicleMessages
    <3> QED BY <1>5, <3>1, SentType
  <2>2. retries' \in 0 .. MaxRetry + 1
    BY <1>5, BoundsAssumption
  <2> QED BY <1>2, <1>5, <2>1, <2>2, FinishInv
<1>6. CASE /\ expect = "Item" /\ item.seq \in toRead /\ toRead \ {item.seq} # {}
           /\ retries' = 0 /\ items' = Append(items, AsRead(item))
           /\ RequestNext(toRead \ {item.seq})
           /\ UNCHANGED <<transaction, toWrite, writing, finished, failed, home>>
  <2> DEFINE left == toRead \ {item.seq}
  <2>1. left # {} /\ left \in SUBSET Nat /\ left \in SUBSET Seqs
    <3>1. left # {}
      BY <1>6
    <3>2. toRead \in SUBSET Seqs /\ Seqs \in SUBSET Nat
      BY BoundsAssumption DEF TypeOK, Seqs
    <3> QED BY <3>1, <3>2
  <2>2. Lowest(left) \in Seqs
    BY <2>1, FirstIsMember
  <2>3. toVehicle' \in Seq(VehicleMessages)
    <3>1. [type |-> "RequestItem", seq |-> Lowest(left)] \in VehicleMessages
      BY <2>2 DEF VehicleMessages
    <3> QED BY <1>6, <3>1, SentType DEF RequestNext
  <2>4. retries' \in 0 .. MaxRetry + 1
    BY <1>6, BoundsAssumption
  <2>5. TypeOK'
    BY <1>2, <1>6, <2>1, <2>3, <2>4 DEF RequestNext, Expecting, TypeOK, protocol
  <2>6. WaitsAreTimed' /\ CountComesFirst'
    BY <1>6 DEF RequestNext, Expecting, WaitsAreTimed, CountComesFirst, Nil
  <2>7. /\ DOMAIN items = 1 .. Len(items) /\ Len(items) \in Nat
        /\ DOMAIN items' = 1 .. Len(items) + 1
        /\ \A i \in 1 .. Len(items) : items'[i] = items[i]
        /\ items'[Len(items) + 1] = AsRead(item)
    BY <1>1, <1>2, <1>6, AppendProperties, LenProperties DEF TypeOK
  <2>8. ReadAccountsForEveryItem'
    <3>1. toRead' = left
      BY <1>6 DEF RequestNext
    <3>2. \A i \in DOMAIN items' : items'[i].seq \notin left
      BY <1>1, <1>6, <2>7 DEF ReadAccountsForEveryItem
    <3>3. \A i, j \in DOMAIN items' : items'[i].seq = items'[j].seq => i = j
      BY <1>1, <1>6, <2>7 DEF ReadAccountsForEveryItem
    <3>4. left \cup {items'[i].seq : i \in DOMAIN items'}
            = toRead \cup {items[i].seq : i \in DOMAIN items}
      <4>1. {items'[i].seq : i \in DOMAIN items'}
              = {items[i].seq : i \in DOMAIN items} \cup {item.seq}
        BY <1>1, <2>7
      <4> QED BY <4>1, <1>6
    <3> QED BY <2>1, <3>1, <3>2, <3>3, <3>4, <1>6 DEF ReadAccountsForEveryItem
  <2> QED BY <2>5, <2>6, <2>8
<1> QED BY <1>3, <1>4, <1>5, <1>6 DEF OnItem, Wanted

LEMMA OnCountInv ==
  ASSUME IInv, NEW count \in 0 .. MaxCount, OnCount(count), UNCHANGED protocol,
         toStation' \in Seq(StationMessages)
  PROVE  IInv'
<1> USE DEF IInv
<1>0. 0 \in 0 .. MaxRetry + 1
  BY BoundsAssumption
<1>1. CASE Ignored
  <2>1. TypeOK'
    BY <1>1 DEF Ignored, slot, TypeOK, protocol
  <2> QED BY <1>1, <2>1
       DEF Ignored, slot, WaitsAreTimed, ReadAccountsForEveryItem, CountComesFirst
<1>2. CASE retries' = 0 /\ ToVehicle([type |-> "Ack"]) /\ Finish(TRUE, items)
  <2>1. toVehicle' \in Seq(VehicleMessages)
    <3>1. [type |-> "Ack"] \in VehicleMessages
      BY DEF VehicleMessages
    <3> QED BY <1>2, <3>1, SentType
  <2> QED BY <1>0, <1>2, <2>1, FinishInv DEF TypeOK
<1>3. CASE /\ expect = "Count" /\ count > 0 /\ retries' = 0
           /\ RequestNext(0 .. count - 1)
           /\ UNCHANGED <<transaction, toWrite, writing, items, finished, failed, home>>
  <2>1. /\ 0 .. count - 1 # {} /\ 0 .. count - 1 \in SUBSET Nat
        /\ 0 .. count - 1 \in SUBSET Seqs
    <3>1. 0 \in 0 .. count - 1
      BY <1>3
    <3>2. 0 .. count - 1 \in SUBSET Nat /\ 0 .. count - 1 \in SUBSET Seqs
      BY <1>3, BoundsAssumption DEF Seqs
    <3> QED BY <3>1, <3>2
  <2>2. Lowest(0 .. count - 1) \in Seqs
    BY <2>1, FirstIsMember
  <2>3. toVehicle' \in Seq(VehicleMessages)
    <3>1. [type |-> "RequestItem", seq |-> Lowest(0 .. count - 1)] \in VehicleMessages
      BY <2>2 DEF VehicleMessages
    <3> QED BY <1>3, <3>1, SentType DEF RequestNext
  <2>4. TypeOK'
    BY <1>0, <1>3, <2>1, <2>3 DEF RequestNext, Expecting, TypeOK, Expects, protocol
  <2>5. WaitsAreTimed' /\ CountComesFirst'
    <3>1. transaction = "Read" /\ transaction' = transaction
      BY <1>3 DEF WaitsAreTimed, TypeOK, Transactions, Nil
    <3> QED BY <1>3, <3>1 DEF RequestNext, Expecting, WaitsAreTimed, CountComesFirst, Nil
  <2>6. ReadAccountsForEveryItem'
    <3>1. items' = <<>> /\ toRead' = 0 .. count - 1
      BY <1>3 DEF CountComesFirst, RequestNext
    <3>2. DOMAIN items' = {}
      BY <3>1
    <3> QED BY <2>1, <3>1, <3>2 DEF ReadAccountsForEveryItem
  <2> QED BY <2>4, <2>5, <2>6
<1> QED BY <1>1, <1>2, <1>3 DEF OnCount

LEMMA OnRequestInv ==
  ASSUME IInv, NEW seq \in Seqs, OnRequest(seq), UNCHANGED protocol,
         toStation' \in Seq(StationMessages)
  PROVE  IInv'
<1> USE DEF IInv
<1>1. CASE Ignored
  <2>1. TypeOK'
    BY <1>1 DEF Ignored, slot, TypeOK, protocol
  <2> QED BY <1>1, <2>1
       DEF Ignored, slot, WaitsAreTimed, ReadAccountsForEveryItem, CountComesFirst
<1>2. CASE Finish(FALSE, items) /\ UNCHANGED <<retries, toVehicle>>
  BY <1>2, FinishInv DEF TypeOK
<1>3. CASE /\ expect = "Request" /\ seq < Len(writing) /\ toWrite' = toWrite \ {seq}
           /\ ToVehicle([type |-> "Item", item |-> writing[seq + 1]])
           /\ Expecting("Request")
           /\ UNCHANGED <<transaction, retries, toRead, writing, items, finished, failed, home>>
  <2>1. toVehicle' \in Seq(VehicleMessages)
    <3>1. seq + 1 \in 1 .. Len(writing)
      BY <1>3, LenProperties DEF TypeOK, Seqs
    <3>2. writing[seq + 1] \in Item
      BY <3>1, ElementOfSeq DEF TypeOK
    <3>3. [type |-> "Item", item |-> writing[seq + 1]] \in VehicleMessages
      BY <3>2 DEF VehicleMessages
    <3> QED BY <1>3, <3>3, SentType
  <2>2. TypeOK'
    BY <1>3, <2>1 DEF Expecting, TypeOK, Expects, protocol
  <2> QED BY <1>3, <2>2
       DEF Expecting, WaitsAreTimed, ReadAccountsForEveryItem, CountComesFirst, Nil
<1> QED BY <1>1, <1>2, <1>3 DEF OnRequest

LEMMA OnAckInv ==
  ASSUME IInv, NEW result \in Results, OnAck(result), UNCHANGED protocol,
         toStation' \in Seq(StationMessages)
  PROVE  IInv'
<1> USE DEF IInv
<1>1. CASE Ignored
  <2>1. TypeOK'
    BY <1>1 DEF Ignored, slot, TypeOK, protocol
  <2> QED BY <1>1, <2>1
       DEF Ignored, slot, WaitsAreTimed, ReadAccountsForEveryItem, CountComesFirst
<1>2. CASE Finish(AckSucceeds(result), items) /\ UNCHANGED <<retries, toVehicle>>
  <2>1. AckSucceeds(result) \in BOOLEAN
    BY DEF AckSucceeds
  <2> QED BY <1>2, <2>1, FinishInv DEF TypeOK
<1> QED BY <1>1, <1>2 DEF OnAck

LEMMA StationReceiveInv == ASSUME IInv, StationReceive PROVE IInv'
<1> DEFINE m == Head(toStation)
<1>1. toStation # <<>> /\ toStation \in Seq(StationMessages) /\ toStation' \in Delivered(toStation)
  BY DEF StationReceive, IInv, TypeOK
<1>2. m \in StationMessages /\ toStation' \in Seq(StationMessages)
  BY <1>1, TakenType
<1>3. UNCHANGED protocol
  BY DEF StationReceive
<1>4. CASE m.type = "Count" /\ OnCount(m.count)
  <2>1. m.count \in 0 .. MaxCount
    BY <1>2, <1>4 DEF StationMessages
  <2> QED BY <1>2, <1>3, <1>4, <2>1, OnCountInv
<1>5. CASE m.type = "Item" /\ OnItem(m.item)
  <2>1. m.item \in Item
    BY <1>2, <1>5 DEF StationMessages
  <2> QED BY <1>2, <1>3, <1>5, <2>1, OnItemInv
<1>6. CASE m.type = "Request" /\ OnRequest(m.seq)
  <2>1. m.seq \in Seqs
    BY <1>2, <1>6 DEF StationMessages
  <2> QED BY <1>2, <1>3, <1>6, <2>1, OnRequestInv
<1>7. CASE m.type = "Ack" /\ OnAck(m.result)
  <2>1. m.result \in Results
    BY <1>2, <1>7 DEF StationMessages
  <2> QED BY <1>2, <1>3, <1>7, <2>1, OnAckInv
<1> QED BY <1>4, <1>5, <1>6, <1>7 DEF StationReceive

\* Nothing the vehicle does touches the station; it keeps its own types.
LEMMA VehicleReceiveInv == ASSUME IInv, VehicleReceive PROVE IInv'
<1> DEFINE m == Head(toVehicle)
<1> USE DEF IInv
<1>1. /\ m \in VehicleMessages
      /\ toVehicle' \in Seq(VehicleMessages)
      /\ UNCHANGED slot
  <2>1. toVehicle # <<>> /\ toVehicle \in Seq(VehicleMessages) /\ toVehicle' \in Delivered(toVehicle)
    BY DEF VehicleReceive, TypeOK
  <2> QED BY <2>1, TakenType DEF VehicleReceive
<1>2. SUFFICES /\ toStation' \in Seq(StationMessages)
               /\ mission' \in Seq(Item) /\ Len(mission') <= MaxCount
               /\ upload' \in [count : 0 .. MaxCount, items : Seq(Item)]
               /\ upload' = NoUpload \/ Len(upload'.items) < upload'.count
  <2>1. TypeOK'
    BY <1>1, <1>2 DEF slot, TypeOK
  <2>2. UNCHANGED <<transaction, expect, due, toRead, items>>
    BY <1>1 DEF slot
  <2>3. WaitsAreTimed' /\ CountComesFirst'
    BY <2>2 DEF WaitsAreTimed, CountComesFirst
  <2>4. ReadAccountsForEveryItem'
    BY <2>2 DEF ReadAccountsForEveryItem
  <2> QED BY <2>1, <2>3, <2>4
<1>3. /\ Len(mission) \in 0 .. MaxCount /\ Len(upload.items) \in Nat
      /\ \A n \in Seqs : n < Len(mission) => mission[n + 1] \in Item
  <2>1. \A n \in 1 .. Len(mission) : mission[n] \in Item
    BY ElementOfSeq DEF TypeOK
  <2> QED BY <2>1, LenProperties, BoundsAssumption DEF TypeOK, Seqs
<1>4. \A result \in Results : [type |-> "Ack", result |-> result] \in StationMessages
  BY DEF StationMessages
<1>5. ASSUME NEW result \in Results, Acknowledge(result)
      PROVE  toStation' \in Seq(StationMessages)
  BY <1>4, <1>5, RepliedType DEF Acknowledge
<1>6. "Accepted" \in Results /\ "Rejected" \in Results /\ "InvalidSequence" \in Results
  BY DEF Results
<1>7. <<>> \in Seq(Item) /\ Len(<<>>) = 0 /\ MaxCount \in Nat
  BY EmptySeq, BoundsAssumption
<1>8. CASE m.type = "RequestList" /\ Reply([type |-> "Count", count |-> Len(mission)])
           /\ UNCHANGED protocol
  <2>1. [type |-> "Count", count |-> Len(mission)] \in StationMessages
    BY <1>3 DEF StationMessages
  <2> QED BY <1>8, <2>1, RepliedType DEF TypeOK, protocol
<1>9. CASE m.type = "RequestItem" /\ OnRequestItem(m.seq)
  <2>1. m.seq \in Seqs
    BY <1>1, <1>9 DEF VehicleMessages
  <2>2. CASE m.seq < Len(mission) /\ Reply([type |-> "Item", item |-> mission[m.seq + 1]])
             /\ UNCHANGED protocol
    <3>1. [type |-> "Item", item |-> mission[m.seq + 1]] \in StationMessages
      BY <1>3, <2>1, <2>2 DEF StationMessages
    <3> QED BY <2>2, <3>1, RepliedType DEF TypeOK, protocol
  <2>3. CASE Silent
    BY <2>3 DEF Silent, TypeOK, protocol
  <2> QED BY <1>9, <2>2, <2>3 DEF OnRequestItem
<1>10. CASE m.type = "Count" /\ OnUploadCount(m.count)
  <2>1. m.count \in 0 .. MaxCount
    BY <1>1, <1>10 DEF VehicleMessages
  <2>2. CASE mission' = <<>> /\ Acknowledge("Accepted") /\ UNCHANGED upload
    BY <1>5, <1>6, <1>7, <2>2 DEF TypeOK
  <2>3. CASE /\ m.count > 0 /\ upload' = [count |-> m.count, items |-> <<>>]
             /\ Reply([type |-> "Request", seq |-> 0]) /\ UNCHANGED mission
    <3>1. [type |-> "Request", seq |-> 0] \in StationMessages
      BY <2>1, <2>3, <1>7 DEF StationMessages, Seqs
    <3>2. toStation' \in Seq(StationMessages)
      BY <2>3, <3>1, RepliedType
    <3> QED BY <1>7, <2>1, <2>3, <3>2 DEF TypeOK
  <2>4. CASE Acknowledge("Rejected") /\ UNCHANGED protocol
    BY <1>5, <1>6, <2>4 DEF TypeOK, protocol
  <2> QED BY <1>10, <2>2, <2>3, <2>4 DEF OnUploadCount
<1>11. CASE m.type = "Item" /\ OnUploadItem(m.item)
  <2> DEFINE gathered == Append(upload.items, m.item)
  <2>1. m.item \in Item
    BY <1>1, <1>11 DEF VehicleMessages
  <2>2. gathered \in Seq(Item) /\ Len(gathered) = Len(upload.items) + 1
    BY <2>1, AppendProperties DEF TypeOK
  <2> HIDE DEF gathered
  <2>3. CASE /\ Len(gathered) < upload.count
             /\ upload' = [upload EXCEPT !.items = gathered]
             /\ Reply([type |-> "Request", seq |-> Len(gathered)]) /\ UNCHANGED mission
    <3>1. Len(gathered) \in Seqs
      BY <1>3, <1>7, <2>2, <2>3 DEF TypeOK, Seqs
    <3>2. [type |-> "Request", seq |-> Len(gathered)] \in StationMessages
      BY <3>1 DEF StationMessages
    <3>3. toStation' \in Seq(StationMessages)
      BY <2>3, <3>2, RepliedType
    <3> QED BY <2>2, <2>3, <3>3 DEF TypeOK
  <2>4. CASE /\ upload.count > 0 /\ mission' = gathered /\ upload' = NoUpload
             /\ Acknowledge("Accepted")
    <3>1. Len(gathered) <= MaxCount
      BY <1>3, <1>7, <2>2, <2>4 DEF TypeOK, NoUpload
    <3>2. NoUpload \in [count : 0 .. MaxCount, items : Seq(Item)]
      BY <1>7 DEF NoUpload
    <3> QED BY <1>5, <1>6, <2>2, <2>4, <3>1, <3>2
  <2>5. CASE Silent
    BY <2>5 DEF Silent, TypeOK, protocol
  <2>6. CASE Acknowledge("InvalidSequence") /\ UNCHANGED protocol
    BY <1>5, <1>6, <2>6 DEF TypeOK, protocol
  <2> QED BY <1>11, <2>3, <2>4, <2>5, <2>6 DEF OnUploadItem, gathered
<1>12. CASE mission' = <<>> /\ Acknowledge("Accepted") /\ UNCHANGED upload
  BY <1>5, <1>6, <1>7, <1>12 DEF TypeOK
<1>13. CASE Acknowledge("Accepted") /\ UNCHANGED protocol
  BY <1>5, <1>6, <1>13 DEF TypeOK, protocol
<1>14. CASE Silent
  BY <1>14 DEF Silent, TypeOK, protocol
<1> QED
  BY <1>8, <1>9, <1>10, <1>11, <1>12, <1>13, <1>14 DEF VehicleReceive

LEMMA NextInv == IInv /\ [Next]_vars => IInv'
<1> SUFFICES ASSUME IInv, [Next]_vars PROVE IInv'
  OBVIOUS
<1>1. CASE UNCHANGED vars
  <2>1. TypeOK'
    BY <1>1 DEF vars, slot, protocol, network, IInv, TypeOK
  <2> QED BY <1>1, <2>1
       DEF vars, slot, protocol, network, IInv, WaitsAreTimed, ReadAccountsForEveryItem,
           CountComesFirst
<1> QED BY <1>1, OperatorInv, TimeoutInv, StationReceiveInv, VehicleReceiveInv DEF Next

-----------------------------------------------------------------------------
(* The theorems.                                                           *)

\* IInv holds throughout.
THEOREM InvariantHolds == Spec => []IInv
BY InitInv, NextInv, PTL DEF Spec

\* Type correctness: for every plan and retry limit, what plantransfer.rs and the
\* vehicle keep stays of its type, and no plan outgrows MISSION_COUNT.
THEOREM TypeCorrect == Spec => []TypeOK
BY InvariantHolds, PTL DEF IInv

\* A transfer in progress always waits for an answer of its kind with its timer
\* armed, however messages are lost, repeated or late (take_expected, expecting,
\* finish in plantransfer.rs and follow_plan in hub.rs).
THEOREM TransfersAreTimed == Spec => []WaitsAreTimed
BY InvariantHolds, PTL DEF IInv

\* A read accounts for every item of the count it was given, each once (on_count,
\* on_item).
THEOREM ReadsAccountForEveryItem == Spec => []ReadAccountsForEveryItem
BY InvariantHolds, PTL DEF IInv

-----------------------------------------------------------------------------
(* The transfer implements PlanPromise.                                    *)

\* finish ends the transaction as PlanPromise says.
LEMMA FinishKeepsPromise ==
  ASSUME NEW success \in BOOLEAN, NEW held, Finish(success, held), transaction # Nil,
         IF transaction = "Read" THEN Promise!Grown(items, held) ELSE held = items
  PROVE  Promise!End(success)
<1>1. CASE transaction = "Read"
  BY <1>1 DEF Finish, HeldAfter, Promise!End, Promise!Idle, Nil
<1>2. CASE transaction # "Read"
  BY <1>2 DEF Finish, HeldAfter, Promise!End, Promise!Idle, Nil
<1> QED BY <1>1, <1>2

\* The held plan is a grown copy of itself, alone or with an item appended.
LEMMA GrownByOne ==
  ASSUME NEW S, NEW plan \in Seq(S), NEW e \in S
  PROVE  Promise!Grown(plan, plan) /\ Promise!Grown(plan, Append(plan, e))
BY AppendProperties, LenProperties DEF Promise!Grown

LEMMA OperatorKeepsPromise ==
  ASSUME IInv, Operator PROVE [Promise!Next]_(Promise!vars)
<1> USE DEF Promise!Start, Promise!TransferKinds, Promise!Idle, Nil, protocol
<1>1. CASE Load
  <2>1. Promise!Start("Read")
    BY <1>1 DEF Load, RequestList, Expecting
  <2> QED BY <2>1 DEF Promise!Next
<1>2. CASE RemoveAll
  <2>1. Promise!Start("RemoveAll")
    BY <1>2 DEF RemoveAll, ClearAll, Expecting
  <2> QED BY <2>1 DEF Promise!Next
<1>3. CASE GuidedItem
  <2>1. Promise!Start("GuidedItem")
    BY <1>3 DEF GuidedItem, Expecting
  <2> QED BY <2>1 DEF Promise!Next
<1>4. ASSUME NEW p \in Plans, Write(p) PROVE Promise!Start("Write")
  BY <1>4 DEF Write, WriteCount, Expecting
<1>5. ASSUME NEW p \in Plans, WriteTooLong(p) PROVE [Promise!Refuse]_(Promise!vars)
  BY <1>5 DEF WriteTooLong, Promise!Refuse, Promise!vars
<1> QED BY <1>1, <1>2, <1>3, <1>4, <1>5 DEF Operator, Promise!Next

LEMMA TimeoutKeepsPromise ==
  ASSUME IInv, Timeout PROVE [Promise!Next]_(Promise!vars)
<1>1. transaction # Nil /\ transaction \in Transactions
  BY DEF Timeout, IInv, TypeOK, WaitsAreTimed
<1>2. CASE GivesUp
  <2>1. Promise!Grown(items, items)
    BY LenProperties DEF IInv, TypeOK, Promise!Grown
  <2>2. Promise!End(FALSE)
    BY <1>1, <1>2, <2>1, FinishKeepsPromise DEF GivesUp
  <2> QED BY <2>2 DEF Promise!Next
<1>3. CASE AskAgain
  <2>1. CASE expect = "Count" /\ RequestList
    <3>1. transaction = "Read"
      BY <1>1, <2>1 DEF IInv, WaitsAreTimed, Transactions, Nil
    <3>2. Promise!Gather
      BY <1>3, <2>1, <3>1 DEF AskAgain, RequestList, Promise!Gather
    <3> QED BY <3>2 DEF Promise!Next
  <2>2. CASE expect # "Count"
    BY <1>3, <2>2 DEF AskAgain, RequestNext, WriteCount, ClearAll, Promise!vars
  <2> QED BY <1>3, <2>1, <2>2 DEF AskAgain
<1> QED BY <1>2, <1>3 DEF Timeout

LEMMA StationReceiveKeepsPromise ==
  ASSUME IInv, StationReceive PROVE [Promise!Next]_(Promise!vars)
<1> DEFINE m == Head(toStation)
<1>1. m \in StationMessages
  <2>1. toStation # <<>> /\ toStation \in Seq(StationMessages) /\ toStation' \in Delivered(toStation)
    BY DEF StationReceive, IInv, TypeOK
  <2> QED BY <2>1, TakenType
<1>2. items \in Seq(Item) /\ Promise!Grown(items, items)
  BY LenProperties DEF IInv, TypeOK, Promise!Grown
<1>3. ASSUME expect # Nil PROVE transaction # Nil
  BY <1>3 DEF IInv, WaitsAreTimed, Nil
<1>4. ASSUME expect \in {"Count", "Item"} PROVE transaction = "Read"
  BY <1>4 DEF IInv, WaitsAreTimed, TypeOK, Transactions, Nil
<1>5. ASSUME NEW success \in BOOLEAN, Promise!End(success) PROVE Promise!Next
  BY <1>5 DEF Promise!Next
<1>6. CASE m.type = "Count" /\ OnCount(m.count)
  <2>1. CASE expect = "Count" /\ Finish(TRUE, items)
    BY <1>2, <1>3, <1>5, <2>1, FinishKeepsPromise DEF Nil
  <2>2. CASE UNCHANGED <<transaction, writing, items, failed>>
    BY <2>2 DEF Promise!vars
  <2> QED BY <1>6, <2>1, <2>2 DEF OnCount, Ignored, slot
<1>7. CASE m.type = "Item" /\ OnItem(m.item)
  <2>1. AsRead(m.item) \in Item
    <3>1. m.item \in Item
      BY <1>1, <1>7 DEF StationMessages
    <3> QED BY <3>1 DEF AsRead, Item
  <2>2. Promise!Grown(items, Append(items, AsRead(m.item)))
    BY <1>2, <2>1, GrownByOne
  <2>3. CASE expect = "Item" /\ Finish(TRUE, Append(items, AsRead(m.item)))
    <3>1. transaction = "Read"
      BY <1>4, <2>3
    <3>2. Promise!End(TRUE)
      BY <2>2, <2>3, <3>1, FinishKeepsPromise DEF Nil
    <3> QED BY <1>5, <3>2
  <2>4. CASE UNCHANGED <<transaction, writing, items, failed>>
    BY <2>4 DEF Promise!vars
  <2>5. CASE /\ expect = "Item" /\ items' = Append(items, AsRead(m.item))
             /\ UNCHANGED <<transaction, writing, failed>>
    <3>1. Promise!Gather
      BY <1>4, <2>2, <2>5 DEF Promise!Gather
    <3> QED BY <3>1 DEF Promise!Next
  <2> QED BY <1>7, <2>3, <2>4, <2>5 DEF OnItem
<1>8. CASE m.type = "Request" /\ OnRequest(m.seq)
  <2>1. CASE expect = "Request" /\ Finish(FALSE, items)
    BY <1>2, <1>3, <1>5, <2>1, FinishKeepsPromise DEF Nil
  <2>2. CASE UNCHANGED <<transaction, writing, items, failed>>
    BY <2>2 DEF Promise!vars
  <2> QED BY <1>8, <2>1, <2>2 DEF OnRequest, Ignored, slot
<1>9. CASE m.type = "Ack" /\ OnAck(m.result)
  <2>1. CASE expect # Nil /\ Finish(AckSucceeds(m.result), items)
    <3>1. AckSucceeds(m.result) \in BOOLEAN
      BY DEF AckSucceeds
    <3>2. Promise!End(AckSucceeds(m.result))
      BY <1>2, <1>3, <2>1, <3>1, FinishKeepsPromise
    <3> QED BY <1>5, <3>1, <3>2
  <2>2. CASE UNCHANGED <<transaction, writing, items, failed>>
    BY <2>2 DEF Promise!vars
  <2> QED BY <1>9, <2>1, <2>2 DEF OnAck, Ignored, slot
<1> QED BY <1>6, <1>7, <1>8, <1>9 DEF StationReceive

LEMMA NextKeepsPromise == IInv /\ [Next]_vars => [Promise!Next]_(Promise!vars)
<1> SUFFICES ASSUME IInv, [Next]_vars PROVE [Promise!Next]_(Promise!vars)
  OBVIOUS
<1>1. CASE UNCHANGED slot
  BY <1>1 DEF slot, Promise!vars
<1>2. CASE VehicleReceive
  BY <1>1, <1>2 DEF VehicleReceive
<1>3. CASE UNCHANGED vars
  BY <1>1, <1>3 DEF vars
<1> QED
  BY <1>2, <1>3, OperatorKeepsPromise, TimeoutKeepsPromise, StationReceiveKeepsPromise
     DEF Next

\* The transfer implements PlanPromise for every plan and every network: the held
\* plan changes only as a read gathers it, a write succeeds or a removal starts,
\* and each transaction ends once (load, write, remove_all, guided_item, finish).
THEOREM TransferKeepsPromise == Spec => KeepsPromise
<1>1. Init => Promise!Init
  BY DEF Init, StationInit, Promise!Init, Promise!Idle, Nil
<1> QED
  BY <1>1, InvariantHolds, NextKeepsPromise, PTL DEF Spec, KeepsPromise, Promise!Spec

-----------------------------------------------------------------------------
(* While nothing arrives after a timer, and nothing twice, the plans of    *)
(* station and vehicle agree.  One message at most is on its way, behind   *)
(* the ack that ended the last read; what is waited for, and how far it    *)
(* has come, tells which message that is and what the vehicle has.         *)

Reading(plan) == [i \in DOMAIN plan |-> AsRead(plan[i])]
Ordered(plan) == \A i \in DOMAIN plan : plan[i].seq = i - 1

TheEnd == [type |-> "Ack"]
Quiet == toStation = <<>> /\ toVehicle \in {<<>>, <<TheEnd>>}
Asked(m) == toStation = <<>> /\ toVehicle \in {<<>>, <<TheEnd>>, <<m>>, <<TheEnd, m>>}
Answered(m) == toVehicle = <<>> /\ toStation = <<m>>
Accepted == Answered([type |-> "Ack", result |-> "Accepted"])

ReadFollows ==
  /\ expect = "Count" =>
       \/ Asked([type |-> "RequestList"])
       \/ Answered([type |-> "Count", count |-> Len(mission)])
  /\ expect = "Item" =>
       /\ toRead = Len(items) .. Len(mission) - 1
       /\ items = [i \in 1 .. Len(items) |-> AsRead(mission[i])]
       /\ \/ Asked([type |-> "RequestItem", seq |-> Len(items)])
          \/ Answered([type |-> "Item", item |-> mission[Len(items) + 1]])

\* The vehicle has been sent k items.
ServedUpTo(k) ==
  /\ toWrite = k .. Len(writing) - 1
  /\ \/ Quiet
     \/ k = 0 /\ Asked([type |-> "Count", count |-> Len(writing)])
     \/ k = 0 /\ Answered([type |-> "Ack", result |-> "Rejected"])
     \/ /\ k > 0 /\ toStation = <<>>
        /\ toVehicle = <<[type |-> "Item", item |-> writing[k]]>>
        /\ upload = [count |-> Len(writing), items |-> SubSeq(writing, 1, k - 1)]
     \/ /\ k < Len(writing) /\ Answered([type |-> "Request", seq |-> k])
        /\ upload = [count |-> Len(writing), items |-> SubSeq(writing, 1, k)]
     \/ k = Len(writing) /\ Accepted /\ mission = writing

WriteFollows ==
  expect = "Request" => Ordered(writing) /\ \E k \in 0 .. Len(writing) : ServedUpTo(k)

RestFollows ==
  /\ expect = Nil => Quiet
  /\ expect = "ClearAck" => Asked([type |-> "ClearAll"]) \/ Accepted
  /\ expect = "GuidedItem" => Asked([type |-> "GuidedItem"]) \/ Accepted

HeldIsTheVehicles ==
  transaction = Nil /\ ~failed =>
    /\ finished = "Read" => items = Reading(mission)
    /\ finished = "Write" => items = mission

Agreeing ==
  Ordered(mission) /\ ReadFollows /\ WriteFollows /\ RestFollows /\ HeldIsTheVehicles
InTime == Prompt /\ ~Duplicates

\* Sequences of one and of two.
LEMMA ShortSequences ==
  ASSUME NEW a, NEW b
  PROVE  /\ <<a>> # <<>> /\ Head(<<a>>) = a /\ Tail(<<a>>) = <<>>
         /\ <<a, b>> # <<>> /\ Head(<<a, b>>) = a /\ Tail(<<a, b>>) = <<b>>
         /\ Append(<<>>, a) = <<a>> /\ Append(<<a>>, b) = <<a, b>>
<1>1. <<a>> # <<>> /\ Head(<<a>>) = a /\ <<a, b>> # <<>> /\ Head(<<a, b>>) = a
  OBVIOUS
<1>2. Tail(<<a>>) = <<>>
  OBVIOUS
<1>3. Tail(<<a, b>>) = <<b>>
  OBVIOUS
<1>4. Append(<<>>, a) = <<a>>
  OBVIOUS
<1>5. Append(<<a>>, b) = <<a, b>>
  <2> DEFINE s == Append(<<a>>, b)
             t == <<a, b>>
  <2>1. <<a>> \in Seq({a, b}) /\ Len(<<a>>) = 1 /\ <<a>>[1] = a
    OBVIOUS
  <2>3. t \in Seq({a, b}) /\ Len(t) = 2 /\ t[1] = a /\ t[2] = b
    OBVIOUS
  <2>2. s \in Seq({a, b}) /\ Len(s) = 2 /\ s[1] = a /\ s[2] = b
    BY <2>1, AppendProperties
  <2> SUFFICES s = t
    OBVIOUS
  <2> HIDE DEF s, t
  <2>4. \A i \in 1 .. Len(s) : s[i] = t[i]
    BY <2>2, <2>3
  <2> QED BY <2>2, <2>3, <2>4, SeqEqual
<1> QED BY <1>1, <1>2, <1>3, <1>4, <1>5

\* What the station sends while nothing else is on its way.
LEMMA Sent ==
  ASSUME NEW m, toVehicle \in {<<>>, <<TheEnd>>}, ToVehicle(m)
  PROVE  toVehicle' \in {<<>>, <<TheEnd>>, <<m>>, <<TheEnd, m>>}
BY ShortSequences DEF ToVehicle, Carried

\* What the vehicle answers.
LEMMA Replied ==
  ASSUME NEW m, toStation = <<>>, Reply(m)
  PROVE  toStation' \in {<<>>, <<m>>}
BY ShortSequences DEF Reply, Carried

LEMMA FirstOfRange ==
  ASSUME NEW n \in Nat, NEW m \in Nat, n <= m
  PROVE  Lowest(n .. m) = n
<1>1. \A k \in n .. m : n <= k
  OBVIOUS
<1>2. Lowest(n .. m) \in n .. m /\ \A k \in n .. m : Lowest(n .. m) <= k
  BY <1>1 DEF Lowest
<1> QED BY <1>2

\* A plan is gathered item by item.
LEMMA Prefixes ==
  ASSUME NEW plan \in Seq(Item)
  PROVE  /\ SubSeq(plan, 1, 0) = <<>> /\ SubSeq(plan, 1, Len(plan)) = plan
         /\ \A k \in 1 .. Len(plan) :
              /\ Len(SubSeq(plan, 1, k - 1)) = k - 1
              /\ Append(SubSeq(plan, 1, k - 1), plan[k]) = SubSeq(plan, 1, k)
<1>1. \A k \in 0 .. Len(plan) :
        SubSeq(plan, 1, k) \in Seq(Item) /\ Len(SubSeq(plan, 1, k)) = k
  <2>1. \A i \in 1 .. Len(plan) : plan[i] \in Item
    BY ElementOfSeq
  <2> SUFFICES ASSUME NEW k \in 0 .. Len(plan)
               PROVE  SubSeq(plan, 1, k) \in Seq(Item) /\ Len(SubSeq(plan, 1, k)) = k
    OBVIOUS
  <2>2. \A i \in 1 .. k : plan[i] \in Item
    BY <2>1, LenProperties
  <2> QED BY <2>2, SubSeqProperties, LenProperties
<1>2. ASSUME NEW k \in 1 .. Len(plan)
      PROVE  Append(SubSeq(plan, 1, k - 1), plan[k]) = SubSeq(plan, 1, k)
  <2>1. SubSeq(plan, 1, k) = SubSeq(plan, 1, k - 1) \o <<plan[k]>>
    BY SubSeqRecursiveSecond, LenProperties
  <2>2. SubSeq(plan, 1, k - 1) \in Seq(Item) /\ plan[k] \in Item
    BY <1>1, ElementOfSeq, LenProperties
  <2> QED BY <2>1, <2>2, AppendIsConcat
<1>3. \A k \in 1 .. Len(plan) : k - 1 \in 0 .. Len(plan)
  BY LenProperties
<1> QED BY <1>1, <1>2, <1>3, SubSeqEmpty, SubSeqFull

\* What write prepares is in order.
LEMMA NumberedInOrder ==
  ASSUME NEW plan \in Plans, Len(Numbered(plan)) <= MaxCount
  PROVE  Ordered(Numbered(plan))
BY DEF Numbered, Ordered

LEMMA InitAgrees == Init => Agreeing
BY DEF Init, StationInit, VehicleInit, Agreeing, Ordered, ReadFollows, WriteFollows,
       RestFollows, HeldIsTheVehicles, Quiet, Nil

\* What runs is what the answer is waited for.
LEMMA WhatIsWaitedFor ==
  ASSUME IInv
  PROVE  /\ expect = Nil <=> transaction = Nil
         /\ expect \in {"Count", "Item"} <=> transaction = "Read"
         /\ expect = "Request" <=> transaction = "Write"
         /\ expect = "ClearAck" <=> transaction = "RemoveAll"
         /\ expect = "GuidedItem" <=> transaction = "GuidedItem"
BY DEF IInv, WaitsAreTimed, TypeOK, Transactions, Nil

\* A transfer that ends agrees, if what it ends well with does.
LEMMA FinishAgrees ==
  ASSUME IInv, Agreeing, expect # Nil, NEW success \in BOOLEAN, NEW held,
         Finish(success, held), Quiet', UNCHANGED mission,
         success /\ transaction = "Read" => held = Reading(mission),
         success /\ transaction = "Write" => writing = mission
  PROVE  Agreeing'
<1>1. Ordered(mission)' /\ ReadFollows' /\ WriteFollows' /\ RestFollows'
  BY DEF Finish, Agreeing, Ordered, ReadFollows, WriteFollows, RestFollows, Nil
<1>2. transaction # Nil
  BY WhatIsWaitedFor
<1>3. HeldIsTheVehicles'
  <2> SUFFICES ASSUME ~failed', finished' \in {"Read", "Write"}
               PROVE  /\ finished' = "Read" => items' = Reading(mission)'
                      /\ finished' = "Write" => items' = mission'
    BY DEF HeldIsTheVehicles
  <2>1. transaction \in {"Read", "Write"} /\ success /\ finished' = transaction
    BY <1>2 DEF Finish
  <2>2. CASE transaction = "Read"
    BY <2>1, <2>2 DEF Finish, HeldAfter, Reading
  <2>3. CASE transaction = "Write"
    BY <2>1, <2>3 DEF Finish, HeldAfter
  <2> QED BY <2>1, <2>2, <2>3
<1> QED BY <1>1, <1>3 DEF Agreeing

LEMMA OperatorAgrees ==
  ASSUME IInv, Agreeing, Operator PROVE Agreeing'
<1>1. transaction = Nil /\ expect = Nil /\ Quiet
  BY WhatIsWaitedFor
     DEF Operator, Load, RemoveAll, GuidedItem, Write, WriteTooLong, Agreeing, RestFollows
<1>2. CASE Load
  <2>1. Asked([type |-> "RequestList"])'
    BY <1>1, <1>2, Sent DEF Load, RequestList, Quiet, Asked
  <2> QED BY <1>2, <2>1
       DEF Load, RequestList, Expecting, Agreeing, Ordered, ReadFollows, WriteFollows,
           RestFollows, HeldIsTheVehicles, Nil, protocol
<1>3. CASE RemoveAll
  <2>1. Asked([type |-> "ClearAll"])'
    BY <1>1, <1>3, Sent DEF RemoveAll, ClearAll, Quiet, Asked
  <2> QED BY <1>3, <2>1
       DEF RemoveAll, ClearAll, Expecting, Agreeing, Ordered, ReadFollows, WriteFollows,
           RestFollows, HeldIsTheVehicles, Nil, protocol
<1>4. CASE GuidedItem
  <2>1. Asked([type |-> "GuidedItem"])'
    BY <1>1, <1>4, Sent DEF GuidedItem, Quiet, Asked
  <2> QED BY <1>4, <2>1
       DEF GuidedItem, Expecting, Agreeing, Ordered, ReadFollows, WriteFollows,
           RestFollows, HeldIsTheVehicles, Nil, protocol
<1>5. ASSUME NEW plan \in Plans, Write(plan) PROVE Agreeing'
  <2>1. /\ Len(Numbered(plan)) \in Nat /\ DOMAIN Numbered(plan) = 1 .. Len(Numbered(plan))
        /\ Ordered(Numbered(plan))
    BY <1>5, NumberedType, NumberedInOrder DEF Write
  <2>2. writing' = Numbered(plan) /\ expect' = "Request" /\ transaction' = "Write"
    BY <1>5 DEF Write, WriteCount, Expecting
  <2>3. toWrite' = 0 .. Len(writing') - 1
    <3>1. toWrite' = {i - 1 : i \in 1 .. Len(Numbered(plan))}
      BY <1>5, <2>1 DEF Write
    <3>2. \A n \in Nat : {i - 1 : i \in 1 .. n} = 0 .. n - 1
      <4> SUFFICES ASSUME NEW n \in Nat PROVE {i - 1 : i \in 1 .. n} = 0 .. n - 1
        OBVIOUS
      <4>1. \A j \in 0 .. n - 1 : j + 1 \in 1 .. n /\ j = (j + 1) - 1
        OBVIOUS
      <4> QED BY <4>1
    <3> QED BY <2>1, <2>2, <3>1, <3>2
  <2>4. Asked([type |-> "Count", count |-> Len(writing)])'
    BY <1>1, <1>5, <2>2, Sent DEF Write, WriteCount, Quiet, Asked
  <2>5. WriteFollows'
    <3>1. ServedUpTo(0)'
      BY <2>3, <2>4 DEF ServedUpTo
    <3>2. 0 \in 0 .. Len(writing')
      BY <2>1, <2>2
    <3>3. Ordered(writing)'
      BY <2>1, <2>2 DEF Ordered
    <3> QED BY <3>1, <3>2, <3>3 DEF WriteFollows
  <2>6. Ordered(mission)' /\ ReadFollows' /\ RestFollows' /\ HeldIsTheVehicles'
    BY <1>5, <2>2
       DEF Write, Agreeing, Ordered, ReadFollows, RestFollows, HeldIsTheVehicles, Nil, protocol
  <2> QED BY <2>5, <2>6 DEF Agreeing
<1>6. ASSUME NEW plan \in Plans, WriteTooLong(plan) PROVE Agreeing'
  <2>1. Quiet' /\ Ordered(mission)' /\ expect' = Nil
    BY <1>1, <1>6 DEF WriteTooLong, Quiet, Agreeing, Ordered, network, protocol
  <2>2. HeldIsTheVehicles'
    BY <1>6 DEF WriteTooLong, HeldIsTheVehicles
  <2> QED BY <2>1, <2>2 DEF Agreeing, ReadFollows, WriteFollows, RestFollows, Nil
<1> QED BY <1>2, <1>3, <1>4, <1>5, <1>6 DEF Operator

LEMMA TimeoutAgrees ==
  ASSUME IInv, Agreeing, InTime, Timeout PROVE Agreeing'
<1>1. /\ toVehicle = <<>> /\ toStation = <<>> /\ toStation' = <<>>
      /\ UNCHANGED mission
  BY DEF Timeout, InTime, protocol
<1>2. expect # Nil
  BY WhatIsWaitedFor DEF Timeout, IInv, WaitsAreTimed
<1>3. CASE GivesUp
  <2>1. Quiet' /\ Finish(FALSE, items)
    BY <1>1, <1>3 DEF GivesUp, Quiet
  <2> QED BY <1>1, <1>2, <2>1, FinishAgrees
<1>4. CASE AskAgain
  <2>0. Ordered(mission)' /\ transaction' # Nil
    BY <1>1, <1>2, <1>4, WhatIsWaitedFor DEF AskAgain, Agreeing, Ordered
  <2>1. CASE expect = "Count" /\ RequestList
    <3>1. Asked([type |-> "RequestList"])'
      BY <1>1, <2>1, Sent DEF RequestList, Asked
    <3> QED BY <2>0, <2>1, <3>1
         DEF RequestList, Expecting, Agreeing, ReadFollows, WriteFollows, RestFollows,
             HeldIsTheVehicles, Nil
  <2>2. CASE expect = "Item" /\ RequestNext(toRead) /\ UNCHANGED items
    <3>1. toRead = Len(items) .. Len(mission) - 1 /\ toRead # {}
      BY <2>2 DEF Agreeing, ReadFollows, IInv, ReadAccountsForEveryItem
    <3>2. Lowest(toRead) = Len(items)
      <4>1. Len(items) \in Nat /\ Len(mission) \in Nat
        BY LenProperties DEF IInv, TypeOK
      <4>2. Len(mission) - 1 \in Nat /\ Len(items) <= Len(mission) - 1
        BY <3>1, <4>1
      <4> QED BY <3>1, <4>1, <4>2, FirstOfRange
    <3>3. Asked([type |-> "RequestItem", seq |-> Len(items)])'
      BY <1>1, <2>2, <3>2, Sent DEF RequestNext, Asked
    <3>4. ReadFollows'
      BY <1>1, <2>2, <3>1, <3>3 DEF RequestNext, Expecting, Agreeing, ReadFollows
    <3> QED BY <2>0, <2>2, <3>4
         DEF RequestNext, Expecting, Agreeing, WriteFollows, RestFollows,
             HeldIsTheVehicles, Nil
  <2>3. CASE expect = "Request" /\ 0 \in toWrite /\ WriteCount(Len(writing))
    <3>1. PICK k \in 0 .. Len(writing) : ServedUpTo(k)
      BY <2>3 DEF Agreeing, WriteFollows
    <3>2. k = 0 /\ toWrite = 0 .. Len(writing) - 1
      BY <2>3, <3>1 DEF ServedUpTo
    <3>3. UNCHANGED <<writing, toWrite>> /\ expect' = "Request"
      BY <1>4, <2>3 DEF AskAgain, WriteCount, Expecting
    <3>4. Asked([type |-> "Count", count |-> Len(writing)])'
      BY <1>1, <2>3, <3>3, Sent DEF WriteCount, Asked
    <3>5. ServedUpTo(0)'
      BY <3>2, <3>3, <3>4 DEF ServedUpTo
    <3>6. Ordered(writing)' /\ 0 \in 0 .. Len(writing')
      BY <2>3, <3>1, <3>2, <3>3 DEF Agreeing, WriteFollows, Ordered
    <3> QED BY <2>0, <3>3, <3>5, <3>6
         DEF Agreeing, ReadFollows, WriteFollows, RestFollows, HeldIsTheVehicles, Nil
  <2>4. CASE expect = "ClearAck" /\ ClearAll
    <3>1. Asked([type |-> "ClearAll"])'
      BY <1>1, <2>4, Sent DEF ClearAll, Asked
    <3> QED BY <2>0, <2>4, <3>1
         DEF ClearAll, Expecting, Agreeing, ReadFollows, WriteFollows, RestFollows,
             HeldIsTheVehicles, Nil
  <2> QED BY <1>4, <2>1, <2>2, <2>3, <2>4 DEF AskAgain
<1> QED BY <1>3, <1>4 DEF Timeout

\* The station takes the one message that is on its way to it.
LEMMA StationHears ==
  ASSUME InTime, StationReceive, NEW m, toStation = <<m>>
  PROVE  /\ toStation' = <<>> /\ UNCHANGED <<mission, upload>>
         /\ \/ m.type = "Count" /\ OnCount(m.count)
            \/ m.type = "Item" /\ OnItem(m.item)
            \/ m.type = "Request" /\ OnRequest(m.seq)
            \/ m.type = "Ack" /\ OnAck(m.result)
<1>1. Head(toStation) = m /\ Tail(toStation) = <<>>
  BY ShortSequences
<1> QED BY <1>1 DEF InTime, StationReceive, Delivered, protocol

\* An ack that is waited for.
LEMMA AckAgrees ==
  ASSUME IInv, Agreeing, InTime, NEW result \in {"Accepted", "Rejected"},
         expect # Nil, toVehicle = <<>>, toStation' = <<>>, UNCHANGED mission,
         OnAck(result),
         result = "Accepted" /\ toWrite = {} /\ transaction = "Write" => writing = mission
  PROVE  Agreeing'
<1>1. Finish(AckSucceeds(result), items) /\ UNCHANGED toVehicle
  BY DEF OnAck
<1>2. Quiet'
  BY <1>1 DEF Quiet
<1>3. AckSucceeds(result) \in BOOLEAN
  BY DEF AckSucceeds
<1>4. AckSucceeds(result) => transaction # "Read"
  BY WhatIsWaitedFor DEF AckSucceeds
<1>5. AckSucceeds(result) /\ transaction = "Write" => writing = mission
  BY WhatIsWaitedFor DEF AckSucceeds
<1> QED BY <1>1, <1>2, <1>3, <1>4, <1>5, FinishAgrees

LEMMA CountAgrees ==
  ASSUME IInv, Agreeing, InTime, StationReceive, expect = "Count" PROVE Agreeing'
<1> DEFINE m == [type |-> "Count", count |-> Len(mission)]
<1>1. toVehicle = <<>> /\ toStation = <<m>>
  BY DEF StationReceive, Agreeing, ReadFollows, Asked, Answered
<1>2. toStation' = <<>> /\ UNCHANGED mission /\ OnCount(Len(mission))
  BY <1>1, StationHears
<1>3. /\ items = <<>> /\ Len(items) = 0 /\ transaction = "Read"
      /\ Len(mission) \in Nat /\ DOMAIN mission = 1 .. Len(mission)
  BY WhatIsWaitedFor, LenProperties DEF IInv, CountComesFirst, TypeOK
<1>4. CASE Len(mission) = 0 /\ ToVehicle(TheEnd) /\ Finish(TRUE, items)
  <2>1. Quiet'
    BY <1>1, <1>2, <1>4, ShortSequences DEF ToVehicle, Carried, Quiet
  <2>2. items = Reading(mission)
    BY <1>3, <1>4 DEF Reading
  <2> QED BY <1>2, <1>3, <1>4, <2>1, <2>2, FinishAgrees DEF Nil
<1>5. CASE /\ Len(mission) > 0 /\ RequestNext(0 .. Len(mission) - 1)
           /\ UNCHANGED <<transaction, items>>
  <2>1. Lowest(0 .. Len(mission) - 1) = 0
    BY <1>3, <1>5, FirstOfRange
  <2>2. Asked([type |-> "RequestItem", seq |-> Len(items)])'
    <3>1. Len(items') = 0
      BY <1>3, <1>5
    <3> QED BY <1>1, <1>2, <1>5, <2>1, <3>1, Sent DEF RequestNext, Asked
  <2>3. ReadFollows'
    <3>1. items' = [i \in 1 .. Len(items') |-> AsRead(mission'[i])]
      BY <1>3, <1>5
    <3>2. toRead' = Len(items') .. Len(mission') - 1
      BY <1>2, <1>3, <1>5 DEF RequestNext
    <3> QED BY <1>5, <2>2, <3>1, <3>2 DEF RequestNext, Expecting, ReadFollows
  <2> QED BY <1>2, <1>3, <1>5, <2>3
       DEF RequestNext, Expecting, Agreeing, Ordered, WriteFollows, RestFollows,
           HeldIsTheVehicles, Nil
<1> QED BY <1>2, <1>3, <1>4, <1>5 DEF OnCount, TheEnd

LEMMA LastOfRange ==
  ASSUME NEW n \in Nat, NEW m \in Nat, n < m, n + 1 .. m - 1 = {}
  PROVE  m = n + 1
<1>1. ~(n + 1 <= m - 1)
  <2>1. n + 1 <= m - 1 => n + 1 \in n + 1 .. m - 1
    OBVIOUS
  <2> QED BY <2>1
<1> QED BY <1>1

LEMMA ItemAgrees ==
  ASSUME IInv, Agreeing, InTime, StationReceive, expect = "Item" PROVE Agreeing'
<1> DEFINE n == Len(items)
           item == mission[n + 1]
           m == [type |-> "Item", item |-> item]
<1>1. /\ toRead = n .. Len(mission) - 1 /\ toRead # {}
      /\ items = [i \in 1 .. n |-> AsRead(mission[i])]
      /\ toVehicle = <<>> /\ toStation = <<m>>
  BY DEF StationReceive, Agreeing, ReadFollows, Asked, Answered, IInv, ReadAccountsForEveryItem
<1>2. toStation' = <<>> /\ UNCHANGED mission /\ OnItem(item)
  <2> HIDE DEF item
  <2> QED BY <1>1, StationHears
<1>3. /\ n \in Nat /\ Len(mission) \in Nat /\ n < Len(mission)
      /\ DOMAIN mission = 1 .. Len(mission) /\ transaction = "Read"
  <2>1. n \in Nat /\ Len(mission) \in Nat /\ DOMAIN mission = 1 .. Len(mission)
    BY LenProperties DEF IInv, TypeOK
  <2> QED BY <1>1, <2>1, WhatIsWaitedFor
<1>4. item \in Item /\ item.seq = n /\ AsRead(item) \in Item
  <2>1. item \in Item
    BY <1>3, ElementOfSeq DEF IInv, TypeOK
  <2>2. item.seq = n
    BY <1>3 DEF Agreeing, Ordered
  <2> HIDE DEF item
  <2> QED BY <2>1, <2>2 DEF AsRead, Item
<1>5. Append(items, AsRead(item)) = [i \in 1 .. n + 1 |-> AsRead(mission[i])]
  <2> DEFINE more == Append(items, AsRead(item))
  <2>1. /\ more \in Seq(Item) /\ Len(more) = n + 1
        /\ \A i \in 1 .. n : more[i] = items[i] /\ more[n + 1] = AsRead(item)
        /\ more[n + 1] = AsRead(item)
    BY <1>4, AppendProperties DEF IInv, TypeOK
  <2>2. DOMAIN more = 1 .. n + 1 /\ more = [i \in 1 .. n + 1 |-> more[i]]
    BY <2>1, LenProperties
  <2> HIDE DEF more
  <2>3. \A i \in 1 .. n + 1 : more[i] = AsRead(mission[i])
    <3>1. \A i \in 1 .. n : more[i] = AsRead(mission[i])
      BY <1>1, <2>1
    <3> QED BY <1>3, <2>1, <3>1
  <2> QED BY <2>2, <2>3 DEF more
<1> HIDE DEF item
<1>6. Wanted(item)
  BY <1>1, <1>3, <1>4 DEF Wanted
<1>7. toRead \ {item.seq} = n + 1 .. Len(mission) - 1
  BY <1>1, <1>3, <1>4
<1>8. CASE /\ toRead \ {item.seq} = {} /\ ToVehicle(TheEnd)
           /\ Finish(TRUE, Append(items, AsRead(item)))
  <2>1. Quiet'
    BY <1>1, <1>2, <1>8, ShortSequences DEF ToVehicle, Carried, Quiet
  <2>2. Len(mission) = n + 1
    <3>1. n + 1 .. Len(mission) - 1 = {}
      BY <1>7, <1>8
    <3>2. n \in Nat /\ Len(mission) \in Nat /\ n < Len(mission)
      BY <1>3
    <3> QED BY <3>1, <3>2, LastOfRange
  <2>3. Append(items, AsRead(item)) = Reading(mission)
    BY <1>3, <1>5, <2>2 DEF Reading
  <2> QED BY <1>2, <1>3, <1>8, <2>1, <2>3, FinishAgrees DEF Nil
<1>9. CASE /\ toRead \ {item.seq} # {} /\ items' = Append(items, AsRead(item))
           /\ RequestNext(toRead \ {item.seq}) /\ UNCHANGED transaction
  <2>1. Len(items') = n + 1
    BY <1>4, <1>9, AppendProperties DEF IInv, TypeOK
  <2>2. Lowest(toRead \ {item.seq}) = n + 1
    <3>1. n + 1 .. Len(mission) - 1 # {}
      BY <1>7, <1>9
    <3> HIDE DEF n
    <3>2. n + 1 <= Len(mission) - 1 /\ n + 1 \in Nat /\ Len(mission) - 1 \in Nat
      BY <1>3, <3>1
    <3>3. Lowest(n + 1 .. Len(mission) - 1) = n + 1
      BY <3>2, FirstOfRange
    <3> QED BY <1>7, <3>3
  <2>3. Asked([type |-> "RequestItem", seq |-> Len(items)])'
    <3>1. ToVehicle([type |-> "RequestItem", seq |-> Len(items')])
      BY <1>9, <2>1, <2>2 DEF RequestNext
    <3>2. toVehicle' \in {<<>>, <<TheEnd>>, <<[type |-> "RequestItem", seq |-> Len(items')]>>,
                         <<TheEnd, [type |-> "RequestItem", seq |-> Len(items')]>>}
      BY <1>1, <3>1, Sent
    <3> QED BY <1>2, <3>2 DEF Asked
  <2>4. ReadFollows'
    <3>1. items' = [i \in 1 .. Len(items') |-> AsRead(mission'[i])]
      BY <1>2, <1>5, <1>9, <2>1
    <3>2. toRead' = Len(items') .. Len(mission') - 1
      BY <1>2, <1>7, <1>9, <2>1 DEF RequestNext
    <3> QED BY <1>9, <2>3, <3>1, <3>2 DEF RequestNext, Expecting, ReadFollows
  <2> QED BY <1>2, <1>3, <1>9, <2>4
       DEF RequestNext, Expecting, Agreeing, Ordered, WriteFollows, RestFollows,
           HeldIsTheVehicles, Nil
<1> QED BY <1>2, <1>6, <1>8, <1>9 DEF OnItem, TheEnd

LEMMA RequestAgrees ==
  ASSUME IInv, Agreeing, InTime, StationReceive, expect = "Request" PROVE Agreeing'
<1>1. PICK k \in 0 .. Len(writing) : ServedUpTo(k)
  BY DEF Agreeing, WriteFollows
<1>2. toStation # <<>>
  BY DEF StationReceive
<1>3. /\ Len(writing) \in Nat /\ DOMAIN writing = 1 .. Len(writing)
      /\ transaction = "Write" /\ toWrite = k .. Len(writing) - 1
  BY <1>1, WhatIsWaitedFor, LenProperties DEF IInv, TypeOK, ServedUpTo
<1>4. CASE Answered([type |-> "Ack", result |-> "Rejected"])
  <2>1. toVehicle = <<>> /\ toStation' = <<>> /\ UNCHANGED mission /\ OnAck("Rejected")
    BY <1>4, StationHears DEF Answered
  <2> QED BY <2>1, AckAgrees DEF Nil
<1>5. CASE Accepted /\ mission = writing
  <2>1. toVehicle = <<>> /\ toStation' = <<>> /\ UNCHANGED mission /\ OnAck("Accepted")
    BY <1>5, StationHears DEF Accepted, Answered
  <2> QED BY <1>5, <2>1, AckAgrees DEF Nil
<1>6. CASE /\ k < Len(writing) /\ Answered([type |-> "Request", seq |-> k])
           /\ upload = [count |-> Len(writing), items |-> SubSeq(writing, 1, k)]
  <2>1. toVehicle = <<>> /\ toStation' = <<>> /\ UNCHANGED <<mission, upload>> /\ OnRequest(k)
    BY <1>6, StationHears DEF Answered
  <2>2. /\ toWrite' = toWrite \ {k} /\ UNCHANGED <<transaction, writing>> /\ expect' = "Request"
        /\ ToVehicle([type |-> "Item", item |-> writing[k + 1]])
    <3>1. ~(k >= Len(writing))
      BY <1>3, <1>6
    <3> QED BY <2>1, <3>1 DEF OnRequest, Expecting, Ignored
  <2>3. toWrite' = k + 1 .. Len(writing') - 1
    BY <1>1, <1>3, <1>6, <2>2
  <2>4. k + 1 \in 0 .. Len(writing') /\ k + 1 > 0 /\ (k + 1) - 1 = k
    BY <1>1, <1>3, <1>6, <2>2
  <2>5. toVehicle' \in {<<>>, <<[type |-> "Item", item |-> writing'[k + 1]]>>}
    BY <2>1, <2>2, ShortSequences DEF ToVehicle, Carried
  <2>6. upload' = [count |-> Len(writing'), items |-> SubSeq(writing', 1, (k + 1) - 1)]
    BY <1>6, <2>1, <2>2, <2>4
  <2>7. ServedUpTo(k + 1)'
    BY <2>1, <2>3, <2>4, <2>5, <2>6 DEF ServedUpTo, Quiet
  <2>8. Ordered(writing)'
    BY <2>2 DEF Agreeing, WriteFollows, Ordered
  <2> QED BY <1>3, <2>1, <2>2, <2>4, <2>7, <2>8
       DEF Agreeing, Ordered, ReadFollows, WriteFollows, RestFollows, HeldIsTheVehicles, Nil
<1> QED BY <1>1, <1>2, <1>4, <1>5, <1>6 DEF ServedUpTo, Quiet, Asked

LEMMA StationReceiveAgrees ==
  ASSUME IInv, Agreeing, InTime, StationReceive PROVE Agreeing'
<1>1. toStation # <<>>
  BY DEF StationReceive
<1>2. expect # Nil
  BY <1>1 DEF Agreeing, RestFollows, Quiet
<1>3. CASE expect \in {"ClearAck", "GuidedItem"}
  <2>1. Accepted
    BY <1>1, <1>3 DEF Agreeing, RestFollows, Asked
  <2>2. toVehicle = <<>> /\ toStation' = <<>> /\ UNCHANGED mission /\ OnAck("Accepted")
    BY <2>1, StationHears DEF Accepted, Answered
  <2>3. transaction # "Write"
    BY <1>3, WhatIsWaitedFor
  <2> QED BY <1>2, <2>2, <2>3, AckAgrees
<1> QED BY <1>2, <1>3, CountAgrees, ItemAgrees, RequestAgrees DEF IInv, TypeOK, Expects

\* The vehicle takes the ack of the last read, or the one message behind it.
LEMMA VehicleHears ==
  ASSUME InTime, VehicleReceive, NEW m, Asked(m)
  PROVE  /\ UNCHANGED slot
         /\ \/ /\ toVehicle' \in {<<>>, <<m>>}
               /\ UNCHANGED <<toStation, mission, upload>>
            \/ /\ toVehicle = <<m>> /\ Head(toVehicle) = m
               /\ toVehicle' = <<>> /\ toStation = <<>>
<1>1. UNCHANGED slot /\ toVehicle # <<>> /\ toVehicle' = Tail(toVehicle)
  BY DEF VehicleReceive, InTime, Delivered
<1>2. CASE toVehicle \in {<<TheEnd>>, <<TheEnd, m>>}
  <2>1. Head(toVehicle) = TheEnd /\ Tail(toVehicle) \in {<<>>, <<m>>}
    <3>1. /\ Head(<<TheEnd>>) = TheEnd /\ Tail(<<TheEnd>>) = <<>>
          /\ Head(<<TheEnd, m>>) = TheEnd /\ Tail(<<TheEnd, m>>) = <<m>>
      BY ShortSequences, Zenon
    <3> QED BY <1>2, <3>1
  <2>2. Silent
    BY <2>1 DEF VehicleReceive, TheEnd
  <2> QED BY <1>1, <2>1, <2>2 DEF Silent, protocol
<1>3. CASE toVehicle = <<m>>
  BY <1>1, <1>3, ShortSequences DEF Asked
<1> QED BY <1>1, <1>2, <1>3 DEF Asked

\* The vehicle's step leaves the rest of the invariant alone while an answer is waited for.
LEMMA VehicleLeaves ==
  ASSUME IInv, Agreeing, VehicleReceive, expect # Nil
  PROVE  HeldIsTheVehicles' /\ UNCHANGED <<expect, transaction, writing, toWrite, items, toRead>>
BY WhatIsWaitedFor DEF VehicleReceive, slot, HeldIsTheVehicles

LEMMA RestAgrees ==
  ASSUME IInv, Agreeing, InTime, VehicleReceive, expect = Nil PROVE Agreeing'
<1>1. Quiet /\ toStation = <<>>
  BY DEF Agreeing, RestFollows, Quiet
<1>2. toVehicle # <<>> /\ Asked(TheEnd) /\ toVehicle = <<TheEnd>>
  BY <1>1 DEF Quiet, Asked, VehicleReceive
<1>3. Head(toVehicle) = TheEnd /\ toVehicle' = <<>>
  BY <1>2, ShortSequences DEF VehicleReceive, InTime, Delivered
<1>4. UNCHANGED <<slot, mission, upload, toStation>>
  <2>1. Silent
    BY <1>3 DEF VehicleReceive, TheEnd
  <2> QED BY <2>1 DEF VehicleReceive, Silent, protocol
<1>5. Quiet'
  BY <1>1, <1>3, <1>4 DEF Quiet
<1> QED BY <1>4, <1>5
     DEF slot, Agreeing, Ordered, ReadFollows, WriteFollows, RestFollows,
         HeldIsTheVehicles, Reading, Nil

LEMMA ListAgrees ==
  ASSUME IInv, Agreeing, InTime, VehicleReceive, expect = "Count" PROVE Agreeing'
<1> DEFINE m == [type |-> "RequestList"]
<1>1. Asked(m) /\ toVehicle # <<>>
  BY DEF Agreeing, ReadFollows, Answered, VehicleReceive
<1>2. CASE toVehicle' \in {<<>>, <<m>>} /\ UNCHANGED <<toStation, mission>>
  BY <1>1, <1>2, VehicleLeaves
     DEF Agreeing, Ordered, ReadFollows, WriteFollows, RestFollows, Asked, Nil
<1>3. CASE Head(toVehicle) = m /\ toVehicle' = <<>> /\ toStation = <<>>
  <2>1. Reply([type |-> "Count", count |-> Len(mission)]) /\ UNCHANGED mission
    BY <1>3 DEF VehicleReceive, protocol
  <2>2. toStation' \in {<<>>, <<[type |-> "Count", count |-> Len(mission')]>>}
    BY <1>3, <2>1, Replied
  <2>3. Asked(m)' \/ Answered([type |-> "Count", count |-> Len(mission)])'
    BY <1>3, <2>2 DEF Asked, Answered
  <2> QED BY <2>1, <2>3, VehicleLeaves
       DEF Agreeing, Ordered, ReadFollows, WriteFollows, RestFollows, Nil
<1> QED BY <1>1, <1>2, <1>3, VehicleHears

LEMMA ItemOfAgrees ==
  ASSUME IInv, Agreeing, InTime, VehicleReceive, expect = "Item" PROVE Agreeing'
<1> DEFINE n == Len(items)
           m == [type |-> "RequestItem", seq |-> n]
<1>1. /\ Asked(m) /\ toVehicle # <<>>
      /\ toRead = n .. Len(mission) - 1 /\ toRead # {}
      /\ items = [i \in 1 .. n |-> AsRead(mission[i])]
  BY DEF Agreeing, ReadFollows, Answered, VehicleReceive, IInv, ReadAccountsForEveryItem
<1>2. UNCHANGED <<expect, transaction, writing, toWrite, items, toRead>> /\ HeldIsTheVehicles'
  BY VehicleLeaves DEF Nil
<1>3. SUFFICES /\ UNCHANGED mission
               /\ Asked(m)' \/ Answered([type |-> "Item", item |-> mission[n + 1]])'
  <2>1. ReadFollows'
    BY <1>1, <1>2, <1>3 DEF ReadFollows
  <2> QED BY <1>2, <1>3, <2>1 DEF Agreeing, Ordered, WriteFollows, RestFollows, Nil
<1>4. CASE toVehicle' \in {<<>>, <<m>>} /\ UNCHANGED <<toStation, mission>>
  BY <1>1, <1>2, <1>4 DEF Asked
<1>5. CASE Head(toVehicle) = m /\ toVehicle' = <<>> /\ toStation = <<>>
  <2>1. n \in Nat /\ Len(mission) \in Nat /\ n < Len(mission)
    <3>1. n \in Nat /\ Len(mission) \in Nat
      BY LenProperties DEF IInv, TypeOK
    <3> QED BY <1>1, <3>1
  <2>2. Reply([type |-> "Item", item |-> mission[n + 1]]) /\ UNCHANGED mission
    <3>1. OnRequestItem(n)
      BY <1>5 DEF VehicleReceive
    <3>2. ~(n >= Len(mission))
      BY <2>1
    <3> QED BY <3>1, <3>2 DEF OnRequestItem, protocol
  <2>3. toStation' \in {<<>>, <<[type |-> "Item", item |-> mission[n + 1]]>>}
    BY <1>5, <2>2, Replied
  <2>4. n' = n
    BY <1>2
  <2> QED BY <1>5, <2>2, <2>3, <2>4 DEF Asked, Answered
<1> QED BY <1>1, <1>4, <1>5, VehicleHears

\* What is simply acknowledged.
LEMMA AskedForAckAgrees ==
  ASSUME IInv, Agreeing, InTime, VehicleReceive, expect \in {"ClearAck", "GuidedItem"}
  PROVE  Agreeing'
<1> DEFINE m == [type |-> IF expect = "ClearAck" THEN "ClearAll" ELSE "GuidedItem"]
<1>1. Asked(m)
  BY DEF Agreeing, RestFollows, Accepted, Answered, VehicleReceive
<1>2. UNCHANGED <<expect, transaction, writing, toWrite, items, toRead>> /\ HeldIsTheVehicles'
  BY VehicleLeaves DEF Nil
<1>3. SUFFICES Ordered(mission)' /\ (Asked(m)' \/ Accepted')
  BY <1>2, <1>3 DEF Agreeing, ReadFollows, WriteFollows, RestFollows, Nil
<1>4. CASE toVehicle' \in {<<>>, <<m>>} /\ UNCHANGED <<toStation, mission>>
  BY <1>1, <1>2, <1>4 DEF Asked, Agreeing, Ordered
<1>5. CASE Head(toVehicle) = m /\ toVehicle' = <<>> /\ toStation = <<>>
  <2>1. Acknowledge("Accepted") /\ mission' \in {<<>>, mission}
    BY <1>5 DEF VehicleReceive, protocol
  <2>2. toStation' \in {<<>>, <<[type |-> "Ack", result |-> "Accepted"]>>}
    BY <1>5, <2>1, Replied DEF Acknowledge
  <2>3. Ordered(mission)'
    BY <2>1 DEF Agreeing, Ordered
  <2> QED BY <1>5, <2>2, <2>3 DEF Asked, Accepted, Answered
<1> QED BY <1>1, <1>4, <1>5, VehicleHears

\* The vehicle takes the count of a plan, or one of its items.
LEMMA UploadAgrees ==
  ASSUME IInv, Agreeing, InTime, VehicleReceive, expect = "Request" PROVE Agreeing'
<1>1. PICK k \in 0 .. Len(writing) : ServedUpTo(k)
  BY DEF Agreeing, WriteFollows
<1>2. UNCHANGED <<expect, transaction, writing, toWrite, items, toRead>> /\ HeldIsTheVehicles'
  BY VehicleLeaves DEF Nil
<1>3. /\ writing \in Seq(Item) /\ Len(writing) \in Nat /\ DOMAIN writing = 1 .. Len(writing)
      /\ Ordered(writing)
  BY LenProperties DEF IInv, TypeOK, Agreeing, WriteFollows
<1>4. /\ SubSeq(writing, 1, 0) = <<>>
      /\ \A i \in 1 .. Len(writing) :
           /\ Len(SubSeq(writing, 1, i - 1)) = i - 1
           /\ Append(SubSeq(writing, 1, i - 1), writing[i]) = SubSeq(writing, 1, i)
      /\ SubSeq(writing, 1, Len(writing)) = writing
  BY <1>3, Prefixes
<1>5. SUFFICES Ordered(mission)' /\ ServedUpTo(k)'
  <2>1. WriteFollows'
    BY <1>2, <1>3, <1>5 DEF WriteFollows, Ordered
  <2> QED BY <1>2, <1>5, <2>1 DEF Agreeing, ReadFollows, RestFollows, Nil
<1>6. toWrite = k .. Len(writing) - 1 /\ Ordered(mission)
  BY <1>1 DEF ServedUpTo, Agreeing
<1>7. CASE Quiet
  <2>1. Asked(TheEnd) /\ toVehicle = <<TheEnd>>
    BY <1>7 DEF Quiet, Asked, VehicleReceive
  <2>2. Head(toVehicle) = TheEnd /\ toVehicle' = <<>>
    BY <2>1, ShortSequences DEF VehicleReceive, InTime, Delivered
  <2>3. Silent
    BY <2>2 DEF VehicleReceive, TheEnd
  <2> QED BY <1>2, <1>6, <1>7, <2>2, <2>3 DEF Silent, protocol, Quiet, ServedUpTo, Ordered
<1>8. CASE k = 0 /\ Asked([type |-> "Count", count |-> Len(writing)])
  <2> DEFINE m == [type |-> "Count", count |-> Len(writing)]
  <2>1. CASE toVehicle' \in {<<>>, <<m>>} /\ UNCHANGED <<toStation, mission>>
    BY <1>2, <1>6, <1>8, <2>1 DEF Asked, ServedUpTo, Ordered
  <2>2. CASE Head(toVehicle) = m /\ toVehicle' = <<>> /\ toStation = <<>>
    <3>1. OnUploadCount(Len(writing))
      BY <2>2 DEF VehicleReceive
    <3>2. CASE Len(writing) = 0 /\ mission' = <<>> /\ Acknowledge("Accepted")
      <4>1. toStation' \in {<<>>, <<[type |-> "Ack", result |-> "Accepted"]>>}
        BY <2>2, <3>2, Replied DEF Acknowledge
      <4>2. writing = <<>>
        BY <1>4, <3>2
      <4> QED BY <1>2, <1>6, <1>8, <2>2, <3>2, <4>1, <4>2
           DEF Ordered, ServedUpTo, Quiet, Accepted, Answered
    <3>3. CASE /\ Len(writing) > 0
               /\ upload' = [count |-> Len(writing), items |-> <<>>]
               /\ Reply([type |-> "Request", seq |-> 0]) /\ UNCHANGED mission
      <4>1. toStation' \in {<<>>, <<[type |-> "Request", seq |-> 0]>>}
        BY <2>2, <3>3, Replied
      <4>2. upload' = [count |-> Len(writing'), items |-> SubSeq(writing', 1, 0)]
        BY <1>2, <1>4, <3>3
      <4> QED BY <1>2, <1>6, <1>8, <2>2, <3>3, <4>1, <4>2
           DEF Ordered, ServedUpTo, Quiet, Answered
    <3>4. CASE Acknowledge("Rejected") /\ UNCHANGED protocol
      <4>1. toStation' \in {<<>>, <<[type |-> "Ack", result |-> "Rejected"]>>}
        BY <2>2, <3>4, Replied DEF Acknowledge
      <4> QED BY <1>2, <1>6, <1>8, <2>2, <3>4, <4>1
           DEF Ordered, ServedUpTo, Quiet, Answered, protocol
    <3> QED BY <3>1, <3>2, <3>3, <3>4 DEF OnUploadCount
  <2> QED BY <1>8, <2>1, <2>2, VehicleHears
<1>9. CASE /\ k > 0 /\ toStation = <<>>
           /\ toVehicle = <<[type |-> "Item", item |-> writing[k]]>>
           /\ upload = [count |-> Len(writing), items |-> SubSeq(writing, 1, k - 1)]
  <2> DEFINE item == writing[k]
             m == [type |-> "Item", item |-> item]
  <2>1. toVehicle' = <<>> /\ OnUploadItem(item)
    <3>1. m.type = "Item" /\ m.item = item
      OBVIOUS
    <3>2. toVehicle = <<m>>
      BY <1>9
    <3> HIDE DEF m, item
    <3>3. Head(toVehicle) = m /\ Tail(toVehicle) = <<>>
      BY <3>2, ShortSequences
    <3> QED BY <3>1, <3>3 DEF VehicleReceive, InTime, Delivered
  <2>2. /\ k \in 1 .. Len(writing) /\ upload.count = Len(writing) /\ upload.count > 0
        /\ item.seq = k - 1 /\ Len(upload.items) = k - 1
        /\ Append(upload.items, item) = SubSeq(writing, 1, k)
    BY <1>1, <1>3, <1>4, <1>9 DEF Ordered
  <2>3. Len(SubSeq(writing, 1, k)) = k
    <3>1. CASE k = Len(writing)
      BY <1>4, <3>1
    <3>2. CASE k < Len(writing)
      <4>1. k + 1 \in 1 .. Len(writing) /\ (k + 1) - 1 = k
        BY <1>3, <2>2, <3>2
      <4> QED BY <1>4, <4>1
    <3> QED BY <1>3, <2>2, <3>1, <3>2
  <2> HIDE DEF item
  <2>4. CASE /\ k < Len(writing) /\ upload' = [upload EXCEPT !.items = SubSeq(writing, 1, k)]
             /\ Reply([type |-> "Request", seq |-> k]) /\ UNCHANGED mission
    <3>1. toStation' \in {<<>>, <<[type |-> "Request", seq |-> k]>>}
      BY <1>9, <2>4, Replied
    <3>2. upload' = [count |-> Len(writing'), items |-> SubSeq(writing', 1, k)]
      BY <1>2, <1>9, <2>4
    <3> QED BY <1>2, <1>6, <2>1, <2>4, <3>1, <3>2 DEF Ordered, ServedUpTo, Quiet, Answered
  <2>5. CASE k = Len(writing) /\ mission' = SubSeq(writing, 1, k) /\ Acknowledge("Accepted")
    <3>1. toStation' \in {<<>>, <<[type |-> "Ack", result |-> "Accepted"]>>}
      BY <1>9, <2>5, Replied DEF Acknowledge
    <3>2. mission' = writing
      BY <1>4, <2>5
    <3> QED BY <1>2, <1>3, <1>6, <2>1, <2>5, <3>1, <3>2
         DEF Ordered, ServedUpTo, Quiet, Accepted, Answered
  <2>6. k < Len(writing) \/ k = Len(writing)
    <3>1. k \in 1 .. Len(writing) /\ Len(writing) \in Nat
      BY <1>3, <2>2
    <3> QED BY <3>1
  <2>7. ~(upload.count = 0 \/ item.seq # Len(upload.items))
    BY <1>3, <2>2
  <2>8. ~(k < Len(writing)) \/ ~(k >= Len(writing))
    BY <1>3, <2>2
  <2> QED BY <2>1, <2>2, <2>3, <2>4, <2>5, <2>6, <2>7, <2>8 DEF OnUploadItem
<1> QED BY <1>1, <1>7, <1>8, <1>9
     DEF ServedUpTo, Answered, Accepted, VehicleReceive

LEMMA NextAgrees == InTime /\ IInv /\ Agreeing /\ [Next]_vars => Agreeing'
<1> SUFFICES ASSUME InTime, IInv, Agreeing, [Next]_vars PROVE Agreeing'
  OBVIOUS
<1>1. CASE VehicleReceive
  <2>1. expect \in Expects
    BY DEF IInv, TypeOK
  <2> QED BY <1>1, <2>1, RestAgrees, ListAgrees, ItemOfAgrees, AskedForAckAgrees, UploadAgrees
       DEF Expects
<1>2. CASE UNCHANGED vars
  <2>1. /\ Ordered(mission)' /\ ReadFollows' /\ RestFollows' /\ HeldIsTheVehicles'
    BY <1>2 DEF vars, slot, protocol, network, Agreeing, Ordered, ReadFollows, RestFollows,
                HeldIsTheVehicles, Reading, Asked, Answered, Accepted, Quiet
  <2>2. \A k : ServedUpTo(k) => ServedUpTo(k)'
    BY <1>2 DEF vars, slot, protocol, network, ServedUpTo, Asked, Answered, Accepted, Quiet
  <2>3. WriteFollows'
    BY <1>2, <2>2 DEF vars, slot, Agreeing, WriteFollows, Ordered
  <2> QED BY <2>1, <2>3 DEF Agreeing
<1> QED BY <1>1, <1>2, OperatorAgrees, TimeoutAgrees, StationReceiveAgrees DEF Next

\* In time, what is in flight is in the order of the transfer it belongs to, and what
\* station and vehicle hold of it agrees item by item (load, write, the handlers and
\* on_timeout; mission_count, mission_item and mission_request of the vehicle).
THEOREM TransfersFollow == InTime => (Spec => [](IInv /\ Agreeing))
<1> SUFFICES ASSUME InTime PROVE Spec => [](IInv /\ Agreeing)
  OBVIOUS
<1>1. Init => IInv /\ Agreeing
  BY InitInv, InitAgrees
<1>2. IInv /\ Agreeing /\ [Next]_vars => (IInv /\ Agreeing)'
  BY NextInv, NextAgrees
<1> QED BY <1>1, <1>2, PTL DEF Spec

LEMMA AgreedIsStored == Agreeing => WrittenPlanIsStored
  BY DEF Agreeing, HeldIsTheVehicles, WrittenPlanIsStored

LEMMA AgreedIsKnown == IInv /\ Agreeing /\ ~SkipFirst => KnownPlanIsTheVehicles
<1> SUFFICES ASSUME IInv, Agreeing, ~SkipFirst PROVE KnownPlanIsTheVehicles
  OBVIOUS
<1>1. Reading(mission) = mission
  BY LenProperties DEF Reading, AsRead, IInv, TypeOK
<1> QED BY <1>1 DEF Agreeing, HeldIsTheVehicles, KnownPlanIsTheVehicles, Reading

\* The vehicle stored what a successful write sent, home dropped and jumps moved, for
\* every plan: while nothing arrives after a timer, and nothing twice, each answer is
\* the answer to what was sent last (write, on_request, on_ack).
THEOREM WrittenPlansAreStored == InTime => (Spec => []WrittenPlanIsStored)
<1> SUFFICES ASSUME InTime PROVE Spec => []WrittenPlanIsStored
  OBVIOUS
<1> QED BY AgreedIsStored, TransfersFollow, PTL

\* The plan known after a read or a write is the one a read of the vehicle would give,
\* for every plan, where jumps are numbered alike in both directions: for ArduPilot, and
\* for fences and rally points (on_count, on_item, finish).
THEOREM KnownPlansAgree == InTime /\ ~SkipFirst => (Spec => []KnownPlanIsTheVehicles)
<1> SUFFICES ASSUME InTime, ~SkipFirst PROVE Spec => []KnownPlanIsTheVehicles
  OBVIOUS
<1> QED BY AgreedIsKnown, TransfersFollow, PTL
=============================================================================
