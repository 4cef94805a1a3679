---------------------------- MODULE PlanTransfer ----------------------------
(***************************************************************************)
(* The plan transfer of the flight core: one Transfer (plantransfer.rs) of *)
(* one plan type (mission, fence or rally), the slot of the hub that holds *)
(* its timer and its last error, and the vehicle it talks to (the mission  *)
(* protocol of mocklink.rs).  Messages cross two FIFO channels that may    *)
(* delay them (past the timers unless Prompt), lose them (Lossy) or        *)
(* deliver the one at the head again (Duplicates: a vehicle heard over two *)
(* links).                                                                 *)
(*                                                                         *)
(* An item keeps its sequence number, whether it is a DO_JUMP, and one     *)
(* argument: the sequence a jump targets, or a number that stands for all  *)
(* of the content of any other item.                                       *)
(***************************************************************************)
EXTENDS Integers, Sequences

CONSTANTS
  Apm,        \* the vehicle runs ArduPilot
  Mission,    \* the plan type is PLAN_MISSION
  Plans,      \* what the operator may write: sequences of [jump, arg]
  MaxCount,   \* u16::MAX, the largest MISSION_COUNT
  MaxRetry,   \* MAX_RETRY
  Lossy,      \* the network may lose messages
  Duplicates, \* the network may deliver a message twice
  Prompt,     \* whatever arrives at all arrives before the timer fires
  Capacity    \* bound of the model: messages in flight per direction

PlanItem == [jump : BOOLEAN, arg : Int]

ASSUME FlagsAssumption ==
  /\ Apm \in BOOLEAN /\ Mission \in BOOLEAN /\ Prompt \in BOOLEAN
  /\ Lossy \in BOOLEAN /\ Duplicates \in BOOLEAN
ASSUME BoundsAssumption == MaxCount \in Nat /\ MaxRetry \in Nat /\ Capacity \in Nat
ASSUME PlansAssumption == Plans \subseteq Seq(PlanItem)

VARIABLES
  transaction, \* Transfer.transaction
  expect,      \* Transfer.expect: the answer waited for
  due,         \* PlanSlot.due is set: the timer runs
  retries,     \* Transfer.retries
  toRead,      \* Transfer.to_read
  toWrite,     \* Transfer.to_write
  writing,     \* Transfer.writing: the plan being written
  items,       \* Transfer.items: the plan the station holds
  finished,    \* Transfer.finished: the last transaction that ended
  failed,      \* PlanSlot.error is set
  home,        \* Vehicle.home, <<>> while unknown
  mission,     \* MockLink.missions of this plan type
  upload,      \* MockLink.upload, count 0 for none
  toVehicle,   \* in flight to the vehicle
  toStation    \* in flight to the station

slot == <<transaction, expect, due, retries, toRead, toWrite, writing,
             items, finished, failed, home>>
protocol == <<mission, upload>>
network == <<toVehicle, toStation>>
vars == <<slot, protocol, network>>

Nil == "None"
Seqs == 0 .. MaxCount - 1
Item == [seq : Seqs, jump : BOOLEAN, arg : Int]
Transactions == {Nil, "Read", "Write", "RemoveAll", "GuidedItem"}
Expects == {Nil, "Count", "Item", "Request", "ClearAck", "GuidedItem"}
Results == {"Accepted", "InvalidSequence", "Rejected"}
NoUpload == [count |-> 0, items |-> <<>>]

\* Transfer::new: ArduPilot keeps home in item 0 of a mission, the others do not.
SkipFirst == Mission /\ ~Apm

\* What a read makes of an item (the DO_JUMP arm of on_item).
AsRead(item) ==
  IF SkipFirst /\ item.jump THEN [item EXCEPT !.arg = @ + 1] ELSE item

\* What write makes of the operator's plan: home dropped, renumbered, jumps moved down.
Numbered(plan) ==
  LET listed == IF SkipFirst /\ plan # <<>> THEN Tail(plan) ELSE plan IN
  [i \in 1 .. Len(listed) |->
     [seq |-> i - 1, jump |-> listed[i].jump,
      arg |-> IF SkipFirst /\ listed[i].jump THEN listed[i].arg - 1 ELSE listed[i].arg]]

Lowest(set) == CHOOSE n \in set : \A m \in set : n <= m

-----------------------------------------------------------------------------
(* The network.                                                            *)

\* A channel after a message was sent on it.
Carried(channel, message) ==
  (IF Lossy THEN {channel} ELSE {}) \cup
  (IF Len(channel) < Capacity THEN {Append(channel, message)} ELSE {})

\* A channel after its head was delivered.
Delivered(channel) == {Tail(channel)} \cup (IF Duplicates THEN {channel} ELSE {})

ToVehicle(message) == toVehicle' \in Carried(toVehicle, message)

-----------------------------------------------------------------------------
(* The station.                                                            *)

StationInit ==
  /\ transaction = Nil /\ expect = Nil /\ due = FALSE /\ retries = 0
  /\ toRead = {} /\ toWrite = {} /\ writing = <<>> /\ items = <<>>
  /\ finished = Nil /\ failed = FALSE /\ home = <<>>

\* Out::StartTimer with what is waited for.
Expecting(answer) == expect' = answer /\ due' = TRUE

\* The plan held once the transaction has ended.
HeldKeepingPartial(success, held) == \* fault: a failed read keeps what it got
  IF transaction = "Write" /\ success THEN writing ELSE held
HeldAfter(success, held) ==
  CASE transaction = "Read" /\ ~success -> <<>>
    [] transaction = "Write" /\ success -> writing
    [] OTHER -> held

\* Transfer::finish, and Out::Done in follow_plan; held is Transfer.items before it.
Finish(success, held) ==
  /\ toRead' = {} /\ toWrite' = {} /\ writing' = <<>>
  /\ expect' = Nil /\ due' = FALSE
  /\ transaction' = Nil /\ finished' = transaction
  /\ items' = HeldAfter(success, held)
  /\ failed' = IF transaction = "GuidedItem" THEN failed ELSE ~success
  /\ UNCHANGED home

RequestList ==
  /\ toRead' = {} /\ items' = <<>>
  /\ ToVehicle([type |-> "RequestList"])
  /\ Expecting("Count")

\* request_next, left being what is still to be read.
RequestNext(left) ==
  /\ toRead' = left
  /\ ToVehicle([type |-> "RequestItem", seq |-> Lowest(left)])
  /\ Expecting("Item")

WriteCount(count) ==
  /\ ToVehicle([type |-> "Count", count |-> count])
  /\ Expecting("Request")

ClearAll == ToVehicle([type |-> "ClearAll"]) /\ Expecting("ClearAck")

Load ==
  /\ transaction = Nil
  /\ transaction' = "Read" /\ retries' = 0
  /\ RequestList
  /\ UNCHANGED <<toWrite, writing, finished, failed, home, protocol, toStation>>

RemoveAll ==
  /\ transaction = Nil
  /\ transaction' = "RemoveAll" /\ retries' = 0 /\ items' = <<>>
  /\ ClearAll
  /\ UNCHANGED <<toRead, toWrite, writing, finished, failed, home, protocol, toStation>>

Write(plan) ==
  /\ transaction = Nil
  /\ Len(Numbered(plan)) <= MaxCount
  /\ transaction' = "Write" /\ retries' = 0
  /\ writing' = Numbered(plan)
  /\ toWrite' = {i - 1 : i \in DOMAIN Numbered(plan)}
  /\ WriteCount(Len(Numbered(plan)))
  /\ UNCHANGED <<toRead, items, finished, failed, home, protocol, toStation>>

\* A plan longer than a count can say: Done without a transaction, so follow_plan
\* still judges it by what finished before it.
WriteTooLong(plan) ==
  /\ transaction = Nil
  /\ Len(Numbered(plan)) > MaxCount
  /\ due' = FALSE
  /\ failed' = IF finished = "GuidedItem" THEN failed ELSE TRUE
  /\ UNCHANGED <<transaction, expect, retries, toRead, toWrite, writing, items,
                 finished, home, protocol, network>>

\* Emit::GuidedMissionItem: ArduPilot's goto takes the mission slot until its ack.
GuidedItem ==
  /\ Apm /\ Mission
  /\ transaction = Nil
  /\ transaction' = "GuidedItem"
  /\ Expecting("GuidedItem")
  /\ ToVehicle([type |-> "GuidedItem"])
  /\ UNCHANGED <<retries, toRead, toWrite, writing, items, finished, failed, home,
                 protocol, toStation>>

MayRetryOnceMore == retries <= MaxRetry + 1 \* fault: off by one
MayRetry == retries <= MaxRetry

UncountedRetry == UNCHANGED retries \* fault: the retry is not counted
CountedRetry == retries' = retries + 1

\* on_timeout: what is asked again while retries last.
AskAgain ==
  /\ MayRetry
  /\ CountedRetry
  /\ \/ expect = "Count" /\ RequestList
     \/ expect = "Item" /\ RequestNext(toRead) /\ UNCHANGED items
     \/ /\ expect = "Request" /\ 0 \in toWrite
        /\ WriteCount(Len(writing)) /\ UNCHANGED <<toRead, items>>
     \/ expect = "ClearAck" /\ ClearAll /\ UNCHANGED <<toRead, items>>
  /\ UNCHANGED <<transaction, toWrite, writing, finished, failed, home>>

\* fault: a write whose items were all served counts as done without its ack
GivesUpTrusting ==
  /\ \/ expect \in {"Count", "Item", "ClearAck"} /\ ~MayRetry
     \/ expect = "Request" /\ (0 \notin toWrite \/ ~MayRetry)
     \/ expect = "GuidedItem"
  /\ Finish(expect = "Request" /\ toWrite = {}, items)
  /\ UNCHANGED <<retries, toVehicle>>

\* on_timeout: when it gives up instead.
GivesUp ==
  /\ \/ expect \in {"Count", "Item", "ClearAck"} /\ ~MayRetry
     \/ expect = "Request" /\ (0 \notin toWrite \/ ~MayRetry)
     \/ expect = "GuidedItem"
  /\ Finish(FALSE, items)
  /\ UNCHANGED <<retries, toVehicle>>

\* The pump finds the timer due, clears it and calls on_timeout.
Timeout ==
  /\ due
  /\ Prompt => toVehicle = <<>> /\ toStation = <<>>
  /\ AskAgain \/ GivesUp
  /\ UNCHANGED <<protocol, toStation>>

Ignored == UNCHANGED <<slot, toVehicle>>

OnCount(count) ==
  \/ expect # "Count" /\ Ignored
  \/ /\ expect = "Count" /\ count = 0
     /\ retries' = 0
     /\ ToVehicle([type |-> "Ack"])
     /\ Finish(TRUE, items)
  \/ /\ expect = "Count" /\ count > 0
     /\ retries' = 0
     /\ RequestNext(0 .. count - 1)
     /\ UNCHANGED <<transaction, toWrite, writing, items, finished, failed, home>>

WantedAgain(item) == TRUE \* fault: an item may come twice
Wanted(item) == item.seq \in toRead

OnItem(item) ==
  \/ /\ expect # "Item"
     /\ home' = IF transaction # Nil /\ Apm /\ Mission /\ item.seq = 0
                THEN <<item.arg>> ELSE home
     /\ UNCHANGED <<transaction, expect, due, retries, toRead, toWrite, writing,
                    items, finished, failed, toVehicle>>
  \/ /\ expect = "Item" /\ ~Wanted(item)
     /\ Expecting("Item")
     /\ UNCHANGED <<transaction, retries, toRead, toWrite, writing, items, finished,
                    failed, home, toVehicle>>
  \/ /\ expect = "Item" /\ Wanted(item) /\ toRead \ {item.seq} = {}
     /\ retries' = 0
     /\ ToVehicle([type |-> "Ack"])
     /\ Finish(TRUE, Append(items, AsRead(item)))
  \/ /\ expect = "Item" /\ Wanted(item) /\ toRead \ {item.seq} # {}
     /\ retries' = 0
     /\ items' = Append(items, AsRead(item))
     /\ RequestNext(toRead \ {item.seq})
     /\ UNCHANGED <<transaction, toWrite, writing, finished, failed, home>>

OnRequest(seq) ==
  \/ expect # "Request" /\ Ignored
  \/ /\ expect = "Request" /\ seq >= Len(writing)
     /\ Finish(FALSE, items)
     /\ UNCHANGED <<retries, toVehicle>>
  \/ /\ expect = "Request" /\ seq < Len(writing)
     /\ toWrite' = toWrite \ {seq}
     /\ ToVehicle([type |-> "Item", item |-> writing[seq + 1]])
     /\ Expecting("Request")
     /\ UNCHANGED <<transaction, retries, toRead, writing, items, finished, failed, home>>

\* Every ack ends what waits, whatever it waits for; only these end it well.
AckSucceeds(result) ==
  /\ result = "Accepted"
  /\ expect \in {"ClearAck", "GuidedItem"} \/ (expect = "Request" /\ toWrite = {})

OnAck(result) ==
  \/ /\ expect = Nil \/ (Apm /\ result = "InvalidSequence")
     /\ Ignored
  \/ /\ expect # Nil /\ ~(Apm /\ result = "InvalidSequence")
     /\ Finish(AckSucceeds(result), items)
     /\ UNCHANGED <<retries, toVehicle>>

StationReceive ==
  /\ toStation # <<>>
  /\ LET m == Head(toStation) IN
       \/ m.type = "Count" /\ OnCount(m.count)
       \/ m.type = "Item" /\ OnItem(m.item)
       \/ m.type = "Request" /\ OnRequest(m.seq)
       \/ m.type = "Ack" /\ OnAck(m.result)
  /\ toStation' \in Delivered(toStation)
  /\ UNCHANGED protocol

-----------------------------------------------------------------------------
(* The vehicle (mission_protocol).                                         *)

Reply(message) == toStation' \in Carried(toStation, message)
Acknowledge(result) == Reply([type |-> "Ack", result |-> result])
Silent == UNCHANGED <<toStation, protocol>>

VehicleInit == mission = <<>> /\ upload = NoUpload

OnRequestItem(seq) ==
  \/ /\ seq < Len(mission)
     /\ Reply([type |-> "Item", item |-> mission[seq + 1]])
     /\ UNCHANGED protocol
  \/ seq >= Len(mission) /\ Silent

OnUploadCount(count) ==
  \/ count = 0 /\ mission' = <<>> /\ Acknowledge("Accepted") /\ UNCHANGED upload
  \/ /\ count > 0
     /\ upload' = [count |-> count, items |-> <<>>]
     /\ Reply([type |-> "Request", seq |-> 0])
     /\ UNCHANGED mission
  \/ Acknowledge("Rejected") /\ UNCHANGED protocol \* any autopilot may refuse a plan

OnUploadItem(item) ==
  LET gathered == Append(upload.items, item) IN
  \/ /\ upload.count > 0 /\ item.seq = Len(upload.items)
     /\ Len(gathered) < upload.count
     /\ upload' = [upload EXCEPT !.items = gathered]
     /\ Reply([type |-> "Request", seq |-> Len(gathered)])
     /\ UNCHANGED mission
  \/ /\ upload.count > 0 /\ item.seq = Len(upload.items)
     /\ Len(gathered) >= upload.count
     /\ mission' = gathered /\ upload' = NoUpload
     /\ Acknowledge("Accepted")
  \/ /\ upload.count = 0 \/ item.seq # Len(upload.items)
     /\ Silent
  \/ /\ upload.count = 0 \/ item.seq # Len(upload.items)
     /\ Acknowledge("InvalidSequence") /\ UNCHANGED protocol \* ArduPilot says so

VehicleReceive ==
  /\ toVehicle # <<>>
  /\ LET m == Head(toVehicle) IN
       \/ /\ m.type = "RequestList"
          /\ Reply([type |-> "Count", count |-> Len(mission)]) /\ UNCHANGED protocol
       \/ m.type = "RequestItem" /\ OnRequestItem(m.seq)
       \/ m.type = "Count" /\ OnUploadCount(m.count)
       \/ m.type = "Item" /\ OnUploadItem(m.item)
       \/ /\ m.type = "ClearAll"
          /\ mission' = <<>> /\ Acknowledge("Accepted") /\ UNCHANGED upload
       \/ m.type = "GuidedItem" /\ Acknowledge("Accepted") /\ UNCHANGED protocol
       \/ m.type = "Ack" /\ Silent
  /\ toVehicle' \in Delivered(toVehicle)
  /\ UNCHANGED slot

-----------------------------------------------------------------------------
Init ==
  /\ StationInit /\ VehicleInit
  /\ toVehicle = <<>> /\ toStation = <<>>

Operator ==
  \/ Load \/ RemoveAll \/ GuidedItem
  \/ \E plan \in Plans : Write(plan) \/ WriteTooLong(plan)

Next == Operator \/ Timeout \/ StationReceive \/ VehicleReceive

Spec == Init /\ [][Next]_vars

\* The pump runs on every tick, so a timer that stays due is handled; both ends
\* read what arrives.
Fairness == WF_vars(Timeout) /\ WF_vars(StationReceive) /\ WF_vars(VehicleReceive)

FairSpec == Spec /\ Fairness

-----------------------------------------------------------------------------
(* Properties.                                                             *)

VehicleMessages ==
  [type : {"RequestList", "ClearAll", "GuidedItem", "Ack"}]
    \cup [type : {"RequestItem"}, seq : Seqs]
    \cup [type : {"Count"}, count : 0 .. MaxCount]
    \cup [type : {"Item"}, item : Item]
StationMessages ==
  [type : {"Count"}, count : 0 .. MaxCount]
    \cup [type : {"Item"}, item : Item]
    \cup [type : {"Request"}, seq : Seqs]
    \cup [type : {"Ack"}, result : Results]

\* Every variable keeps its type: no plan outgrows what a count can say, and
\* retries stop one past MAX_RETRY.
TypeOK ==
  /\ transaction \in Transactions /\ finished \in Transactions
  /\ expect \in Expects /\ due \in BOOLEAN /\ failed \in BOOLEAN
  /\ retries \in 0 .. MaxRetry + 1
  /\ toRead \in SUBSET Seqs /\ toWrite \in SUBSET Seqs
  /\ writing \in Seq(Item) /\ Len(writing) <= MaxCount
  /\ items \in Seq(Item) /\ home \in Seq(Int)
  /\ mission \in Seq(Item) /\ Len(mission) <= MaxCount
  /\ upload \in [count : 0 .. MaxCount, items : Seq(Item)]
  /\ upload = NoUpload \/ Len(upload.items) < upload.count
  /\ toVehicle \in Seq(VehicleMessages) /\ toStation \in Seq(StationMessages)

\* No transfer hangs: whenever a transaction runs, its kind says which answers it
\* may wait for, it waits for one of them, and the timer that ends the wait is
\* armed; none runs otherwise (take_expected clears expect, and every path out of
\* a handler must set it again or finish).
WaitsAreTimed ==
  /\ due <=> transaction # Nil
  /\ expect \in CASE transaction = Nil -> {Nil}
                  [] transaction = "Read" -> {"Count", "Item"}
                  [] transaction = "Write" -> {"Request"}
                  [] transaction = "RemoveAll" -> {"ClearAck"}
                  [] transaction = "GuidedItem" -> {"GuidedItem"}

\* A read loses no item and takes none twice, however items are delayed or
\* repeated: those read and those to read are disjoint and are 0 .. n-1 together,
\* and while an item is awaited there is one to await.
ReadAccountsForEveryItem ==
  expect = "Item" =>
    /\ toRead # {}
    /\ \A i \in DOMAIN items : items[i].seq \notin toRead
    /\ \A i, j \in DOMAIN items : items[i].seq = items[j].seq => i = j
    /\ \E n \in 0 .. MaxCount : toRead \cup {items[i].seq : i \in DOMAIN items} = 0 .. n - 1

Promise == INSTANCE PlanPromise
  WITH doing <- transaction, asked <- writing, plan <- items, failed <- failed

\* The transfer keeps its promise: a failed write and a guided item leave the held
\* plan alone, a failed read leaves none, a write that succeeds leaves its own, and
\* each transfer ends once.
KeepsPromise == Promise!Spec

\* What a read or a write that succeeded leaves as the known plan is the plan a
\* read of the vehicle would give: nothing of an earlier transfer still under way
\* completes it, and both directions number the jumps alike.
KnownPlanIsTheVehicles ==
  (transaction = Nil /\ finished \in {"Read", "Write"} /\ ~failed) =>
    items = [i \in DOMAIN mission |-> AsRead(mission[i])]

\* The same of a write alone, whatever its jumps: the vehicle stored what was written.
WrittenPlanIsStored ==
  (transaction = Nil /\ finished = "Write" /\ ~failed) => items = mission

\* A message is delivered and stays to be delivered again.
Redelivery ==
  \/ StationReceive /\ toStation' = toStation
  \/ VehicleReceive /\ toVehicle' = toVehicle

\* Every transfer ends, unless the network never stops to repeat messages (an item
\* that is not awaited restarts the timer).
TransfersEnd ==
  (<>[][~Redelivery]_vars) => ((transaction # Nil) ~> (transaction = Nil))
=============================================================================
