--------------------------- MODULE VehicleProofs ----------------------------
(***************************************************************************)
(* Proofs about the initial connect and the reads and writes of parameters, *)
(* and about MCVehicle, the two together.                                  *)
(*                                                                         *)
(* Writes, for any number of parameters and values: a write is held back   *)
(* only for want of room, since a write that ends leaves one place, which  *)
(* the first of those held takes.  A write ends kept or failed: the        *)
(* invariant adds that a new value has nothing older behind it, on its way *)
(* to the vehicle or back.  What is shown at rest is the vehicle's: the    *)
(* invariant adds where the answer is that will bring it.                  *)
(*                                                                         *)
(* Connect: it never waits for nothing, whatever the bounds, as long as    *)
(* operator and others leave its engines alone until it reaches them and   *)
(* the autopilot's parameters are heard; the runs connect_guided and       *)
(* connect_unheard show that it does otherwise.                            *)
(***************************************************************************)
EXTENDS MCVehicle, SequenceTheorems, FiniteSetTheorems, TLAPS

-----------------------------------------------------------------------------
(* Reads and writes of parameters (ParamWrites).                           *)

Room == HeldWritesWaitForRoom
ReadRequest == [sends : 1 .. MaxResends + 1, quiet : BOOLEAN]
WriteRequest == [sends : 0 .. MaxResends + 1, value : Values]

\* The requests of one kind, typed.
Requests(f, type) == DOMAIN f \subseteq Names /\ f \in [DOMAIN f -> type]

-----------------------------------------------------------------------------
(* Lemmas about requests.                                                  *)

\* A request more, or fewer, keeps the type.
LEMMA WithIsTyped ==
  ASSUME NEW type, NEW f, Requests(f, type), NEW n \in Names, NEW request \in type
  PROVE  Requests(With(f, n, request), type)
BY DEF Requests, With

\* A sequence of one, one with more at its end, and one without its first.
LEMMA ParamSequences ==
  ASSUME NEW S
  PROVE  /\ <<>> \in Seq(S)
         /\ \A x \in S : <<x>> \in Seq(S)
         /\ \A s \in Seq(S), x \in S : Append(s, x) \in Seq(S)
         /\ \A s \in Seq(S) : s # <<>> => s[1] \in S /\ Tail(s) \in Seq(S)
OBVIOUS

LEMMA WithoutIsTyped ==
  ASSUME NEW type, NEW f, Requests(f, type), NEW names
  PROVE  Requests(Without(f, names), type)
BY DEF Requests, Without

\* What release_writes leaves is typed, and what it sends as well.
LEMMA ReleasingIsTyped ==
  ASSUME NEW ws, Requests(ws, WriteRequest), NEW sent \in Seq(Sends),
         toVehicle \in Seq(Sends), Releasing(ws, sent)
  PROVE  Requests(writes', WriteRequest) /\ toVehicle' \in Seq(Sends)
<1>1. CASE writes' = ws /\ toVehicle' = toVehicle \o sent
  BY <1>1
<1>2. ASSUME NEW n \in Held(ws), writes' = [ws EXCEPT ![n].sends = 1],
             toVehicle' = toVehicle \o sent \o <<SetOf(n, ws[n].value)>>
      PROVE  Requests(writes', WriteRequest) /\ toVehicle' \in Seq(Sends)
  <2>1. n \in DOMAIN ws /\ ws[n] \in WriteRequest /\ n \in Names
    BY DEF Held, Requests
  <2>2. SetOf(n, ws[n].value) \in Sends
    BY <2>1 DEF SetOf, Sends, WriteRequest
  <2>3. [ws[n] EXCEPT !.sends = 1] \in WriteRequest
    BY <2>1, ParamAssumption DEF WriteRequest
  <2>4. Requests(writes', WriteRequest)
    BY <1>2, <2>1, <2>3 DEF Requests
  <2> QED BY <1>2, <2>2, <2>4
<1> QED BY <1>1, <1>2 DEF Releasing

-----------------------------------------------------------------------------
(* Lemmas about the room for writes.                                       *)

\* The writes in flight are finitely many.
LEMMA InFlightIsFinite ==
  ASSUME NEW ws, Requests(ws, WriteRequest)
  PROVE  IsFiniteSet(InFlight(ws)) /\ Cardinality(InFlight(ws)) \in Nat
<1>1. InFlight(ws) \subseteq Names
  BY DEF InFlight, Requests
<1> QED BY <1>1, ParamAssumption, FS_Subset, FS_CardinalityType

\* A write more in flight.
LEMMA OneMoreInFlight ==
  ASSUME NEW ws, Requests(ws, WriteRequest), NEW n \in Names, n \notin InFlight(ws),
         NEW after, InFlight(after) = InFlight(ws) \cup {n}
  PROVE  Cardinality(InFlight(after)) = Cardinality(InFlight(ws)) + 1
BY InFlightIsFinite, FS_AddElement

\* With room for at most one more than is in flight, release_writes fills it.
LEMMA ReleasingFillsTheRoom ==
  ASSUME NEW ws, Requests(ws, WriteRequest), NEW sent, Releasing(ws, sent),
         Cardinality(InFlight(ws)) <= MaxInFlight,
         Held(ws) # {} => Cardinality(InFlight(ws)) >= MaxInFlight - 1
  PROVE  Room'
<1>1. Cardinality(InFlight(ws)) \in Nat /\ MaxInFlight \in Nat
  BY InFlightIsFinite, ParamAssumption
<1>2. CASE writes' = ws /\ (Held(ws) = {} \/ Full(ws))
  BY <1>2 DEF Room, HeldWritesWaitForRoom, InFlight, Held, Full
<1>3. ASSUME ~Full(ws), NEW n \in Held(ws), writes' = [ws EXCEPT ![n].sends = 1]
      PROVE  Room'
  <2>1. n \in DOMAIN ws /\ n \in Names /\ ws[n] \in WriteRequest /\ ws[n].sends = 0
    BY DEF Held, Requests
  <2>2. writes'[n].sends = 1 /\ DOMAIN writes' = DOMAIN ws
    BY <1>3, <2>1 DEF Requests, WriteRequest
  <2>3. \A m \in DOMAIN ws : m # n => writes'[m] = ws[m]
    BY <1>3, <2>1 DEF Requests
  <2>4. InFlight(writes') = InFlight(ws) \cup {n} /\ n \notin InFlight(ws)
    BY <2>1, <2>2, <2>3 DEF InFlight
  <2>5. Cardinality(InFlight(writes')) = Cardinality(InFlight(ws)) + 1
    BY <2>1, <2>4, OneMoreInFlight
  <2>6. Cardinality(InFlight(writes')) = MaxInFlight
    BY <1>1, <1>3, <2>5 DEF Full
  <2> QED BY <1>1, <2>6 DEF Room, HeldWritesWaitForRoom, InFlight, Held, Full
<1> QED BY <1>2, <1>3 DEF Releasing

\* A write that goes leaves one in flight fewer, or as many.
LEMMA WithoutOne ==
  ASSUME NEW ws, Requests(ws, WriteRequest), NEW names, NEW n, names \subseteq {n}
  PROVE  /\ Cardinality(InFlight(Without(ws, names))) <= Cardinality(InFlight(ws))
         /\ Cardinality(InFlight(Without(ws, names))) >= Cardinality(InFlight(ws)) - 1
         /\ Held(Without(ws, names)) \subseteq Held(ws)
<1>1. /\ InFlight(Without(ws, names)) = InFlight(ws) \ names
      /\ Held(Without(ws, names)) \subseteq Held(ws)
  BY DEF Without, InFlight, Held
<1>2. IsFiniteSet(InFlight(ws)) /\ Cardinality(InFlight(ws)) \in Nat
  BY InFlightIsFinite
<1>3. CASE names \cap InFlight(ws) = {}
  <2>1. InFlight(ws) \ names = InFlight(ws)
    BY <1>3
  <2>2. Cardinality(InFlight(Without(ws, names))) = Cardinality(InFlight(ws))
    BY <1>1, <2>1
  <2> QED BY <1>1, <1>2, <2>2
<1>4. CASE names \cap InFlight(ws) # {}
  <2>1. InFlight(ws) \ names = InFlight(ws) \ {n} /\ n \in InFlight(ws)
    BY <1>4
  <2>2. Cardinality(InFlight(ws) \ {n}) = Cardinality(InFlight(ws)) - 1
    BY <1>2, <2>1, FS_RemoveElement
  <2>3. Cardinality(InFlight(Without(ws, names))) = Cardinality(InFlight(ws)) - 1
    BY <1>1, <2>1, <2>2
  <2> QED BY <1>1, <1>2, <2>3
<1> QED BY <1>3, <1>4

\* So after one write has gone release_writes leaves no room unused.
LEMMA ReleasingAfterOne ==
  ASSUME Requests(writes, WriteRequest), Room, NEW names, NEW n, names \subseteq {n},
         NEW sent, Releasing(Without(writes, names), sent)
  PROVE  Room'
<1> DEFINE ws == Without(writes, names)
<1>1. Requests(ws, WriteRequest)
  BY WithoutIsTyped
<1>2. Cardinality(InFlight(writes)) \in Nat /\ MaxInFlight \in Nat
      /\ Cardinality(InFlight(ws)) \in Nat
  BY <1>1, InFlightIsFinite, ParamAssumption
<1>3. /\ Cardinality(InFlight(ws)) <= Cardinality(InFlight(writes))
      /\ Cardinality(InFlight(ws)) >= Cardinality(InFlight(writes)) - 1
      /\ Held(ws) \subseteq Held(writes)
  BY WithoutOne
<1>4. Cardinality(InFlight(ws)) <= MaxInFlight
  BY <1>2, <1>3 DEF Room, HeldWritesWaitForRoom
<1>5. Held(ws) # {} => Cardinality(InFlight(ws)) >= MaxInFlight - 1
  BY <1>2, <1>3 DEF Room, HeldWritesWaitForRoom, Full
<1> QED BY <1>1, <1>4, <1>5, ReleasingFillsTheRoom

-----------------------------------------------------------------------------
(* Types and room.                                                         *)

ParamTyped ==
  /\ facts \in [Names -> Values]
  /\ Requests(reads, ReadRequest)
  /\ Requests(writes, WriteRequest)
  /\ toVehicle \in Seq(Sends)
  /\ toStation \in Seq(Answers)
  /\ onBoard \in [Names -> Values]
  /\ treats \in [Names -> Treatments]
  /\ tried \in [Names -> SUBSET Values]
  /\ unwritten \subseteq Names /\ unread \subseteq Names
  /\ asks \in 0 .. MaxAsks

ParamIInv == ParamTyped /\ Room

LEMMA TypedImplies ==
  ASSUME ParamTyped
  PROVE  ParamTypeOK
BY DEF ParamTyped, ParamTypeOK, Requests, ReadRequest, WriteRequest

LEMMA ParamInitInv ==
  ASSUME ParamInit
  PROVE  ParamIInv
<1>1. ParamTyped
  BY ParamAssumption DEF ParamInit, ParamTyped, Requests, NoRequests, ReadRequest, WriteRequest
<1>2. InFlight(writes) = {} /\ Held(writes) = {}
  BY DEF ParamInit, NoRequests, InFlight, Held
<1>3. Room
  BY <1>2, ParamAssumption, FS_EmptySet DEF Room, HeldWritesWaitForRoom
<1> QED BY <1>1, <1>3 DEF ParamIInv

\* Room depends on the writes in flight and on whether any is held back.
LEMMA RoomStays ==
  ASSUME Room, writes' = writes
  PROVE  Room'
BY DEF Room, HeldWritesWaitForRoom, InFlight, Held, Full

\* Reads are asked for as messages and requests of the right type.
LEMMA AskingIsTyped ==
  ASSUME ParamTyped, NEW n \in Names, NEW quiet \in BOOLEAN
  PROVE  Requests(Asking(reads, n, quiet), ReadRequest) /\ ReadOf(n) \in Sends
<1>1. [sends |-> 1, quiet |-> quiet] \in ReadRequest
  BY ParamAssumption DEF ReadRequest
<1>2. ReadOf(n) \in Sends
  BY DEF ReadOf, Sends
<1> QED BY <1>1, <1>2, WithIsTyped DEF Asking, ParamTyped

LEMMA WriteInv ==
  ASSUME ParamIInv, NEW n \in Names, NEW value \in Values, Write(n, value)
  PROVE  ParamIInv'
<1> DEFINE held == ~(n \in DOMAIN writes /\ writes[n].sends > 0) /\ Full(writes)
           request == [sends |-> IF held THEN 0 ELSE 1, value |-> value]
<1>1. request \in WriteRequest
  BY ParamAssumption DEF WriteRequest
<1>2. writes' = With(writes, n, request)
  BY DEF Write
<1> HIDE DEF held
<1>3. Requests(writes', WriteRequest)
  BY <1>1, <1>2, WithIsTyped DEF ParamIInv, ParamTyped
<1>4. toVehicle' = toVehicle \/ toVehicle' = Append(toVehicle, SetOf(n, value))
  BY DEF Write
<1>5. SetOf(n, value) \in Sends
  BY DEF SetOf, Sends
<1>6. toVehicle' \in Seq(Sends)
  <2>1. toVehicle \in Seq(Sends)
    BY DEF ParamIInv, ParamTyped
  <2> QED BY <1>4, <1>5, <2>1, ParamSequences
<1>7. ParamTyped'
  BY <1>3, <1>6, ParamAssumption DEF ParamIInv, ParamTyped, Write, MayAsk, vehicle
<1>8. Cardinality(InFlight(writes)) \in Nat /\ MaxInFlight \in Nat /\ Requests(writes, WriteRequest)
  BY InFlightIsFinite, ParamAssumption DEF ParamIInv, ParamTyped
<1>9. Room'
  <2>1. CASE held
    <3>1. n \notin InFlight(writes)
      BY <2>1 DEF held, InFlight
    <3>2. InFlight(writes') = InFlight(writes)
      BY <1>2, <2>1, <3>1 DEF With, InFlight
    <3> QED BY <1>8, <2>1, <3>2 DEF held, ParamIInv, Room, HeldWritesWaitForRoom, Full
  <2>2. CASE ~held /\ n \in InFlight(writes)
    <3>1. InFlight(writes') = InFlight(writes) /\ Held(writes') = Held(writes)
      BY <1>2, <2>2 DEF With, InFlight, Held
    <3> QED BY <3>1 DEF ParamIInv, Room, HeldWritesWaitForRoom, Full
  <2>3. CASE ~held /\ n \notin InFlight(writes)
    <3>1. ~Full(writes)
      BY <2>3 DEF held, InFlight
    <3>2. InFlight(writes') = InFlight(writes) \cup {n} /\ Held(writes') \subseteq Held(writes)
      BY <1>2, <2>3 DEF With, InFlight, Held
    <3>3. Cardinality(InFlight(writes')) = Cardinality(InFlight(writes)) + 1
      BY <1>8, <2>3, <3>2, OneMoreInFlight
    <3>4. Held(writes') = {}
      BY <3>1, <3>2 DEF ParamIInv, Room, HeldWritesWaitForRoom
    <3> QED BY <1>8, <3>1, <3>3, <3>4 DEF Room, HeldWritesWaitForRoom, Full
  <2> QED BY <2>1, <2>2, <2>3
<1> QED BY <1>7, <1>9 DEF ParamIInv

LEMMA ReadParamInv ==
  ASSUME ParamIInv, NEW n \in Names, NEW quiet \in BOOLEAN, ReadParam(n, quiet)
  PROVE  ParamIInv'
<1>1. Requests(reads', ReadRequest) /\ ReadOf(n) \in Sends
  BY AskingIsTyped DEF ParamIInv, ReadParam
<1>2. ParamTyped'
  BY <1>1, ParamAssumption DEF ParamIInv, ParamTyped, ReadParam, MayAsk, vehicle, reports
<1> QED BY <1>2, RoomStays DEF ParamIInv, ReadParam

LEMMA ReadTimesOutInv ==
  ASSUME ParamIInv, NEW n \in Names, ReadTimesOut(n)
  PROVE  ParamIInv'
<1>1. reads[n] \in ReadRequest /\ n \in DOMAIN reads
  BY DEF ParamIInv, ParamTyped, Requests, ReadTimesOut
<1>2. CASE MayResend(reads[n].sends) /\ reads' = [reads EXCEPT ![n].sends = @ + 1]
           /\ toVehicle' = Append(toVehicle, ReadOf(n)) /\ UNCHANGED <<writes, unread>>
  <2>1. [reads[n] EXCEPT !.sends = @ + 1] \in ReadRequest
    <3>1. /\ reads[n].sends \in 1 .. MaxResends + 1 /\ reads[n].quiet \in BOOLEAN
          /\ reads[n] = [sends |-> reads[n].sends, quiet |-> reads[n].quiet]
      BY <1>1 DEF ReadRequest
    <3>2. reads[n].sends + 1 \in 1 .. MaxResends + 1
      BY <1>2, <3>1, ParamAssumption DEF MayResend
    <3>3. [reads[n] EXCEPT !.sends = @ + 1] = [sends |-> reads[n].sends + 1, quiet |-> reads[n].quiet]
      BY <3>1
    <3> QED BY <3>1, <3>2, <3>3 DEF ReadRequest
  <2>2. Requests(reads', ReadRequest)
    BY <1>2, <2>1 DEF ParamIInv, ParamTyped, Requests
  <2>3. ReadOf(n) \in Sends
    BY DEF ReadOf, Sends
  <2>4. ParamTyped'
    BY <1>2, <2>2, <2>3 DEF ParamIInv, ParamTyped, ReadTimesOut, vehicle
  <2> QED BY <1>2, <2>4, RoomStays DEF ParamIInv
<1>3. CASE reads' = Without(reads, {n}) /\ Releasing(writes, <<>>)
           /\ unread' = IF reads[n].quiet THEN unread ELSE unread \cup {n}
  <2>1. Requests(reads', ReadRequest)
    BY <1>3, WithoutIsTyped DEF ParamIInv, ParamTyped
  <2>2. <<>> \in Seq(Sends)
    OBVIOUS
  <2>3. Requests(writes', WriteRequest) /\ toVehicle' \in Seq(Sends)
    BY <1>3, <2>2, ReleasingIsTyped DEF ParamIInv, ParamTyped
  <2>4. ParamTyped'
    BY <1>3, <2>1, <2>3 DEF ParamIInv, ParamTyped, ReadTimesOut, vehicle
  <2>5. Cardinality(InFlight(writes)) \in Nat /\ MaxInFlight \in Nat
    BY InFlightIsFinite, ParamAssumption DEF ParamIInv, ParamTyped
  <2>6. Room'
    BY <1>3, <2>5, ReleasingFillsTheRoom DEF ParamIInv, ParamTyped, Room, HeldWritesWaitForRoom, Full
  <2> QED BY <2>4, <2>6 DEF ParamIInv
<1> QED BY <1>2, <1>3 DEF ReadTimesOut

LEMMA WriteTimesOutInv ==
  ASSUME ParamIInv, NEW n \in Names, WriteTimesOut(n)
  PROVE  ParamIInv'
<1>1. writes[n] \in WriteRequest /\ n \in DOMAIN writes /\ writes[n].sends > 0
  BY DEF ParamIInv, ParamTyped, Requests, WriteTimesOut, InFlight
<1>2. CASE MayResend(writes[n].sends) /\ writes' = Counted(n)
           /\ toVehicle' = Append(toVehicle, SetOf(n, writes[n].value))
           /\ UNCHANGED <<reads, unwritten>>
  <2>1. [writes[n] EXCEPT !.sends = @ + 1] \in WriteRequest
    BY <1>1, <1>2, ParamAssumption DEF WriteRequest, MayResend
  <2>2. Requests(writes', WriteRequest)
    BY <1>2, <2>1 DEF ParamIInv, ParamTyped, Requests, Counted
  <2>3. SetOf(n, writes[n].value) \in Sends
    BY <1>1 DEF SetOf, Sends, WriteRequest
  <2>4. ParamTyped'
    BY <1>2, <2>2, <2>3 DEF ParamIInv, ParamTyped, WriteTimesOut, vehicle
  <2>5. DOMAIN writes' = DOMAIN writes /\ writes'[n].sends > 0
        /\ \A m \in DOMAIN writes : m # n => writes'[m] = writes[m]
    BY <1>1, <1>2 DEF Counted, ParamIInv, ParamTyped, Requests, WriteRequest
  <2>6. InFlight(writes') = InFlight(writes) /\ Held(writes') = Held(writes)
    BY <1>1, <2>5 DEF InFlight, Held
  <2> QED BY <2>4, <2>6 DEF ParamIInv, Room, HeldWritesWaitForRoom, Full
<1>3. CASE ReadAgain(n) /\ unwritten' = unwritten \cup {n}
  <2>1. Requests(reads', ReadRequest) /\ <<ReadOf(n)>> \in Seq(Sends)
    <3>1. Requests(Asking(reads, n, FALSE), ReadRequest) /\ ReadOf(n) \in Sends
      BY AskingIsTyped DEF ParamIInv
    <3> QED BY <1>3, <3>1, ParamSequences DEF ReadAgain
  <2>2. Requests(Without(writes, {n}), WriteRequest)
    BY WithoutIsTyped DEF ParamIInv, ParamTyped
  <2>3. Requests(writes', WriteRequest) /\ toVehicle' \in Seq(Sends)
    BY <1>3, <2>1, <2>2, ReleasingIsTyped DEF ReadAgain, ParamIInv, ParamTyped
  <2>4. ParamTyped'
    BY <1>3, <2>1, <2>3 DEF ParamIInv, ParamTyped, WriteTimesOut, vehicle
  <2>5. Room'
    BY <1>3, ReleasingAfterOne DEF ReadAgain, ParamIInv, ParamTyped
  <2> QED BY <2>4, <2>5 DEF ParamIInv
<1> QED BY <1>2, <1>3 DEF WriteTimesOut

\* The first answer in flight, typed.
LEMMA FirstAnswer ==
  ASSUME ParamTyped, toStation # <<>>
  PROVE  /\ toStation[1] \in Answers /\ toStation[1].name \in Names
         /\ toStation[1].answer = "value" => toStation[1].value \in Values
         /\ Tail(toStation) \in Seq(Answers)
<1>1. toStation[1] \in Answers /\ Tail(toStation) \in Seq(Answers)
  BY DEF ParamTyped
<1> QED BY <1>1 DEF Answers

LEMMA ParamValueInv ==
  ASSUME ParamIInv, ParamValue
  PROVE  ParamIInv'
<1> DEFINE n == toStation[1].name
           value == toStation[1].value
<1>1. n \in Names /\ value \in Values /\ toStation' \in Seq(Answers)
  BY FirstAnswer DEF ParamIInv, ParamValue, Answer
<1>2. Requests(reads', ReadRequest)
  BY WithoutIsTyped DEF ParamIInv, ParamTyped, ParamValue
<1>3. Requests(Without(writes, Acknowledges(n, value)), WriteRequest) /\ <<>> \in Seq(Sends)
  BY WithoutIsTyped DEF ParamIInv, ParamTyped
<1>4. Releasing(Without(writes, Acknowledges(n, value)), <<>>)
  BY DEF ParamValue
<1>5. Requests(writes', WriteRequest) /\ toVehicle' \in Seq(Sends)
  BY <1>3, <1>4, ReleasingIsTyped DEF ParamIInv, ParamTyped
<1>6. facts' \in [Names -> Values] /\ unread' \subseteq Names
  BY <1>1 DEF ParamValue, ParamIInv, ParamTyped
<1>7. ParamTyped'
  BY <1>1, <1>2, <1>5, <1>6 DEF ParamIInv, ParamTyped, ParamValue, vehicle
<1>8. Acknowledges(n, value) \subseteq {n}
  BY DEF Acknowledges
<1>9. Room'
  BY <1>4, <1>8, ReleasingAfterOne DEF ParamIInv, ParamTyped
<1> QED BY <1>7, <1>9 DEF ParamIInv

LEMMA ParamErrorInv ==
  ASSUME ParamIInv, ParamError
  PROVE  ParamIInv'
<1> DEFINE n == toStation[1].name
           again == n \in DOMAIN writes /\ toStation[1].exists
           sent == IF again THEN <<ReadOf(n)>> ELSE <<>>
<1>1. n \in Names /\ toStation' \in Seq(Answers)
  BY FirstAnswer DEF ParamIInv, ParamError, Answer
<1>2. Requests(Asking(reads, n, FALSE), ReadRequest) /\ ReadOf(n) \in Sends
  BY <1>1, AskingIsTyped DEF ParamIInv
<1>3. Requests(Without(reads, {n}), ReadRequest) /\ Requests(Without(writes, {n}), WriteRequest)
  BY WithoutIsTyped DEF ParamIInv, ParamTyped
<1>4. reads' = (IF again THEN Asking(reads, n, FALSE) ELSE Without(reads, {n}))
      /\ Releasing(Without(writes, {n}), sent)
  BY DEF ParamError
<1>5. Requests(reads', ReadRequest) /\ sent \in Seq(Sends)
  BY <1>2, <1>3, <1>4, ParamSequences
<1>6. Requests(writes', WriteRequest) /\ toVehicle' \in Seq(Sends)
  BY <1>3, <1>4, <1>5, ReleasingIsTyped DEF ParamIInv, ParamTyped
<1>7. unread' \subseteq Names /\ unwritten' \subseteq Names
  BY <1>1 DEF ParamError, ParamIInv, ParamTyped
<1>8. ParamTyped'
  BY <1>1, <1>5, <1>6, <1>7 DEF ParamIInv, ParamTyped, ParamError, vehicle
<1>9. Room'
  BY <1>4, ReleasingAfterOne DEF ParamIInv, ParamTyped
<1> QED BY <1>8, <1>9 DEF ParamIInv

\* The first message the vehicle has to answer, typed.
LEMMA FirstSend ==
  ASSUME ParamTyped, toVehicle # <<>>
  PROVE  /\ toVehicle[1] \in Sends /\ toVehicle[1].name \in Names
         /\ toVehicle[1].send = "set" => toVehicle[1].value \in Values
         /\ Tail(toVehicle) \in Seq(Sends)
<1>1. toVehicle[1] \in Sends /\ Tail(toVehicle) \in Seq(Sends)
  BY DEF ParamTyped
<1> QED BY <1>1 DEF Sends

LEMMA VehicleAnswersInv ==
  ASSUME ParamIInv, VehicleAnswers
  PROVE  ParamIInv'
<1> DEFINE request == toVehicle[1]
           n == request.name
<1>1. n \in Names /\ toVehicle' \in Seq(Sends) /\ onBoard[n] \in Values
      /\ (request.send = "set" => request.value \in Values)
  BY FirstSend DEF VehicleAnswers, ParamIInv, ParamTyped
<1>2. \A value \in Values : [answer |-> "value", name |-> n, value |-> value] \in Answers
  BY <1>1 DEF Answers
<1>3. [answer |-> "error", name |-> n, exists |-> treats[n] # "lacks"] \in Answers
  BY <1>1 DEF Answers
<1>4. onBoard' \in [Names -> Values] /\ \E answer \in Answers : toStation' = Append(toStation, answer)
  BY <1>1, <1>2, <1>3 DEF VehicleAnswers, Answering, ParamIInv, ParamTyped
<1>5. toStation' \in Seq(Answers)
  BY <1>4, ParamSequences DEF ParamIInv, ParamTyped
<1>6. ParamTyped'
  BY <1>1, <1>4, <1>5 DEF ParamIInv, ParamTyped, VehicleAnswers, requests, reports
<1> QED BY <1>6, RoomStays DEF ParamIInv, VehicleAnswers, requests

LEMMA LoseInv ==
  ASSUME ParamIInv, Lose
  PROVE  ParamIInv'
<1>1. toVehicle' \in Seq(Sends) /\ toStation' \in Seq(Answers)
  BY ParamSequences DEF ParamIInv, ParamTyped, Lose
<1>2. ParamTyped'
  BY <1>1 DEF ParamIInv, ParamTyped, Lose, requests, vehicle, reports
<1> QED BY <1>2, RoomStays DEF ParamIInv, Lose, requests

LEMMA StepInv ==
  ASSUME ParamIInv, [ParamNext]_paramVars
  PROVE  ParamIInv'
<1>1. CASE UNCHANGED paramVars
  BY <1>1, RoomStays DEF ParamIInv, ParamTyped, paramVars
<1>2. CASE ParamNext
  BY <1>2, WriteInv, ReadParamInv, ReadTimesOutInv, WriteTimesOutInv, ParamValueInv,
     ParamErrorInv, VehicleAnswersInv, LoseInv DEF ParamNext, TimesOut
<1> QED BY <1>1, <1>2

\* Every variable keeps its type, whatever is written, lost or refused: above all no
\* request is sent more than MAX_READ_WRITE_RETRY times again (request_timed_out).
THEOREM ParamTypeCorrect == ParamSpec => []ParamTypeOK
<1>1. ParamIInv => ParamTypeOK
  BY TypedImplies DEF ParamIInv
<1> QED BY <1>1, ParamInitInv, StepInv, PTL DEF ParamSpec

\* For any number of parameters, a write is held back only while MAX_WRITES_IN_FLIGHT
\* others are in flight, and never are more (write, release_writes and every handler
\* that ends one).
THEOREM WritesWaitForRoom == ParamSpec => []HeldWritesWaitForRoom
<1>1. ParamIInv => HeldWritesWaitForRoom
  BY DEF ParamIInv, Room
<1> QED BY <1>1, ParamInitInv, StepInv, PTL DEF ParamSpec

-----------------------------------------------------------------------------
(* The newest value.  As long as no value is written to a parameter twice, *)
(* the value of a write that is not answered has nothing older behind it,  *)
(* neither on its way to the vehicle nor on the way back.                  *)

IsSet(m, n) == m.send = "set" /\ m.name = n
IsValue(m, n) == m.answer = "value" /\ m.name = n

\* What is said of a parameter has been written to it, or is the vehicle's own.
Known(n) ==
  /\ onBoard[n] \in tried[n] \cup {0}
  /\ \A i \in DOMAIN toVehicle : IsSet(toVehicle[i], n) => toVehicle[i].value \in tried[n] \cup {0}
  /\ \A i \in DOMAIN toStation : IsValue(toStation[i], n) => toStation[i].value \in tried[n] \cup {0}
  /\ n \in DOMAIN writes => writes[n].value \in tried[n]

\* Once a value is on its way, all that follows it has that value.
SentLast(n, value) == \A i, j \in DOMAIN toVehicle :
  i < j /\ IsSet(toVehicle[i], n) /\ IsSet(toVehicle[j], n) /\ toVehicle[i].value = value =>
    toVehicle[j].value = value
AnsweredLast(n, value) == \A i, j \in DOMAIN toStation :
  i < j /\ IsValue(toStation[i], n) /\ IsValue(toStation[j], n) /\ toStation[i].value = value =>
    toStation[j].value = value

AllSent(n, value) == \A i \in DOMAIN toVehicle : IsSet(toVehicle[i], n) => toVehicle[i].value = value
AllAnswer(n, value) == \A i \in DOMAIN toStation : IsValue(toStation[i], n) => toStation[i].value = value

NewestLast(n, value) ==
  /\ SentLast(n, value) /\ AnsweredLast(n, value)
  /\ onBoard[n] = value => AllSent(n, value)
  /\ \A i \in DOMAIN toStation :
       IsValue(toStation[i], n) /\ toStation[i].value = value => onBoard[n] = value

Newest(n) == Known(n) /\ (n \in DOMAIN writes => NewestLast(n, writes[n].value))

\* A parameter that is not being written is all the vehicle's: what it takes ...
Settled(n) ==
  IF treats[n] = "takes" THEN n \notin DOMAIN writes => AllSent(n, onBoard[n]) /\ AllAnswer(n, onBoard[n])
  ELSE AllAnswer(n, onBoard[n])

\* ... what it refuses ...
Refused(n) == \A i \in DOMAIN toStation :
  toStation[i].answer = "error" /\ toStation[i].name = n =>
    treats[n] \in {"refuses", "lacks"} /\ toStation[i].exists = (treats[n] # "lacks")

\* ... and what the station shows, or is about to be told.
Shown(n) ==
  \/ n \in DOMAIN writes
  \/ n \in DOMAIN reads /\ ~reads[n].quiet
  \/ facts[n] = onBoard[n] \/ n \in unread \/ treats[n] = "lacks"

-----------------------------------------------------------------------------
(* What a handler of the station does to the messages in flight.           *)

\* A message sent now: a read, or a write of the value the request has.
Sent(m) == m.send = "set" => m.name \in DOMAIN writes' /\ m.value = writes'[m.name].value

\* The first d messages are taken; what is sent is added behind the others.
StationTakes(d) == \A i \in DOMAIN toStation' : i + d \in DOMAIN toStation /\ toStation'[i] = toStation[i + d]
VehicleTakes(e) == \A i \in DOMAIN toVehicle' :
  IF i + e \in DOMAIN toVehicle THEN toVehicle'[i] = toVehicle[i + e] ELSE Sent(toVehicle'[i])

\* A request has the value it had, or one that was never written before.
SameValue(n) == n \in DOMAIN writes /\ writes'[n].value = writes[n].value
NewValue(n) == writes'[n].value \in tried'[n] \ (tried[n] \cup {0})

LEMMA NewestGoesOn ==
  ASSUME ParamTyped, ParamTyped', NEW n \in Names, Newest(n), NEW d \in {0, 1}, NEW e \in {0, 1},
         onBoard' = onBoard, \A m \in Names : tried[m] \subseteq tried'[m],
         StationTakes(d), VehicleTakes(e),
         \A m \in DOMAIN writes' : SameValue(m) \/ NewValue(m)
  PROVE  Newest(n)'
<1>1. /\ Len(toVehicle) \in Nat /\ DOMAIN toVehicle = 1 .. Len(toVehicle)
      /\ Len(toVehicle') \in Nat /\ DOMAIN toVehicle' = 1 .. Len(toVehicle')
      /\ Len(toStation) \in Nat /\ DOMAIN toStation = 1 .. Len(toStation)
      /\ Len(toStation') \in Nat /\ DOMAIN toStation' = 1 .. Len(toStation')
  BY LenProperties DEF ParamTyped
<1>2. n \in DOMAIN writes' => writes'[n].value \in tried'[n]
  BY DEF Newest, Known, SameValue, NewValue
<1>3. ASSUME NEW i \in DOMAIN toVehicle', IsSet(toVehicle'[i], n)
      PROVE  \/ i + e \in DOMAIN toVehicle /\ toVehicle'[i] = toVehicle[i + e]
             \/ n \in DOMAIN writes' /\ toVehicle'[i].value = writes'[n].value
  BY <1>3 DEF VehicleTakes, Sent, IsSet
<1>4. Known(n)'
  <2>1. onBoard'[n] \in tried'[n] \cup {0}
    BY DEF Newest, Known
  <2>2. ASSUME NEW i \in DOMAIN toVehicle', IsSet(toVehicle'[i], n)
        PROVE  toVehicle'[i].value \in tried'[n] \cup {0}
    BY <1>2, <1>3, <2>2 DEF Newest, Known
  <2>3. ASSUME NEW i \in DOMAIN toStation', IsValue(toStation'[i], n)
        PROVE  toStation'[i].value \in tried'[n] \cup {0}
    BY <2>3 DEF Newest, Known, StationTakes
  <2> QED BY <1>2, <2>1, <2>2, <2>3 DEF Known, IsSet, IsValue
<1>5. ASSUME NEW v, n \in DOMAIN writes', v = writes'[n].value PROVE NewestLast(n, v)'
  <2>1. \/ SameValue(n) /\ n \in DOMAIN writes /\ v = writes[n].value
        \/ v \notin tried[n] \cup {0}
    BY <1>5 DEF SameValue, NewValue
  <2>2. ASSUME NEW i \in DOMAIN toVehicle', NEW j \in DOMAIN toVehicle', i < j,
               IsSet(toVehicle'[i], n), IsSet(toVehicle'[j], n), toVehicle'[i].value = v
        PROVE  toVehicle'[j].value = v
    <3>1. CASE j + e \in DOMAIN toVehicle
      <4>1. i + e \in DOMAIN toVehicle /\ i + e < j + e
        BY <1>1, <2>2, <3>1
      <4>2. toVehicle'[i] = toVehicle[i + e] /\ toVehicle'[j] = toVehicle[j + e]
        BY <3>1, <4>1 DEF VehicleTakes
      <4> QED BY <2>1, <2>2, <3>1, <4>1, <4>2 DEF Newest, Known, NewestLast, SentLast
    <3>2. CASE j + e \notin DOMAIN toVehicle
      BY <1>3, <1>5, <2>2, <3>2
    <3> QED BY <3>1, <3>2
  <2>3. ASSUME NEW i \in DOMAIN toStation', NEW j \in DOMAIN toStation', i < j,
               IsValue(toStation'[i], n), IsValue(toStation'[j], n), toStation'[i].value = v
        PROVE  toStation'[j].value = v
    <3>1. /\ i + d \in DOMAIN toStation /\ j + d \in DOMAIN toStation /\ i + d < j + d
          /\ toStation'[i] = toStation[i + d] /\ toStation'[j] = toStation[j + d]
      BY <1>1, <2>3 DEF StationTakes
    <3> QED BY <2>1, <2>3, <3>1 DEF Newest, Known, NewestLast, AnsweredLast
  <2>4. ASSUME onBoard[n] = v, NEW i \in DOMAIN toVehicle', IsSet(toVehicle'[i], n)
        PROVE  toVehicle'[i].value = v
    BY <1>3, <1>5, <2>1, <2>4 DEF Newest, Known, NewestLast, AllSent
  <2>5. ASSUME NEW i \in DOMAIN toStation', IsValue(toStation'[i], n), toStation'[i].value = v
        PROVE  onBoard[n] = v
    BY <2>1, <2>5 DEF Newest, Known, NewestLast, StationTakes
  <2> QED BY <2>2, <2>3, <2>4, <2>5 DEF NewestLast, SentLast, AnsweredLast, AllSent, IsSet, IsValue
<1>6. n \in DOMAIN writes' => NewestLast(n, writes[n].value)'
  <2> SUFFICES ASSUME n \in DOMAIN writes' PROVE NewestLast(n, writes[n].value)'
    OBVIOUS
  <2> PICK v : v = writes'[n].value
    OBVIOUS
  <2> QED BY <1>5 DEF NewestLast, SentLast, AnsweredLast, AllSent
<1> QED BY <1>4, <1>6 DEF Newest

\* Both channels, at rest, without their first message, or with one more.
LEMMA ChannelsAre ==
  ASSUME ParamTyped
  PROVE  /\ Len(toVehicle) \in Nat /\ DOMAIN toVehicle = 1 .. Len(toVehicle)
         /\ Len(toStation) \in Nat /\ DOMAIN toStation = 1 .. Len(toStation)
BY LenProperties DEF ParamTyped

LEMMA StationWaits == ASSUME ParamTyped, toStation' = toStation PROVE StationTakes(0)
BY ChannelsAre DEF StationTakes

LEMMA VehicleWaits == ASSUME ParamTyped, toVehicle' = toVehicle PROVE VehicleTakes(0)
BY ChannelsAre DEF VehicleTakes

LEMMA StationTakesOne == ASSUME ParamTyped, toStation # <<>>, toStation' = Tail(toStation) PROVE StationTakes(1)
<1>1. /\ toStation' \in Seq(Answers) /\ Len(toStation') = Len(toStation) - 1
      /\ \A i \in 1 .. Len(toStation) - 1 : toStation'[i] = toStation[i + 1]
  BY HeadTailProperties DEF ParamTyped
<1>2. DOMAIN toStation' = 1 .. Len(toStation) - 1
  BY <1>1, LenProperties
<1> QED BY <1>1, <1>2, ChannelsAre DEF StationTakes

LEMMA VehicleTakesOne == ASSUME ParamTyped, toVehicle # <<>>, toVehicle' = Tail(toVehicle) PROVE VehicleTakes(1)
<1>1. /\ toVehicle' \in Seq(Sends) /\ Len(toVehicle') = Len(toVehicle) - 1
      /\ \A i \in 1 .. Len(toVehicle) - 1 : toVehicle'[i] = toVehicle[i + 1]
  BY HeadTailProperties DEF ParamTyped
<1>2. DOMAIN toVehicle' = 1 .. Len(toVehicle) - 1
  BY <1>1, LenProperties
<1> QED BY <1>1, <1>2, ChannelsAre DEF VehicleTakes

LEMMA OneIsSent ==
  ASSUME ParamTyped, NEW m \in Sends, Sent(m), toVehicle' = Append(toVehicle, m)
  PROVE  VehicleTakes(0)
<1>1. /\ toVehicle' \in Seq(Sends) /\ Len(toVehicle') = Len(toVehicle) + 1
      /\ \A i \in 1 .. Len(toVehicle) : toVehicle'[i] = toVehicle[i]
      /\ toVehicle'[Len(toVehicle) + 1] = m
  BY AppendProperties DEF ParamTyped
<1>2. DOMAIN toVehicle' = 1 .. Len(toVehicle) + 1
  BY <1>1, LenProperties
<1> QED BY <1>1, <1>2, ChannelsAre DEF VehicleTakes

LEMMA TwoAreSent ==
  ASSUME ParamTyped, NEW m \in Sends, Sent(m), NEW o \in Sends, Sent(o),
         toVehicle' = Append(Append(toVehicle, m), o)
  PROVE  VehicleTakes(0)
<1> PICK first \in Seq(Sends) : first = Append(toVehicle, m)
  BY AppendProperties DEF ParamTyped
<1>1. /\ Len(first) = Len(toVehicle) + 1
      /\ \A i \in 1 .. Len(toVehicle) : first[i] = toVehicle[i]
      /\ first[Len(toVehicle) + 1] = m
  BY AppendProperties DEF ParamTyped
<1>2. /\ toVehicle' \in Seq(Sends) /\ Len(toVehicle') = Len(toVehicle) + 2
      /\ \A i \in 1 .. Len(toVehicle) + 1 : toVehicle'[i] = first[i]
      /\ toVehicle'[Len(toVehicle) + 2] = o
  <2>1. /\ toVehicle' \in Seq(Sends) /\ Len(toVehicle') = Len(first) + 1
        /\ \A i \in 1 .. Len(first) : toVehicle'[i] = first[i]
        /\ toVehicle'[Len(first) + 1] = o
    BY AppendProperties
  <2> QED BY <1>1, <2>1, ChannelsAre
<1>3. DOMAIN toVehicle' = 1 .. Len(toVehicle) + 2
  BY <1>2, LenProperties
<1>4. ASSUME NEW i \in DOMAIN toVehicle'
      PROVE  IF i \in DOMAIN toVehicle THEN toVehicle'[i] = toVehicle[i] ELSE Sent(toVehicle'[i])
  <2>1. CASE i \in 1 .. Len(toVehicle)
    BY <1>1, <1>2, <2>1, ChannelsAre
  <2>2. CASE i = Len(toVehicle) + 1
    BY <1>1, <1>2, <2>2, ChannelsAre
  <2>3. CASE i = Len(toVehicle) + 2
    BY <1>2, <2>3, ChannelsAre
  <2> QED BY <1>3, <2>1, <2>2, <2>3, ChannelsAre
<1> QED BY <1>3, <1>4, ChannelsAre DEF VehicleTakes

\* What is let go is sent with the value its request has.
LEMMA ReleasingSends ==
  ASSUME ParamTyped, NEW ws, Requests(ws, WriteRequest), NEW sent,
         sent = <<>> \/ \E m \in Names : sent = <<ReadOf(m)>>, Releasing(ws, sent)
  PROVE  /\ VehicleTakes(0) /\ DOMAIN writes' = DOMAIN ws
         /\ \A m \in DOMAIN ws : writes'[m].value = ws[m].value
<1>1. \A m \in Names : ReadOf(m) \in Sends /\ Sent(ReadOf(m))
  BY DEF ReadOf, Sends, Sent
<1>2. toVehicle \in Seq(Sends)
  BY DEF ParamTyped
<1>3. CASE writes' = ws /\ toVehicle' = toVehicle \o sent
  <2>1. CASE sent = <<>>
    <3>1. toVehicle' = toVehicle
      BY <1>2, <1>3, <2>1
    <3> QED BY <1>3, <3>1, VehicleWaits
  <2>2. ASSUME NEW m \in Names, sent = <<ReadOf(m)>> PROVE VehicleTakes(0)
    <3>1. toVehicle' = Append(toVehicle, ReadOf(m))
      BY <1>1, <1>2, <1>3, <2>2
    <3> QED BY <1>1, <3>1, OneIsSent
  <2> QED BY <1>3, <2>1, <2>2
<1>4. ASSUME NEW n \in Held(ws), writes' = [ws EXCEPT ![n].sends = 1],
             toVehicle' = toVehicle \o sent \o <<SetOf(n, ws[n].value)>>
      PROVE  /\ VehicleTakes(0) /\ DOMAIN writes' = DOMAIN ws
             /\ \A m \in DOMAIN ws : writes'[m].value = ws[m].value
  <2>1. n \in DOMAIN ws /\ ws[n] \in WriteRequest /\ n \in Names
    BY DEF Held, Requests
  <2>2. DOMAIN writes' = DOMAIN ws /\ \A m \in DOMAIN ws : writes'[m].value = ws[m].value
    BY <1>4, <2>1 DEF Requests, WriteRequest
  <2> PICK o \in Sends : o = SetOf(n, ws[n].value)
    BY <2>1 DEF SetOf, Sends, WriteRequest
  <2>3. Sent(o)
    BY <2>1, <2>2 DEF Sent, SetOf
  <2>4. CASE sent = <<>>
    <3>1. toVehicle' = Append(toVehicle, o)
      BY <1>2, <1>4, <2>4
    <3> QED BY <2>2, <2>3, <3>1, OneIsSent
  <2>5. ASSUME NEW m \in Names, sent = <<ReadOf(m)>> PROVE VehicleTakes(0)
    <3>1. toVehicle' = Append(Append(toVehicle, ReadOf(m)), o)
      BY <1>1, <1>2, <1>4, <2>5
    <3> QED BY <1>1, <2>3, <3>1, TwoAreSent
  <2> QED BY <2>2, <2>4, <2>5
<1> QED BY <1>3, <1>4 DEF Releasing

-----------------------------------------------------------------------------
(* Every handler of the station, and the link, do no more than that.       *)

Flows ==
  /\ onBoard' = onBoard /\ treats' = treats
  /\ \E d \in {0, 1} : StationTakes(d)
  /\ \E e \in {0, 1} : VehicleTakes(e)
  /\ \A m \in Names : tried[m] \subseteq tried'[m]
  /\ \A m \in DOMAIN writes' : SameValue(m) \/ NewValue(m)

LEMMA WriteFlows ==
  ASSUME ParamTyped, Fresh, NEW n \in Names, NEW value \in Values, Write(n, value)
  PROVE  Flows
<1>1. /\ DOMAIN writes' = DOMAIN writes \cup {n} /\ writes'[n].value = value
      /\ \A m \in DOMAIN writes : m # n => writes'[m] = writes[m]
      /\ toVehicle' = toVehicle \/ toVehicle' = Append(toVehicle, SetOf(n, value))
  BY DEF Write, With
<1> PICK o \in Sends : o = SetOf(n, value)
  BY DEF SetOf, Sends
<1>2. Sent(o)
  BY <1>1 DEF Sent, SetOf
<1>3. VehicleTakes(0)
  BY <1>1, <1>2, OneIsSent, VehicleWaits
<1>4. NewValue(n) /\ \A m \in Names : tried[m] \subseteq tried'[m]
  BY <1>1 DEF NewValue, Write, ParamTyped
<1>5. \A m \in DOMAIN writes' : SameValue(m) \/ NewValue(m)
  BY <1>1, <1>4 DEF SameValue
<1> QED BY <1>3, <1>4, <1>5, StationWaits DEF Flows, Write, vehicle

\* Requests that lose at most some of theirs, and messages sent with their values.
LEMMA ReleasingFlows ==
  ASSUME ParamTyped, NEW names, NEW sent, sent = <<>> \/ \E m \in Names : sent = <<ReadOf(m)>>,
         Releasing(Without(writes, names), sent), onBoard' = onBoard, treats' = treats,
         tried' = tried, \E d \in {0, 1} : StationTakes(d)
  PROVE  Flows /\ DOMAIN writes' = DOMAIN writes \ names
<1> PICK ws : ws = Without(writes, names)
  OBVIOUS
<1>1. Requests(ws, WriteRequest)
  BY WithoutIsTyped DEF ParamTyped
<1>2. /\ VehicleTakes(0) /\ DOMAIN writes' = DOMAIN ws
      /\ \A m \in DOMAIN ws : writes'[m].value = ws[m].value
  BY <1>1, ReleasingSends
<1>3. DOMAIN ws = DOMAIN writes \ names /\ \A m \in DOMAIN ws : ws[m] = writes[m]
  BY DEF Without
<1> QED BY <1>2, <1>3 DEF Flows, SameValue

LEMMA RequestsFlow ==
  ASSUME ParamTyped, writes' = writes, NEW m \in Sends, Sent(m), toVehicle' = Append(toVehicle, m),
         toStation' = toStation, onBoard' = onBoard, treats' = treats, tried' = tried
  PROVE  Flows
BY OneIsSent, StationWaits DEF Flows, SameValue

LEMMA ReadIsSent == ASSUME NEW n \in Names PROVE ReadOf(n) \in Sends /\ Sent(ReadOf(n))
BY DEF ReadOf, Sends, Sent

LEMMA ReadParamFlows ==
  ASSUME ParamTyped, NEW n \in Names, NEW quiet \in BOOLEAN, ReadParam(n, quiet)
  PROVE  Flows
BY ReadIsSent, RequestsFlow DEF ReadParam, vehicle

LEMMA ReadTimesOutFlows ==
  ASSUME ParamTyped, NEW n \in Names, ReadTimesOut(n)
  PROVE  Flows /\ DOMAIN writes' = DOMAIN writes
<1>1. CASE toVehicle' = Append(toVehicle, ReadOf(n)) /\ writes' = writes
  BY <1>1, ReadIsSent, RequestsFlow DEF ReadTimesOut, vehicle
<1>2. CASE Releasing(writes, <<>>)
  <2>1. Requests(writes, WriteRequest)
    BY DEF ParamTyped
  <2>2. /\ VehicleTakes(0) /\ DOMAIN writes' = DOMAIN writes
        /\ \A m \in DOMAIN writes : writes'[m].value = writes[m].value
    BY <1>2, <2>1, ReleasingSends
  <2>3. \A m \in DOMAIN writes' : SameValue(m)
    BY <2>2 DEF SameValue
  <2> QED BY <2>2, <2>3, StationWaits DEF Flows, ReadTimesOut, vehicle
<1> QED BY <1>1, <1>2 DEF ReadTimesOut

LEMMA WriteTimesOutFlows ==
  ASSUME ParamTyped, NEW n \in Names, WriteTimesOut(n)
  PROVE  /\ Flows
         /\ \/ writes' = Counted(n) /\ DOMAIN writes' = DOMAIN writes /\ UNCHANGED <<reads, unwritten>>
            \/ /\ DOMAIN writes' = DOMAIN writes \ {n} /\ reads' = Asking(reads, n, FALSE)
               /\ unwritten' = unwritten \cup {n}
<1>1. n \in DOMAIN writes /\ writes[n] \in WriteRequest /\ n \in Names
  BY DEF ParamTyped, Requests, WriteTimesOut, InFlight
<1>2. CASE /\ writes' = Counted(n) /\ toVehicle' = Append(toVehicle, SetOf(n, writes[n].value))
           /\ UNCHANGED <<reads, unwritten>>
  <2>1. DOMAIN writes' = DOMAIN writes /\ \A m \in DOMAIN writes : writes'[m].value = writes[m].value
    BY <1>1, <1>2 DEF Counted, ParamTyped, Requests, WriteRequest
  <2> PICK o \in Sends : o = SetOf(n, writes[n].value)
    BY <1>1 DEF SetOf, Sends, WriteRequest
  <2>2. Sent(o)
    BY <1>1, <2>1 DEF Sent, SetOf
  <2>3. VehicleTakes(0)
    BY <1>2, <2>2, OneIsSent
  <2> QED BY <1>2, <2>1, <2>3, StationWaits DEF Flows, SameValue, WriteTimesOut, vehicle
<1>3. CASE ReadAgain(n) /\ unwritten' = unwritten \cup {n}
  <2>1. Flows /\ DOMAIN writes' = DOMAIN writes \ {n}
    BY <1>3, ReleasingFlows, StationWaits DEF ReadAgain, WriteTimesOut, vehicle
  <2> QED BY <1>3, <2>1 DEF ReadAgain
<1> QED BY <1>2, <1>3 DEF WriteTimesOut

LEMMA ParamValueFlows ==
  ASSUME ParamTyped, ParamValue
  PROVE  /\ Flows
         /\ DOMAIN writes' = DOMAIN writes \ Acknowledges(toStation[1].name, toStation[1].value)
<1>1. StationTakes(1)
  BY StationTakesOne DEF ParamValue, Answer
<1> QED BY <1>1, ReleasingFlows DEF ParamValue, vehicle

LEMMA ParamErrorFlows ==
  ASSUME ParamTyped, ParamError
  PROVE  Flows /\ DOMAIN writes' = DOMAIN writes \ {toStation[1].name}
<1>1. StationTakes(1) /\ toStation[1].name \in Names
  BY StationTakesOne, FirstAnswer DEF ParamError, Answer
<1> DEFINE n == toStation[1].name
           again == n \in DOMAIN writes /\ toStation[1].exists
<1> PICK sent : sent = IF again THEN <<ReadOf(n)>> ELSE <<>>
  OBVIOUS
<1>2. sent = <<>> \/ \E m \in Names : sent = <<ReadOf(m)>>
  BY <1>1
<1>3. Releasing(Without(writes, {n}), sent)
  BY DEF ParamError
<1> HIDE DEF again
<1> QED BY <1>1, <1>2, <1>3, ReleasingFlows DEF ParamError, vehicle

LEMMA LoseFlows == ASSUME ParamTyped, Lose PROVE Flows
<1>1. \E d \in {0, 1} : StationTakes(d)
  BY StationWaits, StationTakesOne DEF Lose
<1>2. \E e \in {0, 1} : VehicleTakes(e)
  BY VehicleWaits, VehicleTakesOne DEF Lose
<1> QED BY <1>1, <1>2 DEF Flows, Lose, requests, vehicle, SameValue

\* All that any step but the vehicle's does to the messages.
LEMMA AllFlow == ASSUME ParamTyped, Fresh, ParamNext, ~VehicleAnswers PROVE Flows
BY WriteFlows, ReadParamFlows, ReadTimesOutFlows, WriteTimesOutFlows, ParamValueFlows, ParamErrorFlows,
   LoseFlows DEF ParamNext, TimesOut

-----------------------------------------------------------------------------
(* The vehicle takes one message and answers it.                           *)

\* What the vehicle does with the first message, and what it says of it.
LEMMA AnswerIs ==
  ASSUME ParamTyped, VehicleAnswers
  PROVE  \E k \in Names, a \in Answers :
           /\ k = toVehicle[1].name /\ a.name = k /\ toStation' = Append(toStation, a)
           /\ VehicleTakes(1) /\ 1 \in DOMAIN toVehicle
           /\ \A i \in DOMAIN toVehicle' : i + 1 \in DOMAIN toVehicle
           /\ a.answer = "value" => a.value = onBoard'[k]
           /\ a.answer = "error" =>
                treats[k] \in {"refuses", "lacks"} /\ a.exists = (treats[k] # "lacks")
           /\ \/ onBoard' = onBoard
              \/ /\ IsSet(toVehicle[1], k) /\ treats[k] = "takes"
                 /\ onBoard' = [onBoard EXCEPT ![k] = toVehicle[1].value]
<1>1. /\ toVehicle # <<>> /\ toVehicle[1] \in Sends /\ toVehicle[1].name \in Names
      /\ (toVehicle[1].send = "set" => toVehicle[1].value \in Values)
      /\ toVehicle' = Tail(toVehicle)
  BY FirstSend DEF VehicleAnswers
<1>2. VehicleTakes(1) /\ 1 \in DOMAIN toVehicle /\ \A i \in DOMAIN toVehicle' : i + 1 \in DOMAIN toVehicle
  <2>1. toVehicle' \in Seq(Sends) /\ Len(toVehicle') = Len(toVehicle) - 1 /\ Len(toVehicle) >= 1
    BY <1>1, HeadTailProperties, EmptySeq, LenProperties DEF ParamTyped
  <2>2. DOMAIN toVehicle' = 1 .. Len(toVehicle) - 1
    BY <2>1, LenProperties
  <2> QED BY <1>1, <2>1, <2>2, VehicleTakesOne, ChannelsAre
<1> PICK k \in Names : k = toVehicle[1].name
  BY <1>1
<1>3. onBoard \in [Names -> Values] /\ onBoard[k] \in Values
  BY DEF ParamTyped
<1>4. CASE /\ toVehicle[1].send = "set" /\ treats[k] = "takes"
           /\ onBoard' = [onBoard EXCEPT ![k] = toVehicle[1].value]
           /\ Answering([answer |-> "value", name |-> k, value |-> toVehicle[1].value])
  <2> PICK a \in Answers : a = [answer |-> "value", name |-> k, value |-> toVehicle[1].value]
    BY <1>1, <1>4 DEF Answers
  <2>1. a.answer = "value" /\ a.name = k /\ a.value = toVehicle[1].value
    OBVIOUS
  <2>2. toStation' = Append(toStation, a) /\ onBoard'[k] = toVehicle[1].value
    BY <1>3, <1>4 DEF Answering
  <2> QED BY <1>2, <1>4, <2>1, <2>2 DEF IsSet
<1>5. CASE UNCHANGED onBoard /\ Answering([answer |-> "value", name |-> k, value |-> onBoard[k]])
  <2> PICK a \in Answers : a = [answer |-> "value", name |-> k, value |-> onBoard[k]]
    BY <1>3 DEF Answers
  <2>1. a.answer = "value" /\ a.name = k /\ a.value = onBoard'[k]
    BY <1>5
  <2>2. toStation' = Append(toStation, a)
    BY <1>5 DEF Answering
  <2> QED BY <1>2, <1>5, <2>1, <2>2
<1>6. CASE /\ UNCHANGED onBoard /\ treats[k] \in {"refuses", "lacks"}
           /\ Answering([answer |-> "error", name |-> k, exists |-> treats[k] # "lacks"])
  <2>3. [answer |-> "error", name |-> k, exists |-> treats[k] # "lacks"] \in Answers
    BY DEF Answers
  <2> PICK a \in Answers : a = [answer |-> "error", name |-> k, exists |-> treats[k] # "lacks"]
    BY <2>3
  <2>1. a.answer = "error" /\ a.name = k /\ a.exists = (treats[k] # "lacks")
    OBVIOUS
  <2>2. toStation' = Append(toStation, a)
    BY <1>6 DEF Answering
  <2> QED BY <1>2, <1>6, <2>1, <2>2
<1> QED BY <1>4, <1>5, <1>6 DEF VehicleAnswers

LEMMA AnswerIsLast ==
  ASSUME ParamTyped, NEW a \in Answers, toStation' = Append(toStation, a)
  PROVE  /\ Len(toStation) \in Nat /\ DOMAIN toStation = 1 .. Len(toStation)
         /\ DOMAIN toStation' = 1 .. Len(toStation) + 1
         /\ \A i \in DOMAIN toStation : toStation'[i] = toStation[i]
         /\ toStation'[Len(toStation) + 1] = a
<1>1. /\ toStation' \in Seq(Answers) /\ Len(toStation') = Len(toStation) + 1
      /\ \A i \in 1 .. Len(toStation) : toStation'[i] = toStation[i]
      /\ toStation'[Len(toStation) + 1] = a
  BY AppendProperties DEF ParamTyped
<1>2. DOMAIN toStation' = 1 .. Len(toStation) + 1
  BY <1>1, LenProperties
<1> QED BY <1>1, <1>2, ChannelsAre

LEMMA NewestAnswered ==
  ASSUME ParamTyped, VehicleAnswers, NEW n \in Names, Newest(n)
  PROVE  Newest(n)'
<1> PICK k \in Names, a \in Answers :
      /\ k = toVehicle[1].name /\ a.name = k /\ toStation' = Append(toStation, a)
      /\ VehicleTakes(1) /\ 1 \in DOMAIN toVehicle
      /\ \A i \in DOMAIN toVehicle' : i + 1 \in DOMAIN toVehicle
      /\ a.answer = "value" => a.value = onBoard'[k]
      /\ \/ onBoard' = onBoard
         \/ /\ IsSet(toVehicle[1], k)
            /\ onBoard' = [onBoard EXCEPT ![k] = toVehicle[1].value]
  BY AnswerIs
<1> PICK s : s = Len(toStation)
  OBVIOUS
<1>1. /\ s \in Nat /\ DOMAIN toStation = 1 .. s /\ DOMAIN toStation' = 1 .. s + 1
      /\ \A i \in DOMAIN toStation : toStation'[i] = toStation[i]
      /\ toStation'[s + 1] = a
  BY AnswerIsLast
<1>2. \A i \in DOMAIN toVehicle' : i + 1 \in DOMAIN toVehicle /\ toVehicle'[i] = toVehicle[i + 1]
  BY DEF VehicleTakes
<1>3. writes' = writes /\ tried' = tried /\ DOMAIN toVehicle = 1 .. Len(toVehicle)
      /\ DOMAIN toVehicle' = 1 .. Len(toVehicle') /\ Len(toVehicle) \in Nat /\ Len(toVehicle') \in Nat
  <2>1. toVehicle' \in Seq(Sends)
    BY FirstSend DEF VehicleAnswers
  <2> QED BY <2>1, LenProperties, ChannelsAre DEF VehicleAnswers, requests
<1>4. IsValue(a, n) => n = k /\ a.value = onBoard'[n]
  BY DEF IsValue
<1>5. \/ onBoard'[n] = onBoard[n]
      \/ IsSet(toVehicle[1], n) /\ onBoard'[n] = toVehicle[1].value
  BY DEF ParamTyped, IsSet
<1>6. Known(n)'
  <2>1. onBoard'[n] \in tried[n] \cup {0}
    BY <1>5 DEF Newest, Known
  <2>2. ASSUME NEW i \in DOMAIN toVehicle', IsSet(toVehicle'[i], n)
        PROVE  toVehicle'[i].value \in tried[n] \cup {0}
    BY <1>2, <2>2 DEF Newest, Known
  <2>3. ASSUME NEW i \in DOMAIN toStation', IsValue(toStation'[i], n)
        PROVE  toStation'[i].value \in tried[n] \cup {0}
    <3>1. CASE i = s + 1
      BY <1>1, <1>4, <2>1, <2>3, <3>1
    <3>2. CASE i # s + 1
      BY <1>1, <2>3, <3>2 DEF Newest, Known
    <3> QED BY <3>1, <3>2
  <2> QED BY <1>3, <2>1, <2>2, <2>3 DEF Newest, Known, IsSet, IsValue
<1>7. ASSUME NEW v, n \in DOMAIN writes, v = writes[n].value PROVE NewestLast(n, v)'
  <2>1. NewestLast(n, v)
    BY <1>7 DEF Newest
  <2>2. onBoard[n] = v => onBoard'[n] = v
    BY <1>5, <2>1 DEF NewestLast, AllSent
  <2>3. ASSUME NEW i \in DOMAIN toVehicle', NEW j \in DOMAIN toVehicle', i < j,
               IsSet(toVehicle'[i], n), IsSet(toVehicle'[j], n), toVehicle'[i].value = v
        PROVE  toVehicle'[j].value = v
    <3>1. i + 1 < j + 1
      BY <1>3, <2>3
    <3> QED BY <1>2, <2>1, <2>3, <3>1 DEF NewestLast, SentLast
  <2>4. ASSUME NEW i \in DOMAIN toStation', NEW j \in DOMAIN toStation', i < j,
               IsValue(toStation'[i], n), IsValue(toStation'[j], n), toStation'[i].value = v
        PROVE  toStation'[j].value = v
    <3>1. i \in DOMAIN toStation /\ toStation'[i] = toStation[i]
      BY <1>1, <2>4
    <3>2. CASE j = s + 1
      BY <1>1, <1>4, <2>1, <2>2, <2>4, <3>1, <3>2 DEF NewestLast
    <3>3. CASE j # s + 1
      BY <1>1, <2>1, <2>4, <3>1, <3>3 DEF NewestLast, AnsweredLast
    <3> QED BY <3>2, <3>3
  <2>5. ASSUME onBoard'[n] = v, NEW i \in DOMAIN toVehicle', IsSet(toVehicle'[i], n)
        PROVE  toVehicle'[i].value = v
    <3>1. 1 < i + 1
      BY <1>3
    <3> QED BY <1>2, <1>5, <2>1, <2>5, <3>1 DEF NewestLast, AllSent, SentLast
  <2>6. ASSUME NEW i \in DOMAIN toStation', IsValue(toStation'[i], n), toStation'[i].value = v
        PROVE  onBoard'[n] = v
    <3>1. CASE i = s + 1
      BY <1>1, <1>4, <2>6, <3>1
    <3>2. CASE i # s + 1
      BY <1>1, <2>1, <2>2, <2>6, <3>2 DEF NewestLast
    <3> QED BY <3>1, <3>2
  <2> QED BY <2>3, <2>4, <2>5, <2>6 DEF NewestLast, SentLast, AnsweredLast, AllSent, IsSet, IsValue
<1>8. n \in DOMAIN writes => NewestLast(n, writes[n].value)'
  <2> SUFFICES ASSUME n \in DOMAIN writes PROVE NewestLast(n, writes[n].value)'
    OBVIOUS
  <2> PICK v : v = writes[n].value
    OBVIOUS
  <2> QED BY <1>3, <1>7 DEF NewestLast, SentLast, AnsweredLast, AllSent
<1> QED BY <1>3, <1>6, <1>8 DEF Newest

-----------------------------------------------------------------------------
(* No write is lost.                                                       *)

NewestIInv == ParamIInv /\ \A n \in Names : Newest(n)

LEMMA NewestInit == ASSUME ParamInit PROVE NewestIInv
<1>1. ASSUME NEW n \in Names PROVE Newest(n)
  BY DEF ParamInit, NoRequests, Newest, Known
<1> QED BY <1>1, ParamInitInv DEF NewestIInv

LEMMA NewestStep == ASSUME Fresh, NewestIInv, [ParamNext]_paramVars PROVE NewestIInv'
<1>1. ParamTyped /\ ParamTyped' /\ ParamIInv'
  BY StepInv DEF NewestIInv, ParamIInv
<1>2. CASE UNCHANGED paramVars
  BY <1>1, <1>2 DEF paramVars, NewestIInv, Newest, Known, NewestLast, SentLast, AnsweredLast, AllSent,
                    IsSet, IsValue
<1>3. CASE VehicleAnswers
  BY <1>1, <1>3, NewestAnswered DEF NewestIInv
<1>4. CASE ParamNext /\ ~VehicleAnswers
  <2>1. Flows
    BY <1>1, <1>4, AllFlow
  <2>2. PICK d \in {0, 1} : StationTakes(d)
    BY <2>1 DEF Flows
  <2>3. PICK e \in {0, 1} : VehicleTakes(e)
    BY <2>1 DEF Flows
  <2>4. \A n \in Names : Newest(n)'
    BY <1>1, <2>1, <2>2, <2>3, NewestGoesOn DEF Flows, NewestIInv
  <2> QED BY <1>1, <2>4 DEF NewestIInv
<1> QED BY <1>2, <1>3, <1>4

\* A value that acknowledges a write is the one the vehicle has.
LEMMA AcknowledgedIsOnBoard ==
  ASSUME NewestIInv, ParamValue, NEW n \in DOMAIN writes,
         n \in Acknowledges(toStation[1].name, toStation[1].value)
  PROVE  onBoard[n] = writes[n].value /\ AllSent(n, onBoard[n]) /\ AllAnswer(n, onBoard[n])
<1>1. /\ toStation # <<>> /\ IsValue(toStation[1], n) /\ toStation[1].value = writes[n].value
      /\ n \in Names
  BY DEF ParamValue, Answer, Acknowledges, IsValue, NewestIInv, ParamIInv, ParamTyped, Requests
<1>2. 1 \in DOMAIN toStation /\ DOMAIN toStation = 1 .. Len(toStation) /\ Len(toStation) \in Nat
  <2>1. ParamTyped
    BY DEF NewestIInv, ParamIInv
  <2> QED BY <1>1, <2>1, ChannelsAre, EmptySeq DEF ParamTyped
<1>3. NewestLast(n, writes[n].value)
  BY <1>1 DEF NewestIInv, Newest
<1>4. onBoard[n] = writes[n].value
  BY <1>1, <1>2, <1>3 DEF NewestLast
<1>5. ASSUME NEW i \in DOMAIN toStation, IsValue(toStation[i], n) PROVE toStation[i].value = writes[n].value
  <2>1. i = 1 \/ 1 < i
    BY <1>2
  <2> QED BY <1>1, <1>2, <1>3, <1>5, <2>1 DEF NewestLast, AnsweredLast
<1> QED BY <1>3, <1>4, <1>5 DEF NewestLast, AllAnswer

\* As long as no value is written to a parameter twice, a write leaves the requests only
\* when the vehicle has its value, or with its failure reported: no late answer to an
\* older write or read is taken for its own (on_param_value, answer_requests,
\* request_timed_out, on_param_error), whatever is lost or delayed.
THEOREM WritesEndKeptOrFailed == Fresh => (ParamSpec => EndsKeptOrFailed)
<1> SUFFICES ASSUME Fresh PROVE ParamSpec => EndsKeptOrFailed
  OBVIOUS
<1>1. NewestIInv /\ [ParamNext]_paramVars =>
        [\A n \in DOMAIN writes :
           n \notin DOMAIN writes' => onBoard[n] = writes[n].value \/ n \in unwritten']_paramVars
  <2> SUFFICES ASSUME NewestIInv, ParamNext, NEW n \in DOMAIN writes, n \notin DOMAIN writes'
               PROVE  onBoard[n] = writes[n].value \/ n \in unwritten'
    OBVIOUS
  <2>1. ParamTyped /\ n \in Names
    BY DEF NewestIInv, ParamIInv, ParamTyped, Requests
  <2>2. ASSUME NEW m \in Names, NEW value \in Values, Write(m, value) PROVE FALSE
    BY <2>2 DEF Write, With
  <2>3. ASSUME NEW m \in Names, NEW quiet \in BOOLEAN, ReadParam(m, quiet) PROVE FALSE
    BY <2>3 DEF ReadParam
  <2>4. ASSUME NEW m \in Names, ReadTimesOut(m) PROVE FALSE
    BY <2>1, <2>4, ReadTimesOutFlows
  <2>5. ASSUME NEW m \in Names, WriteTimesOut(m) PROVE n \in unwritten'
    BY <2>1, <2>5, WriteTimesOutFlows
  <2>6. CASE ParamValue
    BY <2>1, <2>6, ParamValueFlows, AcknowledgedIsOnBoard
  <2>7. CASE ParamError
    BY <2>1, <2>7, ParamErrorFlows DEF ParamError
  <2>8. CASE VehicleAnswers \/ Lose
    BY <2>8 DEF VehicleAnswers, Lose, requests
  <2> QED BY <2>2, <2>3, <2>4, <2>5, <2>6, <2>7, <2>8 DEF ParamNext, TimesOut
<1>2. NewestIInv /\ [ParamNext]_paramVars => NewestIInv'
  BY NewestStep
<1> QED BY <1>1, <1>2, NewestInit, PTL DEF ParamSpec, EndsKeptOrFailed

-----------------------------------------------------------------------------
(* What the station shows in the end.                                      *)

ShownIInv == NewestIInv /\ \A n \in Names : Settled(n) /\ Refused(n) /\ Shown(n)

LEMMA ShownInit == ASSUME ParamInit PROVE ShownIInv
<1>1. ASSUME NEW n \in Names PROVE Settled(n) /\ Refused(n) /\ Shown(n)
  BY DEF ParamInit, NoRequests, Settled, Refused, Shown, AllSent, AllAnswer
<1> QED BY <1>1, NewestInit DEF ShownIInv

\* A write that ends leaves nothing older behind.
LEMMA SettledGoesOn ==
  ASSUME ParamTyped, NEW n \in Names, Settled(n), Refused(n), Flows,
         n \in DOMAIN writes /\ n \notin DOMAIN writes' /\ treats[n] = "takes" =>
           AllSent(n, onBoard[n]) /\ AllAnswer(n, onBoard[n])
  PROVE  Settled(n)' /\ Refused(n)'
<1> PICK d \in {0, 1} : StationTakes(d)
  BY DEF Flows
<1> PICK e \in {0, 1} : VehicleTakes(e)
  BY DEF Flows
<1>1. Refused(n)'
  BY DEF Refused, StationTakes, Flows
<1>2. AllAnswer(n, onBoard[n]) => AllAnswer(n, onBoard[n])'
  BY DEF AllAnswer, StationTakes, Flows, IsValue
<1>3. n \notin DOMAIN writes' /\ AllSent(n, onBoard[n]) => AllSent(n, onBoard[n])'
  BY DEF AllSent, VehicleTakes, Flows, IsSet, Sent
<1>4. Settled(n)'
  BY <1>2, <1>3 DEF Settled, Flows
<1> QED BY <1>1, <1>4

\* A parameter of which nothing is said, and whose requests and report stay.
LEMMA ShownStays ==
  ASSUME NEW n \in Names, Shown(n),
         n \in DOMAIN writes => n \in DOMAIN writes',
         n \in DOMAIN reads /\ ~reads[n].quiet => n \in DOMAIN reads' /\ ~reads'[n].quiet,
         facts'[n] = facts[n], onBoard'[n] = onBoard[n], n \in unread => n \in unread', treats' = treats
  PROVE  Shown(n)'
BY DEF Shown

LEMMA WriteShows ==
  ASSUME ShownIInv, NEW k \in Names, NEW value \in Values, Write(k, value), NEW n \in Names
  PROVE  Shown(n)'
<1>1. DOMAIN writes' = DOMAIN writes \cup {k} /\ Shown(n)
  BY DEF Write, With, ShownIInv
<1>2. CASE n = k
  BY <1>1, <1>2 DEF Shown
<1>3. CASE n # k
  <2>1. facts'[n] = facts[n]
    BY <1>3 DEF Write, ShownIInv, NewestIInv, ParamIInv, ParamTyped
  <2> QED BY <1>1, <2>1, ShownStays DEF Write, vehicle
<1> QED BY <1>2, <1>3

LEMMA ReadParamShows ==
  ASSUME ShownIInv, Apart, NEW k \in Names, NEW quiet \in BOOLEAN, ReadParam(k, quiet), NEW n \in Names
  PROVE  Shown(n)'
<1>1. Shown(n) /\ UNCHANGED <<facts, writes, onBoard, treats, unread>>
  BY DEF ReadParam, vehicle, reports, ShownIInv
<1>2. /\ DOMAIN reads' = DOMAIN reads \cup {k} /\ reads'[k] = [sends |-> 1, quiet |-> quiet]
      /\ \A m \in DOMAIN reads : m # k => reads'[m] = reads[m]
  BY DEF ReadParam, Asking, With
<1>3. quiet => k \notin DOMAIN reads
  BY DEF ReadParam
<1>4. n \in DOMAIN reads /\ ~reads[n].quiet => n \in DOMAIN reads' /\ ~reads'[n].quiet
  BY <1>2, <1>3
<1> QED BY <1>1, <1>4, ShownStays

LEMMA ReadTimesOutShows ==
  ASSUME ShownIInv, NEW k \in Names, ReadTimesOut(k), NEW n \in Names
  PROVE  Shown(n)'
<1>1. ParamTyped /\ Shown(n) /\ DOMAIN writes' = DOMAIN writes /\ k \in DOMAIN reads
      /\ UNCHANGED <<facts, onBoard, treats>>
  BY ReadTimesOutFlows DEF ShownIInv, NewestIInv, ParamIInv, ReadTimesOut, vehicle
<1>2. CASE reads' = [reads EXCEPT ![k].sends = @ + 1] /\ unread' = unread
  <2>1. /\ DOMAIN reads' = DOMAIN reads
        /\ \A m \in DOMAIN reads : reads'[m].quiet = reads[m].quiet
    BY <1>1, <1>2 DEF ParamTyped, Requests, ReadRequest
  <2> QED BY <1>1, <1>2, <2>1, ShownStays
<1>3. CASE reads' = Without(reads, {k}) /\ unread' = IF reads[k].quiet THEN unread ELSE unread \cup {k}
  <2>1. DOMAIN reads' = DOMAIN reads \ {k} /\ \A m \in DOMAIN reads' : reads'[m] = reads[m]
    BY <1>3 DEF Without
  <2>2. CASE n = k /\ ~reads[k].quiet
    BY <1>3, <2>2 DEF Shown
  <2>3. CASE n # k \/ reads[k].quiet
    BY <1>1, <1>3, <2>1, <2>3, ShownStays
  <2> QED BY <2>2, <2>3
<1> QED BY <1>2, <1>3 DEF ReadTimesOut

LEMMA WriteTimesOutShows ==
  ASSUME ShownIInv, NEW k \in Names, WriteTimesOut(k), NEW n \in Names
  PROVE  Shown(n)'
<1>1. ParamTyped /\ Shown(n) /\ UNCHANGED <<facts, onBoard, treats, unread>>
  BY DEF ShownIInv, NewestIInv, ParamIInv, WriteTimesOut, vehicle
<1>2. CASE DOMAIN writes' = DOMAIN writes /\ reads' = reads
  BY <1>1, <1>2, ShownStays
<1>3. CASE DOMAIN writes' = DOMAIN writes \ {k} /\ reads' = Asking(reads, k, FALSE)
  <2>1. /\ DOMAIN reads' = DOMAIN reads \cup {k} /\ reads'[k] = [sends |-> 1, quiet |-> FALSE]
        /\ \A m \in DOMAIN reads : m # k => reads'[m] = reads[m]
    BY <1>3 DEF Asking, With
  <2>2. CASE n = k
    BY <2>1, <2>2 DEF Shown
  <2>3. CASE n # k
    BY <1>1, <1>3, <2>1, <2>3, ShownStays
  <2> QED BY <2>2, <2>3
<1> QED BY <1>1, <1>2, <1>3, WriteTimesOutFlows

LEMMA ParamValueShows ==
  ASSUME ShownIInv, ParamValue, NEW n \in Names
  PROVE  Shown(n)'
<1> PICK k \in Names, value \in Values : k = toStation[1].name /\ value = toStation[1].value
  BY FirstAnswer DEF ShownIInv, NewestIInv, ParamIInv, ParamValue, Answer
<1>1. /\ ParamTyped /\ Shown(n) /\ Settled(n) /\ UNCHANGED <<onBoard, treats>>
      /\ DOMAIN writes' = DOMAIN writes \ Acknowledges(k, value)
      /\ facts' = [facts EXCEPT ![k] = value] /\ unread' = unread \ {k}
      /\ reads' = Without(reads, {k})
  BY ParamValueFlows DEF ShownIInv, NewestIInv, ParamIInv, ParamValue, vehicle
<1>2. CASE n # k
  <2>1. facts'[n] = facts[n] /\ n \notin Acknowledges(k, value)
    BY <1>1, <1>2 DEF Acknowledges, ParamTyped
  <2>2. n \in DOMAIN reads => n \in DOMAIN reads' /\ reads'[n] = reads[n]
    BY <1>1, <1>2 DEF Without
  <2> QED BY <1>1, <1>2, <2>1, <2>2, ShownStays
<1>3. CASE n = k /\ n \in DOMAIN writes'
  BY <1>3 DEF Shown
<1>4. CASE n = k /\ n \notin DOMAIN writes'
  <2>1. IsValue(toStation[1], n) /\ 1 \in DOMAIN toStation
    BY <1>1, <1>4, ChannelsAre, EmptySeq DEF IsValue, ParamValue, Answer, ParamTyped
  <2>2. value = onBoard[n]
    <3>1. CASE n \in DOMAIN writes
      <4>1. n \in Acknowledges(k, value)
        BY <1>1, <1>4, <3>1
      <4>2. AllAnswer(n, onBoard[n])
        BY <3>1, <4>1, AcknowledgedIsOnBoard DEF ShownIInv
      <4> QED BY <2>1, <4>2 DEF AllAnswer
    <3>2. CASE n \notin DOMAIN writes
      BY <1>1, <2>1, <3>2 DEF Settled, AllAnswer
    <3> QED BY <3>1, <3>2
  <2>3. facts'[n] = onBoard'[n]
    BY <1>1, <1>4, <2>2 DEF ParamTyped
  <2> QED BY <2>3 DEF Shown
<1> QED BY <1>2, <1>3, <1>4

LEMMA ParamErrorShows ==
  ASSUME ShownIInv, ParamError, NEW n \in Names
  PROVE  Shown(n)'
<1> PICK k \in Names : k = toStation[1].name
  BY FirstAnswer DEF ShownIInv, NewestIInv, ParamIInv, ParamError, Answer
<1> DEFINE again == k \in DOMAIN writes /\ toStation[1].exists
<1>1. /\ ParamTyped /\ Shown(n) /\ Refused(n) /\ UNCHANGED <<facts, onBoard, treats>>
      /\ DOMAIN writes' = DOMAIN writes \ {k}
      /\ reads' = IF again THEN Asking(reads, k, FALSE) ELSE Without(reads, {k})
      /\ unread' = IF k \in DOMAIN reads /\ ~reads[k].quiet THEN unread \cup {k} ELSE unread
  BY ParamErrorFlows DEF ShownIInv, NewestIInv, ParamIInv, ParamError, vehicle
<1>2. CASE n # k
  <2>1. n \in DOMAIN reads => n \in DOMAIN reads' /\ reads'[n] = reads[n]
    BY <1>1, <1>2 DEF Without, Asking, With
  <2> QED BY <1>1, <1>2, <2>1, ShownStays
<1>3. CASE n = k /\ again
  <2>1. n \in DOMAIN reads' /\ reads'[n] = [sends |-> 1, quiet |-> FALSE]
    BY <1>1, <1>3 DEF Asking, With
  <2> QED BY <2>1 DEF Shown
<1>4. CASE n = k /\ ~again /\ k \in DOMAIN writes
  <2>1. 1 \in DOMAIN toStation /\ toStation[1].answer = "error"
    BY <1>1, ChannelsAre, EmptySeq DEF ParamError, Answer, ParamTyped
  <2>2. treats[n] = "lacks"
    BY <1>1, <1>4, <2>1 DEF Refused
  <2> QED BY <1>1, <2>2 DEF Shown
<1>5. CASE n = k /\ k \notin DOMAIN writes
  BY <1>1, <1>5 DEF Shown
<1> QED BY <1>2, <1>3, <1>4, <1>5

LEMMA VehicleAnswersShows ==
  ASSUME ShownIInv, VehicleAnswers, NEW n \in Names
  PROVE  Settled(n)' /\ Refused(n)' /\ Shown(n)'
<1>1. ParamTyped /\ Settled(n) /\ Refused(n) /\ Shown(n) /\ UNCHANGED <<facts, reads, writes, treats, unread>>
  BY DEF ShownIInv, NewestIInv, ParamIInv, VehicleAnswers, requests, reports
<1> PICK k \in Names, a \in Answers :
      /\ k = toVehicle[1].name /\ a.name = k /\ toStation' = Append(toStation, a)
      /\ VehicleTakes(1) /\ 1 \in DOMAIN toVehicle
      /\ \A i \in DOMAIN toVehicle' : i + 1 \in DOMAIN toVehicle
      /\ a.answer = "value" => a.value = onBoard'[k]
      /\ a.answer = "error" =>
           treats[k] \in {"refuses", "lacks"} /\ a.exists = (treats[k] # "lacks")
      /\ \/ onBoard' = onBoard
         \/ /\ IsSet(toVehicle[1], k) /\ treats[k] = "takes"
            /\ onBoard' = [onBoard EXCEPT ![k] = toVehicle[1].value]
  BY <1>1, AnswerIs
<1> PICK s : s = Len(toStation)
  OBVIOUS
<1>2. /\ s \in Nat /\ DOMAIN toStation = 1 .. s /\ DOMAIN toStation' = 1 .. s + 1
      /\ \A i \in DOMAIN toStation : toStation'[i] = toStation[i]
      /\ toStation'[s + 1] = a
  BY <1>1, AnswerIsLast
<1>3. \A i \in DOMAIN toVehicle' : i + 1 \in DOMAIN toVehicle /\ toVehicle'[i] = toVehicle[i + 1]
  BY DEF VehicleTakes
<1>4. \/ onBoard'[n] = onBoard[n]
      \/ IsSet(toVehicle[1], n) /\ treats[n] = "takes" /\ onBoard'[n] = toVehicle[1].value
  BY <1>1 DEF ParamTyped, IsSet
<1>5. ~(treats[n] = "takes" /\ n \in DOMAIN writes) => onBoard'[n] = onBoard[n]
  BY <1>1, <1>4 DEF Settled, AllSent
<1>6. Refused(n)'
  <2> SUFFICES ASSUME NEW i \in DOMAIN toStation', toStation'[i].answer = "error", toStation'[i].name = n
               PROVE  treats[n] \in {"refuses", "lacks"} /\ toStation'[i].exists = (treats[n] # "lacks")
    BY <1>1 DEF Refused
  <2>1. CASE i = s + 1
    BY <1>2, <2>1
  <2>2. CASE i # s + 1
    BY <1>1, <1>2, <2>2 DEF Refused
  <2> QED BY <2>1, <2>2
<1>7. ASSUME AllAnswer(n, onBoard[n]), onBoard'[n] = onBoard[n] PROVE AllAnswer(n, onBoard[n])'
  <2> SUFFICES ASSUME NEW i \in DOMAIN toStation', IsValue(toStation'[i], n)
               PROVE  toStation'[i].value = onBoard[n]
    BY <1>7 DEF AllAnswer, IsValue
  <2>1. CASE i = s + 1
    BY <1>2, <1>7, <2>1 DEF IsValue
  <2>2. CASE i # s + 1
    BY <1>2, <1>7, <2>2 DEF AllAnswer
  <2> QED BY <2>1, <2>2
<1>8. ASSUME AllSent(n, onBoard[n]), onBoard'[n] = onBoard[n] PROVE AllSent(n, onBoard[n])'
  BY <1>3, <1>8 DEF AllSent, IsSet
<1>9. Settled(n)'
  BY <1>1, <1>5, <1>7, <1>8 DEF Settled
<1>10. Shown(n)'
  BY <1>1, <1>5 DEF Shown
<1> QED BY <1>6, <1>9, <1>10

\* A write that gives up has nothing in flight; one that is acknowledged, nothing older.
LEMMA SettledSteps ==
  ASSUME ShownIInv, Fresh, Prompt, ParamNext, ~VehicleAnswers, NEW n \in Names
  PROVE  Settled(n)' /\ Refused(n)'
<1>1. ParamTyped /\ Settled(n) /\ Refused(n) /\ Flows
  BY AllFlow DEF ShownIInv, NewestIInv, ParamIInv
<1>2. ASSUME n \in DOMAIN writes, n \notin DOMAIN writes', treats[n] = "takes"
      PROVE  AllSent(n, onBoard[n]) /\ AllAnswer(n, onBoard[n])
  <2>1. ASSUME NEW m \in Names, NEW value \in Values, Write(m, value) PROVE FALSE
    BY <1>2, <2>1 DEF Write, With
  <2>2. ASSUME NEW m \in Names, NEW quiet \in BOOLEAN, ReadParam(m, quiet) PROVE FALSE
    BY <1>2, <2>2 DEF ReadParam
  <2>3. ASSUME NEW m \in Names, ReadTimesOut(m) PROVE FALSE
    BY <1>1, <1>2, <2>3, ReadTimesOutFlows
  <2>4. ASSUME NEW m \in Names, WriteTimesOut(m) PROVE AllSent(n, onBoard[n]) /\ AllAnswer(n, onBoard[n])
    <3>1. m = n
      BY <1>1, <1>2, <2>4, WriteTimesOutFlows
    <3>2. ~InTransit(n)
      BY <2>4, <3>1 DEF WriteTimesOut, Due
    <3> QED BY <3>2 DEF InTransit, AllSent, AllAnswer, IsSet, IsValue
  <2>5. CASE ParamValue
    BY <1>1, <1>2, <2>5, ParamValueFlows, AcknowledgedIsOnBoard DEF ShownIInv
  <2>6. CASE ParamError
    <3>1. n = toStation[1].name /\ toStation[1].answer = "error" /\ 1 \in DOMAIN toStation
      BY <1>1, <1>2, <2>6, ParamErrorFlows, ChannelsAre, EmptySeq DEF ParamError, Answer, ParamTyped
    <3> QED BY <1>1, <1>2, <3>1 DEF Refused
  <2>7. CASE Lose
    BY <1>2, <2>7 DEF Lose, requests
  <2> QED BY <2>1, <2>2, <2>3, <2>4, <2>5, <2>6, <2>7 DEF ParamNext, TimesOut
<1> QED BY <1>1, <1>2, SettledGoesOn

LEMMA ShownStep == ASSUME Fresh, Prompt, Apart, ShownIInv, [ParamNext]_paramVars PROVE ShownIInv'
<1>1. NewestIInv'
  BY NewestStep DEF ShownIInv
<1>2. CASE UNCHANGED paramVars
  BY <1>1, <1>2 DEF paramVars, ShownIInv, Settled, Refused, Shown, AllSent, AllAnswer, IsSet, IsValue
<1>3. CASE VehicleAnswers
  BY <1>1, <1>3, VehicleAnswersShows DEF ShownIInv
<1>4. CASE ParamNext /\ ~VehicleAnswers
  <2>1. \A n \in Names : Settled(n)' /\ Refused(n)'
    BY <1>4, SettledSteps
  <2>2. ASSUME NEW n \in Names, Lose PROVE Shown(n)'
    BY <2>2, ShownStays DEF Lose, requests, vehicle, reports, ShownIInv
  <2>3. ASSUME NEW n \in Names PROVE Shown(n)'
    BY <1>4, <2>2, WriteShows, ReadParamShows, ReadTimesOutShows, WriteTimesOutShows, ParamValueShows,
       ParamErrorShows DEF ParamNext, TimesOut
  <2> QED BY <1>1, <2>1, <2>3 DEF ShownIInv
<1> QED BY <1>2, <1>3, <1>4

\* When no value is written to a parameter twice, answers come in time and a calibration
\* does not take over a read of the operator's, the station ends up showing what the
\* vehicle has, or has reported that it could not read it (write shows the value at once;
\* on_param_value, on_param_error and request_timed_out put it right).
THEOREM ShownEndsRight == Fresh /\ Prompt /\ Apart => (ParamSpec => []ShownIsTheVehicles)
<1> SUFFICES ASSUME Fresh, Prompt, Apart PROVE ParamSpec => []ShownIsTheVehicles
  OBVIOUS
<1>1. ShownIInv => ShownIsTheVehicles
  BY DEF ShownIInv, Shown, ShownIsTheVehicles
<1>2. ShownIInv /\ [ParamNext]_paramVars => ShownIInv'
  BY ShownStep
<1> QED BY <1>1, <1>2, ShownInit, PTL DEF ParamSpec

-----------------------------------------------------------------------------
(* The initial connect (Connect).                                          *)

\* What the handlers do not keep others from doing, and that the autopilot's parameters are
\* heard, without which the load may stop unreported.
Undisturbed ==
  /\ ~Unheard
  /\ RefreshesAt \subseteq Parameters .. Complete
  /\ ValuesAt \subseteq Parameters .. Complete
  /\ JobsAt \subseteq Parameters .. Complete
  /\ GuidedAt \subseteq GeoFence .. Complete

\* Before its step an engine is at rest.
NothingEarly ==
  /\ step < Parameters => ~loading /\ ~packDue /\ ~job /\ fetch # "Pack"
  /\ loaded => step > Parameters
  /\ \A plan \in Plans : plans[plan] = "GuidedItem" => plan = Mission /\ step > Mission

ConnectInv == TypeOK /\ StepIsUnderWay /\ NothingOutlivesItsStep /\ FilesTakeTurns /\ NothingEarly

USE DEF AutopilotVersion, StandardModes, ComponentInformation, Parameters, Mission,
        GeoFence, RallyPoints, Complete

-----------------------------------------------------------------------------
(* advance stops at a step from the one it is given on, and stops at none  *)
(* that is passed by.                                                      *)

\* There is a step to stop at: Complete is passed by by none.
LEMMA SomeStop ==
  ASSUME NEW s \in Steps
  PROVE  \E t \in s .. Complete :
           /\ t = Complete \/ t \notin Skipped
           /\ \A u \in s .. t - 1 : u \in Skipped
<1> DEFINE Found(r) == \E t \in r .. Complete :
             /\ t = Complete \/ t \notin Skipped
             /\ \A u \in r .. t - 1 : u \in Skipped
<1>1. Found(8) OBVIOUS
<1>2. ASSUME NEW r \in 1 .. 7, Found(r + 1) PROVE Found(r)
  <2>1. CASE r \notin Skipped
    <3>1. r \in r .. Complete /\ \A u \in r .. r - 1 : u \in Skipped
      OBVIOUS
    <3> QED BY <2>1, <3>1
  <2>2. CASE r \in Skipped
    <3>1. PICK t \in r + 1 .. Complete :
            /\ t = Complete \/ t \notin Skipped
            /\ \A u \in r + 1 .. t - 1 : u \in Skipped
      BY <1>2
    <3>2. \A u \in r .. t - 1 : u \in Skipped
      BY <2>2, <3>1
    <3> QED BY <3>1, <3>2
  <2> QED BY <2>1, <2>2
<1> HIDE DEF Found
<1>3. Found(7) BY <1>1, <1>2
<1>4. Found(6) BY <1>2, <1>3
<1>5. Found(5) BY <1>2, <1>4
<1>6. Found(4) BY <1>2, <1>5
<1>7. Found(3) BY <1>2, <1>6
<1>8. Found(2) BY <1>2, <1>7
<1>9. Found(1) BY <1>2, <1>8
<1>10. s \in {1, 2, 3, 4, 5, 6, 7, 8}
  BY DEF Steps
<1>11. Found(s)
  BY <1>1, <1>3, <1>4, <1>5, <1>6, <1>7, <1>8, <1>9, <1>10
<1> QED BY <1>11 DEF Found

LEMMA StopType ==
  ASSUME NEW s \in Steps
  PROVE  /\ Stop(s) \in s .. Complete
         /\ Stop(s) \in Steps
         /\ Stop(s) = Complete \/ Stop(s) \notin Skipped
         /\ \A u \in s .. Stop(s) - 1 : u \in Skipped
<1>1. /\ Stop(s) \in s .. Complete
      /\ Stop(s) = Complete \/ Stop(s) \notin Skipped
      /\ \A u \in s .. Stop(s) - 1 : u \in Skipped
  BY SomeStop DEF Stop
<1> QED BY <1>1 DEF Steps

-----------------------------------------------------------------------------
(* The invariant holds at first.                                           *)

\* Where a connect begins: at no step that needs a load or a transfer.
LEMMA FirstStep == Init => step \in {AutopilotVersion, StandardModes, Complete}
<1> SUFFICES ASSUME Init PROVE step \in {AutopilotVersion, StandardModes, Complete}
  OBVIOUS
<1>1. 1 \in Steps /\ step = Stop(1) /\ step \in 1 .. 8
  BY StopType DEF Init, Steps
<1>2. CASE Replay
  <2>1. Skipped \subseteq Steps /\ \A u \in 1 .. 7 : u \in Skipped
    BY <1>2 DEF Skipped, Quiet, SkipsParameters, CacheOnly, Plans, Steps
  <2>2. step = Complete
    BY <1>1, <2>1, StopType
  <2> QED BY <2>2
<1>3. CASE ~Replay
  <2>1. 2 \notin Skipped
    BY <1>3 DEF Skipped, Plans
  <2>2. step \in {1, 2}
    BY <1>1, <2>1, StopType
  <2> QED BY <2>2
<1> QED BY <1>2, <1>3

LEMMA InitInv == Init => ConnectInv
<1> SUFFICES ASSUME Init PROVE ConnectInv
  OBVIOUS
<1> USE ConstantsAssumption, FirstStep DEF ConstantsAssumption
<1>a. asked \in Messages \cup {None}
  BY DEF Init, Messages, AsksOf
<1>b. step \in Steps /\ mode \in 1 .. Modes
  BY DEF Init, Steps
<1>c. plans \in [Plans -> Transfers]
  BY DEF Init, Transfers
<1>d. packRetries \in 0 .. MaxRetry + 1 /\ refreshes \in 0 .. MaxRefreshes
  BY DEF Init
<1>1. TypeOK
  BY <1>a, <1>b, <1>c, <1>d DEF Init, TypeOK
<1>2. StepIsUnderWay /\ NothingOutlivesItsStep
  BY DEF Init, StepIsUnderWay, NothingOutlivesItsStep, AsksOf, Plans, Metadata, None
<1>3. FilesTakeTurns /\ NothingEarly
  BY DEF Init, FilesTakeTurns, NothingEarly, Plans, None
<1> QED BY <1>1, <1>2, <1>3 DEF ConnectInv

-----------------------------------------------------------------------------
(* What a step that ends, and what then begins, does to each engine.       *)

StepMoves == step' \in Steps /\ (step' # step => step' > step)

\* An end that is reported ends the current step or none.
LEMMA StepDoneMoves ==
  ASSUME ConnectInv, NEW s \in 1 .. 7, StepDone(s)
  PROVE  StepMoves /\ (step' # step => step = s) /\ step' # s
<1>1. s + 1 \in Steps
  BY DEF Steps
<1>2. CASE step = s
  BY <1>1, <1>2, StopType DEF StepDone, StepMoves, Steps
<1>3. CASE step # s
  BY <1>3 DEF StepDone, StepMoves, ConnectInv, TypeOK
<1> QED BY <1>2, <1>3

\* The connect asks for what the step it reached needs, and for nothing else.
LEMMA MessagesMove ==
  ASSUME ConnectInv, StepMoves, MessagesFollow
  PROVE  /\ asked' \in Messages \cup {None} /\ mode' \in 1 .. Modes
         /\ step' # step => asked' = AsksOf(step')
         /\ step' = step => asked' = asked
<1>1. AsksOf(step') \in Messages \cup {None}
  BY DEF AsksOf, Messages
<1>2. asked' \in Messages \cup {None}
  BY <1>1 DEF MessagesFollow, ConnectInv, TypeOK
<1>3. mode' \in 1 .. Modes
  BY ConstantsAssumption DEF ConstantsAssumption, MessagesFollow, ConnectInv, TypeOK
<1> QED BY <1>2, <1>3 DEF MessagesFollow

\* A plan's step has a transfer that reports, unless a guided item is in its way.
LEMMA PlansMove ==
  ASSUME ConnectInv, StepMoves, NEW now \in [Plans -> Transfers], PlansFollow(now),
         \A plan \in Plans : now[plan] = "GuidedItem" => plan = Mission /\ step > Mission,
         step' = step /\ step \in Plans => now[step] = "Transfer"
  PROVE  /\ plans' \in [Plans -> Transfers]
         /\ step' \in Plans => plans'[step'] = "Transfer"
         /\ \A plan \in Plans :
              plans'[plan] = "GuidedItem" => plan = Mission /\ step' > Mission
<1>1. plans' \in [Plans -> Transfers]
  BY DEF PlansFollow, Transfers
<1>2. ASSUME NEW plan \in Plans
      PROVE  plans'[plan] = IF Begins(plan) /\ now[plan] = "Idle" THEN "Transfer" ELSE now[plan]
  BY DEF PlansFollow
<1>3. step' \in Plans => plans'[step'] = "Transfer"
  BY <1>2 DEF Begins, StepMoves, Steps, Plans, Transfers, ConnectInv, TypeOK
<1>4. ASSUME NEW plan \in Plans, plans'[plan] = "GuidedItem"
      PROVE  plan = Mission /\ step' > Mission
  BY <1>2, <1>4 DEF StepMoves, Steps, ConnectInv, TypeOK
<1> QED BY <1>1, <1>3, <1>4

\* The same, of an engine that leaves the transfers alone.
LEMMA PlansKept ==
  ASSUME ConnectInv, StepMoves, PlansFollow(plans)
  PROVE  /\ plans' \in [Plans -> Transfers]
         /\ step' \in Plans => plans'[step'] = "Transfer"
         /\ \A plan \in Plans :
              plans'[plan] = "GuidedItem" => plan = Mission /\ step' > Mission
BY PlansMove DEF ConnectInv, TypeOK, StepIsUnderWay, NothingEarly

\* The parameter step begins with a timer or a download, of ArduPilot's file only while
\* no other transfer over FTP is under way.
LEMMA ParametersMove ==
  ASSUME ConnectInv, StepMoves, NEW freed \in {fetch, None}, ParametersFollow(freed)
  PROVE  /\ loading' \in BOOLEAN /\ loaded' \in BOOLEAN /\ packDue' \in BOOLEAN
         /\ step' = step => /\ loading' = loading /\ loaded' = loaded
                            /\ packDue' = packDue /\ fetch' = freed
         /\ Begins(Parameters) => loading' \/ packDue' \/ fetch' = "Pack"
         /\ fetch' = freed \/ (fetch' = "Pack" /\ freed = None /\ ~job /\ step' = Parameters)
         /\ loaded' => step' > Parameters
         /\ (loading' /\ ~loading) \/ (packDue' /\ ~packDue) => step' = Parameters
<1> USE DEF ParametersFollow, StartPack, StartDownload, Begins, Passes
<1>1. loading' \in BOOLEAN /\ loaded' \in BOOLEAN /\ packDue' \in BOOLEAN
  BY DEF ConnectInv, TypeOK
<1>2. step' = step => /\ loading' = loading /\ loaded' = loaded
                      /\ packDue' = packDue /\ fetch' = freed
  BY DEF ConnectInv, TypeOK, StepMoves, Steps
<1>3. Begins(Parameters) => ~loaded
  BY DEF ConnectInv, TypeOK, NothingEarly, StepMoves, Steps
<1>4. Begins(Parameters) => loading' \/ packDue' \/ fetch' = "Pack"
  BY <1>3
<1>5. fetch' = freed \/ (fetch' = "Pack" /\ freed = None /\ ~job /\ step' = Parameters)
  OBVIOUS
<1>6. loaded' => step' > Parameters
  BY DEF ConnectInv, TypeOK, NothingEarly, StepMoves, Steps
<1>7. (loading' /\ ~loading) \/ (packDue' /\ ~packDue) => step' = Parameters
  OBVIOUS
<1> QED BY <1>1, <1>2, <1>4, <1>5, <1>6, <1>7

-----------------------------------------------------------------------------
(* Each action keeps the invariant.                                        *)

\* A message or a download of metadata that ends its step.
LEMMA Followed ==
  ASSUME ConnectInv, StepMoves, step' # step, NEW freed \in {fetch, None}, Follow(plans, freed),
         supported' \subseteq {GeoFence, RallyPoints}, fallback' \in BOOLEAN,
         http' = None, freed \notin Metadata,
         UNCHANGED <<job, packDeclined, packRetries, link, refreshes>>
  PROVE  ConnectInv'
<1>1. /\ MessagesFollow /\ ParametersFollow(freed) /\ PlansFollow(plans)
      /\ UNCHANGED job
  BY DEF Follow
<1>2. fetch' \in {freed, "Pack"}
  BY <1>1, ParametersMove
<1>3. TypeOK'
  BY <1>1, <1>2, MessagesMove, ParametersMove, PlansKept
     DEF ConnectInv, TypeOK, StepMoves, link, Metadata, None
<1>4. StepIsUnderWay'
  BY <1>1, MessagesMove, ParametersMove, PlansKept
     DEF StepIsUnderWay, AsksOf, Plans, Begins, StepMoves, Steps, ConnectInv, TypeOK
<1>5. NothingOutlivesItsStep'
  BY <1>1, <1>2, MessagesMove
     DEF NothingOutlivesItsStep, AsksOf, StepMoves, Steps, Metadata, None
<1>6. FilesTakeTurns'
  BY <1>1, ParametersMove DEF FilesTakeTurns, ConnectInv, TypeOK
<1>7. NothingEarly'
  BY <1>1, <1>2, ParametersMove, PlansKept
     DEF NothingEarly, ConnectInv, TypeOK, StepMoves, Steps, None
<1> QED BY <1>3, <1>4, <1>5, <1>6, <1>7 DEF ConnectInv

LEMMA VersionAnsweredInv == ConnectInv /\ VersionAnswered => ConnectInv'
<1> SUFFICES ASSUME ConnectInv, VersionAnswered PROVE ConnectInv'
  OBVIOUS
<1>1. step = AutopilotVersion /\ http = None /\ fetch \notin Metadata /\ fallback \in BOOLEAN
  BY DEF VersionAnswered, ConnectInv, NothingOutlivesItsStep, TypeOK
<1>2. StepMoves /\ step' # step
  <2>1. 2 \in Steps /\ step' = Stop(2)
    BY <1>1 DEF Steps, VersionAnswered
  <2> QED BY <1>1, <2>1, StopType DEF StepMoves, Steps
<1>3. /\ supported' \subseteq {GeoFence, RallyPoints} /\ Follow(plans, fetch)
      /\ fallback' \in BOOLEAN /\ http' = None
      /\ UNCHANGED <<job, packDeclined, packRetries, link, refreshes>>
  BY <1>1 DEF VersionAnswered, metadata
<1> QED BY <1>1, <1>2, <1>3, Followed

\* What ModeReceived, ModeFailed and InformationFailed have in common.
LEMMA StepAnswered ==
  ASSUME ConnectInv, NEW s \in {StandardModes, ComponentInformation}, step = s, StepDone(s),
         asked # None, Follow(plans, fetch),
         UNCHANGED <<supported, metadata, job, packDeclined, packRetries, link, refreshes>>
  PROVE  ConnectInv'
<1>1. http = None /\ fetch \notin Metadata /\ fallback \in BOOLEAN
  BY DEF ConnectInv, NothingOutlivesItsStep, TypeOK
<1>2. StepMoves /\ step' # step
  BY StepDoneMoves
<1>3. /\ supported' \subseteq {GeoFence, RallyPoints}
      /\ fallback' \in BOOLEAN /\ http' = None
      /\ UNCHANGED <<job, packDeclined, packRetries, link, refreshes>>
  BY <1>1 DEF metadata, ConnectInv, TypeOK
<1> QED BY <1>1, <1>2, <1>3, Followed

LEMMA ModeReceivedInv == ConnectInv /\ ModeReceived => ConnectInv'
<1> SUFFICES ASSUME ConnectInv, ModeReceived PROVE ConnectInv'
  OBVIOUS
<1>1. step = StandardModes /\ asked # None
  BY DEF ModeReceived, ConnectInv, NothingOutlivesItsStep, None
<1>2. CASE ModesEnd
  BY <1>1, <1>2, StepAnswered DEF ModeReceived
<1>3. CASE ~ModesEnd
  <2>1. /\ mode' = mode + 1
        /\ UNCHANGED <<step, asked, fetch, packDue, loading, loaded, plans>>
        /\ UNCHANGED <<supported, metadata, job, packDeclined, packRetries, link, refreshes>>
    BY <1>3 DEF ModeReceived
  <2>2. mode' \in 1 .. Modes
    BY <1>3, <2>1, ConstantsAssumption DEF ConstantsAssumption, ModesEnd, ConnectInv, TypeOK
  <2>3. TypeOK'
    BY <2>1, <2>2 DEF ConnectInv, TypeOK, metadata, link
  <2>4. /\ StepIsUnderWay' /\ NothingOutlivesItsStep'
        /\ FilesTakeTurns' /\ NothingEarly'
    BY <2>1 DEF ConnectInv, metadata, StepIsUnderWay, NothingOutlivesItsStep, FilesTakeTurns,
                NothingEarly
  <2> QED BY <2>3, <2>4 DEF ConnectInv
<1> QED BY <1>2, <1>3

LEMMA RequestFailedInv ==
  ConnectInv /\ (ModeFailed \/ MetadataFailed \/ InformationFailed) => ConnectInv'
<1> SUFFICES ASSUME ConnectInv, ModeFailed \/ MetadataFailed \/ InformationFailed PROVE ConnectInv'
  OBVIOUS
<1>1. CASE ModeFailed
  <2>1. step = StandardModes /\ asked # None
    BY <1>1 DEF ModeFailed, ConnectInv, NothingOutlivesItsStep, None
  <2> QED BY <1>1, <2>1, StepAnswered DEF ModeFailed
<1>2. CASE InformationFailed
  <2>1. step = ComponentInformation /\ asked # None
    BY <1>2 DEF InformationFailed, ConnectInv, NothingOutlivesItsStep, None
  <2> QED BY <1>2, <2>1, StepAnswered DEF InformationFailed
<1>3. CASE MetadataFailed
  <2>1. TypeOK'
    BY <1>3 DEF MetadataFailed, ConnectInv, TypeOK, Messages, metadata, pack, link
  <2>2. /\ StepIsUnderWay' /\ NothingOutlivesItsStep'
        /\ FilesTakeTurns' /\ NothingEarly'
    BY <1>3 DEF MetadataFailed, ConnectInv, metadata, pack, StepIsUnderWay,
                NothingOutlivesItsStep, FilesTakeTurns, NothingEarly, None
  <2> QED BY <2>1, <2>2 DEF ConnectInv
<1> QED BY <1>1, <1>2, <1>3

\* A download of metadata begins, in its step.
LEMMA FetchStarted ==
  ASSUME ConnectInv, step = ComponentInformation, NEW freed \in {fetch, None}, freed \notin Metadata,
         NEW kind \in Metadata, NEW another \in BOOLEAN, StartFetch(kind, another, freed),
         http' \in {kind, None},
         UNCHANGED <<supported, job, packDeclined, packRetries, link, refreshes>>
  PROVE  ConnectInv'
<1>1. ~job /\ fetch # "Pack"
  BY DEF ConnectInv, NothingEarly
<1>2. \/ fetch' = kind /\ http' = None
      \/ fetch' = freed /\ http' = kind
  BY DEF StartFetch
<1>3. /\ asked' = None /\ fallback' = another
      /\ UNCHANGED <<step, mode, packDue, loading, loaded, plans>>
      /\ UNCHANGED <<supported, job, packDeclined, packRetries, link, refreshes>>
  BY DEF StartFetch
<1>4. TypeOK'
  BY <1>2, <1>3 DEF ConnectInv, TypeOK, link
<1>5. StepIsUnderWay'
  BY <1>2, <1>3 DEF StepIsUnderWay, Plans, Metadata, None
<1>6. NothingOutlivesItsStep'
  BY <1>2, <1>3 DEF NothingOutlivesItsStep, Metadata, None
<1>7. FilesTakeTurns' /\ NothingEarly'
  BY <1>1, <1>2, <1>3 DEF FilesTakeTurns, NothingEarly, Metadata, None, ConnectInv
<1> QED BY <1>4, <1>5, <1>6, <1>7 DEF ConnectInv

\* The metadata goes on to its next kind, or its step ends.
LEMMA GoneOn ==
  ASSUME ConnectInv, step = ComponentInformation, NEW freed \in {fetch, None}, freed \notin Metadata,
         NEW kind \in Metadata, GoOn(kind, freed),
         UNCHANGED <<supported, job, packDeclined, packRetries, link, refreshes>>
  PROVE  ConnectInv'
<1>1. CASE \E next \in After(kind), another \in BOOLEAN : StartFetch(next, another, freed)
  <2>1. PICK next \in After(kind), another \in BOOLEAN : StartFetch(next, another, freed)
    BY <1>1
  <2>2. next \in Metadata
    BY DEF After, Metadata
  <2>3. http' \in {next, None}
    BY <2>1 DEF StartFetch
  <2> QED BY <2>1, <2>2, <2>3, FetchStarted
<1>2. CASE /\ StepDone(ComponentInformation)
           /\ Follow(plans, freed)
           /\ http' = None /\ fallback' = FALSE
  <2>1. StepMoves /\ step' # step
    BY <1>2, StepDoneMoves
  <2>2. supported' \subseteq {GeoFence, RallyPoints}
    BY DEF ConnectInv, TypeOK
  <2> QED BY <1>2, <2>1, <2>2, Followed
<1> QED BY <1>1, <1>2 DEF GoOn

LEMMA MetadataInv == ConnectInv /\ (GeneralNamed \/ FtpMetadataEnds \/ HttpEnds) => ConnectInv'
<1> SUFFICES ASSUME ConnectInv, GeneralNamed \/ FtpMetadataEnds \/ HttpEnds PROVE ConnectInv'
  OBVIOUS
<1>1. ASSUME NEW kind \in Metadata, NEW freed \in {fetch, None}, FetchEnded(kind, freed),
             freed \notin Metadata, step = ComponentInformation
      PROVE  ConnectInv'
  <2>1. UNCHANGED <<supported, job, packDeclined, packRetries, link, refreshes>>
    BY <1>1 DEF FetchEnded
  <2>2. CASE GoOn(kind, freed)
    BY <1>1, <2>1, <2>2, GoneOn
  <2>3. CASE StartFetch(kind, FALSE, freed)
    <3>1. http' \in {kind, None}
      BY <2>3 DEF StartFetch
    <3> QED BY <1>1, <2>1, <2>3, <3>1, FetchStarted
  <2> QED BY <1>1, <2>2, <2>3 DEF FetchEnded
<1>2. CASE GeneralNamed
  <2>1. step = ComponentInformation /\ fetch \notin Metadata
    BY <1>2 DEF GeneralNamed, ConnectInv, NothingOutlivesItsStep, None
  <2>2. UNCHANGED <<supported, job, packDeclined, packRetries, link, refreshes>>
    BY <1>2 DEF GeneralNamed
  <2>3. "General" \in Metadata
    BY DEF Metadata
  <2>4. CASE StartFetch("General", FALSE, fetch)
    <3>1. http' \in {"General", None}
      BY <2>4 DEF StartFetch
    <3> QED BY <2>1, <2>2, <2>3, <2>4, <3>1, FetchStarted
  <2>5. CASE GoOn("General", fetch)
    BY <2>1, <2>2, <2>3, <2>5, GoneOn
  <2> QED BY <1>2, <2>4, <2>5 DEF GeneralNamed
<1>3. CASE FtpMetadataEnds
  <2>1. fetch \in Metadata /\ FetchEnded(fetch, None) /\ step = ComponentInformation
    BY <1>3 DEF FtpMetadataEnds, ConnectInv, NothingOutlivesItsStep
  <2>2. None \notin Metadata
    BY DEF None, Metadata
  <2> QED BY <1>1, <2>1, <2>2
<1>4. CASE HttpEnds
  <2>1. http \in Metadata /\ FetchEnded(http, fetch) /\ step = ComponentInformation
    BY <1>4 DEF HttpEnds, ConnectInv, TypeOK, NothingOutlivesItsStep
  <2>2. fetch \notin Metadata
    BY <1>4 DEF HttpEnds, ConnectInv, NothingOutlivesItsStep, TypeOK
  <2> QED BY <1>1, <2>1, <2>2
<1> QED BY <1>2, <1>3, <1>4

\* The parameter step goes on: a timer or a download is left.
LEMMA ParametersKept ==
  ASSUME ConnectInv, step >= Parameters, UNCHANGED <<step, messages, plans, loaded, Unshared>>,
         loading' \in BOOLEAN, packDue' \in BOOLEAN, packDeclined' \in BOOLEAN,
         packRetries' \in 0 .. MaxRetry + 1, refreshes' \in 0 .. MaxRefreshes,
         fetch' \in {fetch, None, "Pack"}, fetch' = "Pack" /\ fetch # "Pack" => ~job,
         step = Parameters => loading' \/ packDue' \/ fetch' = "Pack"
  PROVE  ConnectInv'
<1>1. /\ UNCHANGED <<step, asked, mode, plans, loaded>>
      /\ UNCHANGED <<supported, http, fallback, job, highLatency, flying>>
  BY DEF messages, metadata, link, Unshared
<1>2. step \in Steps /\ fetch \notin Metadata
  BY DEF ConnectInv, TypeOK, NothingOutlivesItsStep
<1>3. TypeOK'
  BY <1>1 DEF ConnectInv, TypeOK
<1>4. StepIsUnderWay'
  BY <1>1, <1>2 DEF ConnectInv, StepIsUnderWay, Plans, Steps
<1>5. NothingOutlivesItsStep'
  BY <1>1, <1>2 DEF ConnectInv, NothingOutlivesItsStep, Metadata, None
<1>6. FilesTakeTurns' /\ NothingEarly'
  BY <1>1, <1>2 DEF ConnectInv, FilesTakeTurns, NothingEarly, Steps
<1> QED BY <1>3, <1>4, <1>5, <1>6 DEF ConnectInv

\* From the parameter step on an end is reported, and the parameter step is over.
LEMMA ParametersOver ==
  ASSUME ConnectInv, step >= Parameters, StepMoves, step' # Parameters, MessagesFollow,
         NEW now \in [Plans -> Transfers], PlansFollow(now),
         \A plan \in Plans : now[plan] = "GuidedItem" => plan = Mission /\ step > Mission,
         step' = step /\ step \in Plans => now[step] = "Transfer",
         UNCHANGED Unshared, loading' \in BOOLEAN, loaded' \in BOOLEAN,
         packDue' \in BOOLEAN, packDeclined' \in BOOLEAN,
         packRetries' \in 0 .. MaxRetry + 1, refreshes' \in 0 .. MaxRefreshes,
         fetch' \in {fetch, None}
  PROVE  ConnectInv'
<1>1. UNCHANGED <<supported, http, fallback, job, highLatency, flying>>
  BY DEF metadata, link, Unshared
<1>2. /\ step \in Steps /\ step' \in Steps /\ step' > Parameters
      /\ fetch \notin Metadata /\ http = None /\ asked = None
  BY DEF ConnectInv, TypeOK, NothingOutlivesItsStep, StepMoves, Steps, Messages
<1>3. asked' = None /\ mode' \in 1 .. Modes
  BY <1>2, MessagesMove DEF AsksOf
<1>4. /\ plans' \in [Plans -> Transfers]
      /\ step' \in Plans => plans'[step'] = "Transfer"
      /\ \A plan \in Plans :
           plans'[plan] = "GuidedItem" => plan = Mission /\ step' > Mission
  BY PlansMove
<1>5. TypeOK'
  BY <1>1, <1>2, <1>3, <1>4 DEF ConnectInv, TypeOK
<1>6. StepIsUnderWay'
  BY <1>2, <1>4 DEF StepIsUnderWay
<1>7. NothingOutlivesItsStep'
  BY <1>1, <1>2, <1>3 DEF NothingOutlivesItsStep, Metadata, None
<1>8. FilesTakeTurns' /\ NothingEarly'
  BY <1>1, <1>2, <1>4 DEF ConnectInv, FilesTakeTurns, NothingEarly, Steps
<1> QED BY <1>5, <1>6, <1>7, <1>8 DEF ConnectInv

\* The plans are as the actions of the parameters leave them.
LEMMA PlansAsTheyAre ==
  ASSUME ConnectInv
  PROVE  /\ plans \in [Plans -> Transfers]
         /\ \A plan \in Plans : plans[plan] = "GuidedItem" => plan = Mission /\ step > Mission
         /\ step \in Plans => plans[step] = "Transfer"
BY DEF ConnectInv, TypeOK, StepIsUnderWay, NothingEarly

LEMMA LoadInv == Undisturbed /\ ConnectInv /\ (LoadReady \/ LoadFails \/ LoadEndsUnheard) => ConnectInv'
<1> SUFFICES ASSUME Undisturbed, ConnectInv, LoadReady \/ LoadFails \/ LoadEndsUnheard PROVE ConnectInv'
  OBVIOUS
<1>1. step >= Parameters /\ step \in Steps
  BY DEF LoadReady, LoadFails, LoadEndsUnheard, ConnectInv, NothingEarly, TypeOK, Steps
<1>2. /\ loaded \in BOOLEAN /\ packDue \in BOOLEAN /\ packDeclined \in BOOLEAN
      /\ packRetries \in 0 .. MaxRetry + 1 /\ refreshes \in 0 .. MaxRefreshes
  BY DEF ConnectInv, TypeOK
<1>3. CASE LoadReady \/ LoadFails
  <2>1. /\ StepDone(Parameters) /\ MessagesFollow /\ PlansFollow(plans)
        /\ UNCHANGED <<fetch, pack, Unshared, refreshes>>
        /\ loading' \in BOOLEAN /\ loaded' \in BOOLEAN
    BY <1>2, <1>3 DEF LoadReady, LoadFails
  <2>2. StepMoves /\ step' # Parameters
    BY <2>1, StepDoneMoves
  <2> QED BY <1>1, <1>2, <2>1, <2>2, PlansAsTheyAre, ParametersOver DEF pack
<1>4. CASE LoadEndsUnheard
  <2>1. loading' \in BOOLEAN /\ step # Parameters
    BY <1>4 DEF Undisturbed, LoadEndsUnheard, ConnectInv, NothingEarly, TypeOK, Steps
  <2>2. UNCHANGED <<step, messages, plans, loaded, fetch, pack, Unshared, refreshes>>
    BY <1>4 DEF LoadEndsUnheard
  <2> QED BY <1>1, <1>2, <2>1, <2>2, ParametersKept DEF pack
<1> QED BY <1>3, <1>4

\* Params.on_initial_timeout, in the actions of ArduPilot's file.
LEMMA InitialTimeoutInv ==
  ASSUME ConnectInv, step >= Parameters, InitialTimeout, UNCHANGED <<loaded, Unshared, refreshes>>,
         packDue' \in BOOLEAN, packDeclined' \in BOOLEAN, packRetries' \in 0 .. MaxRetry + 1,
         fetch' \in {fetch, None}
  PROVE  ConnectInv'
<1>1. /\ loaded' \in BOOLEAN /\ refreshes' \in 0 .. MaxRefreshes /\ loading \in BOOLEAN
      /\ step \in Steps
  BY DEF ConnectInv, TypeOK
<1>2. CASE StartDownload /\ UNCHANGED <<step, messages, plans>>
  <2>1. loading' \in BOOLEAN /\ (step = Parameters => loading')
    BY <1>1, <1>2 DEF StartDownload, ConnectInv, StepIsUnderWay
  <2>2. fetch' = "Pack" /\ fetch # "Pack" => ~job
    BY DEF None
  <2> QED BY <1>1, <1>2, <2>1, <2>2, ParametersKept
<1>3. CASE ParametersDone
  <2>1. StepDone(Parameters) /\ MessagesFollow /\ PlansFollow(plans) /\ loading' \in BOOLEAN
    BY <1>1, <1>3 DEF ParametersDone
  <2>2. StepMoves /\ step' # Parameters
    BY <2>1, StepDoneMoves
  <2> QED BY <1>1, <2>1, <2>2, PlansAsTheyAre, ParametersOver
<1> QED BY <1>2, <1>3 DEF InitialTimeout

LEMMA PackInv ==
  ASSUME ConnectInv, \/ PackProgress \/ PackReceived
              \/ \E absent, early \in BOOLEAN : PackFailed(absent, early)
  PROVE  ConnectInv'
<1>1. step >= Parameters /\ step \in Steps /\ fetch = "Pack"
  BY DEF PackProgress, PackReceived, PackFailed, ConnectInv, NothingEarly, TypeOK, Steps
<1>2. /\ loaded \in BOOLEAN /\ loading \in BOOLEAN /\ packDue \in BOOLEAN
      /\ packDeclined \in BOOLEAN /\ packRetries \in 0 .. MaxRetry + 1
      /\ refreshes \in 0 .. MaxRefreshes
  BY DEF ConnectInv, TypeOK
<1>3. CASE PackProgress
  <2>1. /\ packDue' = FALSE /\ UNCHANGED <<step, messages, plans, loading>>
        /\ UNCHANGED <<fetch, packDeclined, packRetries, loaded, Unshared, refreshes>>
    BY <1>3 DEF PackProgress, Nothing
  <2> QED BY <1>1, <1>2, <2>1, ParametersKept
<1>4. CASE PackReceived
  <2>1. /\ packDue' = FALSE /\ fetch' = None /\ loaded' = TRUE
        /\ UNCHANGED <<packDeclined, packRetries, Unshared, refreshes>>
    BY <1>4 DEF PackReceived
  <2>2. CASE loaded
    <3>1. UNCHANGED <<step, messages, plans, loading>> /\ loaded' = loaded
      BY <1>2, <1>4, <2>1, <2>2 DEF PackReceived, Nothing
    <3>2. step # Parameters
      BY <2>2 DEF ConnectInv, NothingEarly
    <3>3. fetch' = "Pack" /\ fetch # "Pack" => ~job
      BY <1>1
    <3> QED BY <1>1, <1>2, <2>1, <3>1, <3>2, <3>3, ParametersKept
  <2>3. CASE ~loaded
    <3>1. /\ StepDone(Parameters) /\ MessagesFollow /\ PlansFollow(plans)
          /\ UNCHANGED loading
      BY <1>4, <2>3 DEF PackReceived, ParametersDone
    <3>2. StepMoves /\ step' # Parameters
      BY <3>1, StepDoneMoves
    <3> QED BY <1>1, <1>2, <2>1, <3>1, <3>2, PlansAsTheyAre, ParametersOver
  <2> QED BY <2>2, <2>3
<1>5. ASSUME NEW absent \in BOOLEAN, NEW early \in BOOLEAN, PackFailed(absent, early)
      PROVE  ConnectInv'
  <2>1. /\ fetch' = None /\ UNCHANGED <<loaded, Unshared, refreshes>>
        /\ packDeclined' \in BOOLEAN /\ packRetries' \in 0 .. MaxRetry + 1
    BY <1>2, <1>5, ConstantsAssumption DEF ConstantsAssumption, PackFailed
  <2>2. CASE absent /\ packRetries = 0
    <3>1. packDue' = FALSE /\ InitialTimeout
      BY <1>5, <2>2 DEF PackFailed
    <3> QED BY <1>1, <2>1, <3>1, InitialTimeoutInv
  <2>3. CASE ~(absent /\ packRetries = 0)
    <3>1. packDue' = TRUE /\ UNCHANGED <<step, messages, plans, loading>>
      BY <1>5, <2>3 DEF PackFailed, RetryPack, Nothing
    <3>2. fetch' = "Pack" /\ fetch # "Pack" => ~job
      BY <1>1
    <3> QED BY <1>1, <1>2, <2>1, <3>1, <3>2, ParametersKept
  <2> QED BY <2>2, <2>3
<1> QED BY <1>3, <1>4, <1>5

LEMMA PackTimerInv == ConnectInv /\ PackTimer => ConnectInv'
<1> SUFFICES ASSUME ConnectInv, PackTimer PROVE ConnectInv'
  OBVIOUS
<1>1. step >= Parameters /\ step \in Steps
  BY DEF PackTimer, ConnectInv, NothingEarly, TypeOK, Steps
<1>2. /\ loaded \in BOOLEAN /\ loading \in BOOLEAN /\ packDeclined \in BOOLEAN
      /\ packRetries \in 0 .. MaxRetry + 1 /\ refreshes \in 0 .. MaxRefreshes
  BY DEF ConnectInv, TypeOK
<1>3. UNCHANGED <<packDeclined, loaded, Unshared, refreshes>>
  BY DEF PackTimer
<1>4. CASE ~TriesPack
  <2>1. packDue' = FALSE /\ InitialTimeout /\ UNCHANGED <<fetch, packRetries>>
    BY <1>4 DEF PackTimer
  <2> QED BY <1>1, <1>2, <1>3, <2>1, InitialTimeoutInv
<1>5. CASE TriesPack /\ packRetries < MaxRetry
  <2>1. StartPack(fetch) /\ UNCHANGED <<step, messages, plans, loading>>
    BY <1>5 DEF PackTimer, Nothing
  <2>2. packRetries' \in 0 .. MaxRetry + 1
    BY <1>2, <1>5, ConstantsAssumption DEF ConstantsAssumption, PackTimer, MoreRetries
  <2>3. /\ packDue' \in BOOLEAN /\ (step = Parameters => packDue')
        /\ fetch' \in {fetch, "Pack"} /\ (fetch' = "Pack" /\ fetch # "Pack" => ~job)
    BY <2>1 DEF StartPack, ConnectInv, TypeOK, StepIsUnderWay
  <2> QED BY <1>1, <1>2, <1>3, <2>1, <2>2, <2>3, ParametersKept
<1>6. CASE TriesPack /\ ~(packRetries < MaxRetry)
  <2>1. /\ packDue' = FALSE /\ StepDone(Parameters) /\ MessagesFollow
        /\ PlansFollow(plans) /\ UNCHANGED <<loading, fetch>>
    BY <1>6 DEF PackTimer, ParametersDone
  <2>2. packRetries' \in 0 .. MaxRetry + 1
    BY <1>2, <1>6, ConstantsAssumption DEF ConstantsAssumption, PackTimer, MoreRetries
  <2>3. StepMoves /\ step' # Parameters
    BY <2>1, StepDoneMoves
  <2> QED BY <1>1, <1>2, <1>3, <2>1, <2>2, <2>3, PlansAsTheyAre, ParametersOver
<1> QED BY <1>4, <1>5, <1>6

LEMMA RefreshInv == Undisturbed /\ ConnectInv /\ (Refresh \/ UnaskedValue) => ConnectInv'
<1> SUFFICES ASSUME Undisturbed, ConnectInv, Refresh \/ UnaskedValue PROVE ConnectInv'
  OBVIOUS
<1>1. step >= Parameters
  <2>1. step \in RefreshesAt \cup ValuesAt => step \in Parameters .. Complete
    BY DEF Undisturbed
  <2>2. step \in Parameters .. Complete => step >= Parameters
    OBVIOUS
  <2> QED BY <2>1, <2>2 DEF Refresh, UnaskedValue
<1>2. /\ loaded \in BOOLEAN /\ loading \in BOOLEAN /\ packDeclined \in BOOLEAN
      /\ packDue \in BOOLEAN /\ packRetries \in 0 .. MaxRetry + 1
      /\ refreshes \in 0 .. MaxRefreshes
  BY DEF ConnectInv, TypeOK
<1>3. step = Parameters => ~loaded /\ (loading \/ packDue \/ fetch = "Pack")
  BY DEF ConnectInv, StepIsUnderWay
<1>4. CASE UnaskedValue
  BY <1>1, <1>2, <1>4, ParametersKept DEF UnaskedValue, pack
<1>5. CASE Refresh
  <2>1. /\ UNCHANGED <<step, messages, plans, packDeclined, packRetries, loaded, Unshared>>
        /\ refreshes' \in 0 .. MaxRefreshes
    BY <1>2, <1>5, ConstantsAssumption DEF ConstantsAssumption, Refresh
  <2>2. /\ loading' \in BOOLEAN /\ packDue' \in BOOLEAN /\ fetch' \in {fetch, "Pack"}
        /\ fetch' = "Pack" /\ fetch # "Pack" => ~job
        /\ step = Parameters => loading' \/ packDue' \/ fetch' = "Pack"
    BY <1>2, <1>3, <1>5 DEF Refresh, StartPack, StartDownload, ConnectInv, TypeOK
  <2> QED BY <1>1, <1>2, <2>1, <2>2, ParametersKept
<1> QED BY <1>4, <1>5

LEMMA TransferEndsInv == ASSUME ConnectInv, NEW plan \in Plans, TransferEnds(plan) PROVE ConnectInv'
<1> DEFINE now == [plans EXCEPT ![plan] = "Idle"]
<1>1. /\ EndOfTransfer(plan) /\ MessagesFollow /\ PlansFollow(now)
      /\ UNCHANGED <<fetch, pack, loading, loaded, Unshared, refreshes>>
  BY DEF TransferEnds
<1>2. /\ now \in [Plans -> Transfers] /\ now[plan] = "Idle"
      /\ \A other \in Plans \ {plan} : now[other] = plans[other]
      /\ \A other \in Plans : now[other] = "GuidedItem" => other = Mission /\ step > Mission
  BY PlansAsTheyAre DEF Transfers
<1> HIDE DEF now
<1>3. plan \in 5 .. 7
  BY DEF Plans
<1>4. step' = step \/ (step = plan /\ StepDone(plan))
  BY <1>1 DEF EndOfTransfer, StepDone
<1>5. CASE step' = step
  <2>1. step # plan
    <3>1. SUFFICES ASSUME step = plan PROVE FALSE
      OBVIOUS
    <3>2. StepDone(plan)
      BY <1>1, <3>1, PlansAsTheyAre DEF EndOfTransfer
    <3> QED BY <1>3, <1>5, <3>1, <3>2, StepDoneMoves
  <2>2. plans' = now
    BY <1>1, <1>2, <1>5 DEF PlansFollow, Begins
  <2>3. UNCHANGED <<step, messages, fetch, pack, loading, loaded, Unshared, refreshes>>
    BY <1>1, <1>5 DEF MessagesFollow, Begins, messages
  <2>4. /\ UNCHANGED <<step, asked, mode, fetch, packDue, packDeclined, packRetries>>
        /\ UNCHANGED <<loading, loaded, supported, http, fallback, job, refreshes>>
        /\ UNCHANGED <<highLatency, flying>>
    BY <2>3 DEF messages, metadata, pack, link, Unshared
  <2>5. TypeOK'
    BY <1>2, <2>2, <2>4 DEF ConnectInv, TypeOK
  <2>6. StepIsUnderWay'
    BY <1>2, <2>1, <2>2, <2>4 DEF ConnectInv, StepIsUnderWay
  <2>7. NothingOutlivesItsStep' /\ FilesTakeTurns' /\ NothingEarly'
    BY <1>2, <2>2, <2>4 DEF ConnectInv, NothingOutlivesItsStep, FilesTakeTurns, NothingEarly
  <2> QED BY <2>5, <2>6, <2>7 DEF ConnectInv
<1>6. CASE step = plan /\ StepDone(plan)
  <2>1. step >= Parameters
    BY <1>3, <1>6
  <2>2. StepMoves /\ step' > step
    BY <1>3, <1>6, StepDoneMoves DEF StepMoves
  <2>3. /\ loading' \in BOOLEAN /\ loaded' \in BOOLEAN /\ packDue' \in BOOLEAN
        /\ packDeclined' \in BOOLEAN /\ packRetries' \in 0 .. MaxRetry + 1
        /\ refreshes' \in 0 .. MaxRefreshes /\ fetch' = fetch /\ UNCHANGED Unshared
    BY <1>1 DEF ConnectInv, TypeOK, pack
  <2> QED BY <1>1, <1>2, <1>3, <1>6, <2>1, <2>2, <2>3, ParametersOver
<1> QED BY <1>4, <1>5, <1>6

LEMMA OperatorInv ==
  ASSUME Undisturbed, ConnectInv,
         \/ \E plan \in Plans : OperatorTransfer(plan)
         \/ GuidedItem
  PROVE  ConnectInv'
<1>1. /\ UNCHANGED <<step, asked, mode, fetch, packDue, packDeclined, packRetries>>
      /\ UNCHANGED <<loading, loaded, supported, http, fallback, job, refreshes>>
      /\ UNCHANGED <<highLatency, flying>>
  BY DEF OperatorTransfer, GuidedItem, Engines, messages, metadata, pack, link
<1>2. PICK plan \in Plans, transfer \in {"Transfer", "GuidedItem"} :
        /\ plans[plan] = "Idle" /\ plans' = [plans EXCEPT ![plan] = transfer]
        /\ transfer = "GuidedItem" => plan = Mission /\ step \in GuidedAt
  BY DEF OperatorTransfer, GuidedItem, Plans
<1>3. transfer = "GuidedItem" => step > Mission
  <2>1. step \in GuidedAt => step \in GeoFence .. Complete
    BY DEF Undisturbed
  <2>2. step \in GeoFence .. Complete => step > Mission
    OBVIOUS
  <2> QED BY <1>2, <2>1, <2>2
<1>4. /\ plans' \in [Plans -> Transfers]
      /\ step \in Plans => plans'[step] = "Transfer"
      /\ \A other \in Plans :
           plans'[other] = "GuidedItem" => other = Mission /\ step > Mission
  BY <1>2, <1>3, PlansAsTheyAre DEF Transfers
<1>5. TypeOK'
  BY <1>1, <1>4 DEF ConnectInv, TypeOK
<1>6. StepIsUnderWay'
  BY <1>1, <1>4 DEF ConnectInv, StepIsUnderWay
<1>7. NothingOutlivesItsStep' /\ FilesTakeTurns' /\ NothingEarly'
  BY <1>1, <1>4 DEF ConnectInv, NothingOutlivesItsStep, FilesTakeTurns, NothingEarly
<1> QED BY <1>5, <1>6, <1>7 DEF ConnectInv

\* File jobs, the link and the vehicle's flight.
LEMMA SurroundingsInv ==
  ASSUME Undisturbed, ConnectInv, JobStarts \/ JobEnds \/ LinkChanges
  PROVE  ConnectInv'
<1>1. /\ UNCHANGED <<step, asked, mode, fetch, packDue, packDeclined, packRetries>>
      /\ UNCHANGED <<loading, loaded, supported, http, fallback, plans, refreshes>>
  BY DEF JobStarts, JobEnds, LinkChanges, Engines, messages, metadata, pack, link
<1>2. job' \in BOOLEAN /\ highLatency' \in BOOLEAN /\ flying' \in BOOLEAN
  <2>1. job \in BOOLEAN /\ highLatency \in BOOLEAN /\ flying \in BOOLEAN
    BY DEF ConnectInv, TypeOK
  <2>2. CASE JobStarts \/ JobEnds
    BY <2>1, <2>2 DEF JobStarts, JobEnds, link
  <2>3. CASE LinkChanges
    BY <2>1, <2>3 DEF LinkChanges, Engines
  <2> QED BY <2>2, <2>3
<1>3. job' = job \/ job' = FALSE \/ (fetch = None /\ step >= Parameters)
  <2>1. step \in JobsAt => step \in Parameters .. Complete
    BY DEF Undisturbed
  <2>2. step \in Parameters .. Complete => step >= Parameters
    OBVIOUS
  <2> QED BY <2>1, <2>2 DEF JobStarts, JobEnds, LinkChanges, Engines
<1>4. TypeOK'
  BY <1>1, <1>2 DEF ConnectInv, TypeOK
<1>5. StepIsUnderWay' /\ NothingOutlivesItsStep'
  BY <1>1 DEF ConnectInv, StepIsUnderWay, NothingOutlivesItsStep
<1>6. FilesTakeTurns' /\ NothingEarly'
  BY <1>1, <1>2, <1>3 DEF ConnectInv, TypeOK, FilesTakeTurns, NothingEarly, Steps
<1> QED BY <1>4, <1>5, <1>6 DEF ConnectInv

LEMMA StutterInv == ConnectInv /\ UNCHANGED vars => ConnectInv'
BY DEF ConnectInv, TypeOK, StepIsUnderWay, NothingOutlivesItsStep, FilesTakeTurns, NothingEarly,
       vars, connecting, messages, metadata, pack, link

LEMMA NextInv == ASSUME Undisturbed, ConnectInv, [Next]_vars PROVE ConnectInv'
<1>1. CASE ConnectStep
  BY <1>1, VersionAnsweredInv, ModeReceivedInv, RequestFailedInv, MetadataInv DEF ConnectStep
<1>2. CASE ParameterStep
  BY <1>2, LoadInv, PackInv, PackTimerInv, RefreshInv DEF ParameterStep
<1>3. CASE OtherStep
  BY <1>3, TransferEndsInv, OperatorInv, SurroundingsInv DEF OtherStep
<1>4. CASE UNCHANGED vars
  BY <1>4, StutterInv
<1> QED BY <1>1, <1>2, <1>3, <1>4 DEF Next

-----------------------------------------------------------------------------
(* Theorems.                                                               *)

\* The inductive invariant: each engine is at rest before its step, and of each step
\* something is left that ends it.
THEOREM InvariantHolds == Undisturbed => (Spec => []ConnectInv)
<1> SUFFICES ASSUME Undisturbed PROVE Spec => []ConnectInv
  OBVIOUS
<1>1. ConnectInv /\ [Next]_vars => ConnectInv'
  BY NextInv
<1> QED BY <1>1, InitInv, PTL DEF Spec

\* Every variable keeps its type, under the same assumption: above all the parameter
\* file is fetched no more often than its retries allow (pack_failed, decline_pack).
THEOREM TypeCorrect == Undisturbed => (Spec => []TypeOK)
<1>1. ConnectInv => TypeOK
  BY DEF ConnectInv
<1> QED BY <1>1, InvariantHolds, PTL

\* No step of the initial connect waits for something that is not under way, as long as
\* nobody uses its engines before it does (hub.rs keeps nobody from it) and of the
\* autopilot's parameters some are heard (on_waiting_timeout may else stop the load with no
\* report).
THEOREM NoStepWaitsInVain == Undisturbed => (Spec => []StepIsUnderWay)
<1>1. ConnectInv => StepIsUnderWay
  BY DEF ConnectInv
<1> QED BY <1>1, InvariantHolds, PTL

\* No request or download of the connect is left over to end a step that is not its own.
THEOREM NothingIsLeftOver == Undisturbed => (Spec => []NothingOutlivesItsStep)
<1>1. ConnectInv => NothingOutlivesItsStep
  BY DEF ConnectInv
<1> QED BY <1>1, InvariantHolds, PTL

\* Metadata, the parameter file and file jobs take turns, as long as no job is started
\* before the parameter step.
THEOREM TransfersTakeTurns == Undisturbed => (Spec => []FilesTakeTurns)
<1>1. ConnectInv => FilesTakeTurns
  BY DEF ConnectInv
<1> QED BY <1>1, InvariantHolds, PTL

-----------------------------------------------------------------------------
(* The connect and the writes side by side.                                *)

\* A vehicle that is connected is one whose connect has gone well.
LEMMA ConnectedInv == Connected => ConnectInv
<1> SUFFICES ASSUME Connected PROVE ConnectInv
  OBVIOUS
<1> USE ConstantsAssumption DEF ConstantsAssumption
<1>1. /\ step = 8 /\ supported = {} /\ refreshes = MaxRefreshes /\ fetch = None /\ http = None
      /\ fallback = FALSE /\ job = FALSE /\ loading = FALSE /\ loaded = TRUE
      /\ packDeclined = FALSE /\ packRetries = 0 /\ packDue = FALSE
      /\ highLatency = FALSE /\ flying = FALSE
      /\ plans = [plan \in Plans |-> "Idle"] /\ asked = None /\ mode = 1
  BY DEF Connected, AsksOf
<1>2. step \in Steps /\ mode \in 1 .. Modes /\ packRetries \in 0 .. MaxRetry + 1
  BY <1>1 DEF Steps
<1>3. plans \in [Plans -> Transfers]
  BY <1>1 DEF Transfers
<1>4. /\ fallback \in BOOLEAN /\ job \in BOOLEAN /\ loading \in BOOLEAN /\ loaded \in BOOLEAN
      /\ packDue \in BOOLEAN /\ packDeclined \in BOOLEAN
      /\ highLatency \in BOOLEAN /\ flying \in BOOLEAN
  BY <1>1, Zenon
<1>5. TypeOK
  BY <1>1, <1>2, <1>3, <1>4 DEF TypeOK
<1>6. StepIsUnderWay /\ NothingOutlivesItsStep
  BY <1>1 DEF StepIsUnderWay, NothingOutlivesItsStep, Plans, Metadata, None
<1>7. FilesTakeTurns /\ NothingEarly
  BY <1>1 DEF FilesTakeTurns, NothingEarly, None
<1> QED BY <1>5, <1>6, <1>7 DEF ConnectInv

LEMMA VehicleStepInv ==
  ASSUME Undisturbed, ConnectInv, ParamIInv, [MCNext]_MCVars
  PROVE  ConnectInv' /\ ParamIInv'
<1>1. [Next]_vars /\ [ParamNext]_paramVars
  BY DEF MCNext, MCVars
<1> QED BY <1>1, NextInv, StepInv

\* A vehicle that connects, or is connected and whose parameters are read and written,
\* keeps its types, under the same assumption and for any parameters and values: no
\* request is sent, and no file fetched, more often than its retries allow (hub.rs,
\* params.rs).
THEOREM VehicleTypesCorrect == Undisturbed => (MCSpec => []MCTypeOK)
<1> SUFFICES ASSUME Undisturbed PROVE MCSpec => []MCTypeOK
  OBVIOUS
<1>1. MCInit => ConnectInv /\ ParamIInv
  BY InitInv, ConnectedInv, ParamInitInv DEF MCInit
<1>2. ConnectInv /\ ParamIInv => MCTypeOK
  BY TypedImplies DEF ConnectInv, ParamIInv, MCTypeOK
<1>3. ConnectInv /\ ParamIInv /\ [MCNext]_MCVars => ConnectInv' /\ ParamIInv'
  BY VehicleStepInv
<1> QED BY <1>1, <1>2, <1>3, PTL DEF MCSpec
=============================================================================
