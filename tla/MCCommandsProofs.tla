-------------------------- MODULE MCCommandsProofs --------------------------
(***************************************************************************)
(* MCCommands behaves, on the network that loses and delays nothing, like  *)
(* MavCommands under Calm: what MavCommandsProofs proves of each step of   *)
(* that component is taken over for these constants.                       *)
(***************************************************************************)
EXTENDS MCCommands, TLAPS

P == INSTANCE MavCommandsProofs
  WITH Px4 <- FALSE, MaxOutside <- 0, Lossy <- FALSE, Prompt <- TRUE, Capacity <- 4

LEMMA CalmHere == P!ConstantsAssumption /\ (MaxStops <= 1 => P!Calm)
  BY ConstantsAssumption DEF ConstantsAssumption, P!ConstantsAssumption, P!Calm

LEMMA SameStart == Init => P!Init
  BY DEF Init, P!Init, Nothing, P!Nothing, Asks, P!Asks

-----------------------------------------------------------------------------
(* Each action of the instance is the action proved about.                 *)

LEMMA SameSend ==
  ASSUME NEW t, NEW code
  PROVE  InTime!Send(t, code) <=> P!Send(t, code)
  BY DEF InTime!Send, P!Send, InTime!Ask, P!Ask, InTime!Enqueue, P!Enqueue,
         InTime!Holding, P!Holding, InTime!CanDuplicate, P!CanDuplicate, InTime!Tell,
         P!Tell, InTime!After, P!After, InTime!Asks, P!Asks, InTime!Added, P!Added,
         InTime!NewEntry, P!NewEntry, InTime!MaxTries, P!MaxTries, InTime!ToVehicle,
         P!ToVehicle, InTime!NoMessage, P!NoMessage, InTime!Nothing, P!Nothing

LEMMA SameSendToAll ==
  ASSUME NEW t
  PROVE  InTime!SendToAll(t) <=> P!SendToAll(t)
  BY DEF InTime!SendToAll, P!SendToAll, InTime!Ask, P!Ask, InTime!Tell, P!Tell,
         InTime!After, P!After, InTime!Asks, P!Asks, InTime!Telling, P!Telling,
         InTime!coordinator, P!coordinator

LEMMA SameEmergencyStop ==
  ASSUME NEW t
  PROVE  InTime!EmergencyStop(t) <=> P!EmergencyStop(t)
  BY DEF InTime!EmergencyStop, P!EmergencyStop, InTime!Holding, P!Holding, InTime!Ask,
         P!Ask, InTime!Supersede, P!Supersede, InTime!Enqueue, P!Enqueue,
         InTime!CanDuplicate, P!CanDuplicate, InTime!Tell, P!Tell, InTime!After,
         P!After, InTime!Asks, P!Asks, InTime!Added, P!Added, InTime!NewEntry,
         P!NewEntry, InTime!MaxTries, P!MaxTries, InTime!ToVehicle, P!ToVehicle,
         InTime!NoMessage, P!NoMessage, InTime!Without, P!Without, InTime!Telling,
         P!Telling

LEMMA SameRequestMessage ==
  ASSUME NEW t, NEW message
  PROVE  InTime!RequestMessage(t, message) <=> P!RequestMessage(t, message)
  BY DEF InTime!RequestMessage, P!RequestMessage, InTime!Ask, P!Ask, InTime!Tell,
         P!Tell, InTime!After, P!After, InTime!Asks, P!Asks, InTime!Telling, P!Telling,
         InTime!Active, P!Active, InTime!Added, P!Added, InTime!Holding, P!Holding,
         InTime!NewEntry, P!NewEntry, InTime!MaxTries, P!MaxTries, InTime!NewRequest,
         P!NewRequest, InTime!ToVehicle, P!ToVehicle

LEMMA SameAskOutside ==
  ASSUME NEW message
  PROVE  InTime!AskOutside(message) <=> P!AskOutside(message)
  BY DEF InTime!AskOutside, P!AskOutside, InTime!ToVehicle, P!ToVehicle, InTime!Outside,
         P!Outside, InTime!coordinator, P!coordinator

LEMMA SameTick == InTime!Tick <=> P!Tick
  BY DEF InTime!Tick, P!Tick, InTime!Waiting, P!Waiting, InTime!Expire, P!Expire,
         InTime!Continue, P!Continue, InTime!Tell, P!Tell, InTime!After, P!After,
         InTime!Asks, P!Asks, InTime!Holding, P!Holding, InTime!Nothing, P!Nothing,
         InTime!First, P!First, InTime!Added, P!Added, InTime!NewEntry, P!NewEntry,
         InTime!MaxTries, P!MaxTries, InTime!NewRequest, P!NewRequest, InTime!Without,
         P!Without, InTime!ToVehicle, P!ToVehicle, InTime!counters, P!counters

LEMMA SameStationReceive == InTime!StationReceive <=> P!StationReceive
  BY DEF InTime!StationReceive, P!StationReceive, InTime!OnMessage, P!OnMessage,
         InTime!Delivered, P!Delivered, InTime!Continue, P!Continue, InTime!Tell,
         P!Tell, InTime!After, P!After, InTime!Asks, P!Asks, InTime!Holding, P!Holding,
         InTime!Nothing, P!Nothing, InTime!First, P!First, InTime!Added, P!Added,
         InTime!NewEntry, P!NewEntry, InTime!MaxTries, P!MaxTries, InTime!NewRequest,
         P!NewRequest, InTime!Without, P!Without, InTime!ToVehicle, P!ToVehicle,
         InTime!Telling, P!Telling, InTime!OnAck, P!OnAck, InTime!Swallowed,
         P!Swallowed, InTime!coordinator, P!coordinator, InTime!RequestAcked,
         P!RequestAcked, InTime!counters, P!counters

LEMMA SameVehicleReceive == InTime!VehicleReceive <=> P!VehicleReceive
  BY DEF InTime!VehicleReceive, P!VehicleReceive, InTime!Replies, P!Replies,
         InTime!Arriving, P!Arriving, InTime!counters, P!counters, InTime!coordinator,
         P!coordinator



LEMMA SameNext == InTime!Next => P!Next
<1>1. ASSUME NEW t, InTime!Caller(t) PROVE P!Caller(t)
  BY <1>1, SameSend, SameSendToAll, SameEmergencyStop, SameRequestMessage
     DEF InTime!Caller, P!Caller, InTime!Codes, P!Codes
<1> QED BY <1>1, SameAskOutside, SameTick, SameStationReceive, SameVehicleReceive
        DEF InTime!Next, P!Next, InTime!Asks, P!Asks

-----------------------------------------------------------------------------
OwnInTime == ~lossy => P!IInv /\ P!Own

\* Whoever asked is told the vehicle's answer to that very command, and no command whose
\* answer came is reported unanswered, on the network of the run that loses and delays
\* nothing, for any number of commands and messages and any retries, while there is one
\* stop at most (on_ack, superseded, tick).
THEOREM InTimeAnswersStayOwn == MaxStops <= 1 => (MCSpec => []InTimeAcksAreOwn)
<1> SUFFICES ASSUME MaxStops <= 1 PROVE MCSpec => []InTimeAcksAreOwn
  OBVIOUS
<1>1. P!ConstantsAssumption /\ P!Calm
  BY CalmHere
<1>2. MCInit => OwnInTime
  <2>1. P!Init => P!IInv /\ P!Own
    BY <1>1, P!InitIsGood, P!InitIsOwn
  <2> QED BY <2>1, SameStart DEF MCInit, OwnInTime
<1>3. OwnInTime /\ [Of(Next /\ asks' <= 2, InTime!Next) /\ UNCHANGED lossy]_MCVars
        => OwnInTime'
  <2> SUFFICES ASSUME OwnInTime, [Of(Next /\ asks' <= 2, InTime!Next) /\ UNCHANGED lossy]_MCVars,
                      ~lossy'
               PROVE  P!IInv' /\ P!Own'
    BY DEF OwnInTime
  <2>1. ~lossy
    BY DEF MCVars
  <2>2. [P!Next]_(P!vars)
    BY <2>1, SameNext DEF Of, MCVars, vars, P!vars, counters, P!counters, coordinator,
       P!coordinator
  <2> QED BY <1>1, <2>1, <2>2, P!NextStep, P!OwnKept DEF OwnInTime
<1>4. OwnInTime => InTimeAcksAreOwn
  <2>1. P!Own => AnswersAreOwn /\ AcksAreHeard
    BY DEF P!Own, P!Heard, AnswersAreOwn, AcksAreHeard, P!Asks, Asks
  <2> QED BY <2>1 DEF OwnInTime, InTimeAcksAreOwn
<1> QED BY <1>2, <1>3, <1>4, PTL DEF MCSpec
=============================================================================
