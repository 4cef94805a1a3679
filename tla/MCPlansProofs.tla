--------------------------- MODULE MCPlansProofs ----------------------------
(***************************************************************************)
(* MCPlans behaves, where a vehicle is heard in time, like PlanTransfer    *)
(* does: what PlanTransferProofs proves of each step of that component is  *)
(* taken over for the constants of the two vehicles, an ArduPilot (P) and  *)
(* a PX4 (Q).                                                              *)
(***************************************************************************)
EXTENDS MCPlans, TLAPS

P == INSTANCE PlanTransferProofs
  WITH Plans <- MCPlans, Prompt <- TRUE, Duplicates <- FALSE, Capacity <- 2
Q == INSTANCE PlanTransferProofs
  WITH Apm <- FALSE, MaxCount <- 2,
       Plans <- MCPlans, Prompt <- TRUE, Duplicates <- FALSE, Capacity <- 2

LEMMA MCPlansType == MCPlans \subseteq Seq([jump : BOOLEAN, arg : Int])
<1>1. \A n \in Int : Nav(n) \in [jump : BOOLEAN, arg : Int] /\ Jump(n) \in [jump : BOOLEAN, arg : Int]
  <2>1. FALSE \in BOOLEAN /\ TRUE \in BOOLEAN
    OBVIOUS
  <2> QED BY <2>1, Zenon DEF Nav, Jump
<1>2. <<Nav(0), Nav(1)>> \in Seq([jump : BOOLEAN, arg : Int])
  BY <1>1
<1>3. <<Nav(2), Nav(3), Jump(1)>> \in Seq([jump : BOOLEAN, arg : Int])
  BY <1>1
<1> QED BY <1>2, <1>3 DEF MCPlans

LEMMA InTimeHere ==
  /\ P!FlagsAssumption /\ P!BoundsAssumption /\ P!PlansAssumption /\ P!InTime
  /\ Q!FlagsAssumption /\ Q!BoundsAssumption /\ Q!PlansAssumption /\ Q!InTime
<1>1. P!BoundsAssumption /\ Q!BoundsAssumption
  BY BoundsAssumption DEF BoundsAssumption, P!BoundsAssumption, Q!BoundsAssumption
<1>2. P!FlagsAssumption /\ Q!FlagsAssumption
  BY FlagsAssumption DEF FlagsAssumption, P!FlagsAssumption, Q!FlagsAssumption
<1>3. P!PlansAssumption /\ Q!PlansAssumption
  BY MCPlansType DEF P!PlansAssumption, Q!PlansAssumption, P!PlanItem, Q!PlanItem
<1> QED BY <1>1, <1>2, <1>3 DEF P!InTime, Q!InTime

LEMMA SameStart == Init => P!Init /\ Q!Init
  BY DEF Init, P!Init, Q!Init, StationInit, P!StationInit, Q!StationInit,
     VehicleInit, P!VehicleInit, Q!VehicleInit, Nil, P!Nil, Q!Nil,
     NoUpload, P!NoUpload, Q!NoUpload

-----------------------------------------------------------------------------
(* Each action of an instance is the action proved about.                  *)

LEMMA SameLoad == InTime!Load <=> P!Load
  BY DEF InTime!Load, P!Load, InTime!Nil, P!Nil, InTime!RequestList, P!RequestList,
         InTime!ToVehicle, P!ToVehicle, InTime!Carried, P!Carried, InTime!Expecting,
         P!Expecting, InTime!protocol, P!protocol

LEMMA SameRemoveAll == InTime!RemoveAll <=> P!RemoveAll
  BY DEF InTime!RemoveAll, P!RemoveAll, InTime!Nil, P!Nil, InTime!ClearAll,
         P!ClearAll, InTime!ToVehicle, P!ToVehicle, InTime!Carried, P!Carried,
         InTime!Expecting, P!Expecting, InTime!protocol, P!protocol

LEMMA SameGuidedItem == InTime!GuidedItem <=> P!GuidedItem
  BY DEF InTime!GuidedItem, P!GuidedItem, InTime!Nil, P!Nil, InTime!Expecting,
         P!Expecting, InTime!ToVehicle, P!ToVehicle, InTime!Carried, P!Carried,
         InTime!protocol, P!protocol

LEMMA SameWrite ==
  ASSUME NEW plan
  PROVE  InTime!Write(plan) <=> P!Write(plan)
  BY DEF InTime!Write, P!Write, InTime!Nil, P!Nil, InTime!Numbered, P!Numbered,
         InTime!SkipFirst, P!SkipFirst, InTime!WriteCount, P!WriteCount,
         InTime!ToVehicle, P!ToVehicle, InTime!Carried, P!Carried, InTime!Expecting,
         P!Expecting, InTime!protocol, P!protocol

LEMMA SameWriteTooLong ==
  ASSUME NEW plan
  PROVE  InTime!WriteTooLong(plan) <=> P!WriteTooLong(plan)
  BY DEF InTime!WriteTooLong, P!WriteTooLong, InTime!Nil, P!Nil, InTime!Numbered,
         P!Numbered, InTime!SkipFirst, P!SkipFirst, InTime!protocol, P!protocol,
         InTime!network, P!network

LEMMA SameTimeout == InTime!Timeout <=> P!Timeout
  BY DEF InTime!Timeout, P!Timeout, InTime!AskAgain, P!AskAgain, InTime!MayRetry,
         P!MayRetry, InTime!CountedRetry, P!CountedRetry, InTime!RequestList,
         P!RequestList, InTime!ToVehicle, P!ToVehicle, InTime!Carried, P!Carried,
         InTime!Expecting, P!Expecting, InTime!RequestNext, P!RequestNext, InTime!Lowest,
         P!Lowest, InTime!WriteCount, P!WriteCount, InTime!ClearAll, P!ClearAll,
         InTime!GivesUp, P!GivesUp, InTime!Finish, P!Finish, InTime!Nil, P!Nil,
         InTime!HeldAfter, P!HeldAfter, InTime!protocol, P!protocol

LEMMA SameStationReceive == InTime!StationReceive <=> P!StationReceive
  BY DEF InTime!StationReceive, P!StationReceive, InTime!OnCount, P!OnCount,
         InTime!Ignored, P!Ignored, InTime!slot, P!slot, InTime!ToVehicle,
         P!ToVehicle, InTime!Carried, P!Carried, InTime!Finish, P!Finish, InTime!Nil,
         P!Nil, InTime!HeldAfter, P!HeldAfter, InTime!RequestNext, P!RequestNext,
         InTime!Lowest, P!Lowest, InTime!Expecting, P!Expecting, InTime!OnItem, P!OnItem,
         InTime!Wanted, P!Wanted, InTime!AsRead, P!AsRead, InTime!SkipFirst,
         P!SkipFirst, InTime!OnRequest, P!OnRequest, InTime!OnAck, P!OnAck,
         InTime!AckSucceeds, P!AckSucceeds, InTime!Delivered, P!Delivered, InTime!protocol,
         P!protocol

LEMMA SameVehicleReceive == InTime!VehicleReceive <=> P!VehicleReceive
  BY DEF InTime!VehicleReceive, P!VehicleReceive, InTime!Reply, P!Reply, InTime!Carried,
         P!Carried, InTime!protocol, P!protocol, InTime!OnRequestItem, P!OnRequestItem,
         InTime!Silent, P!Silent, InTime!OnUploadCount, P!OnUploadCount,
         InTime!Acknowledge, P!Acknowledge, InTime!OnUploadItem, P!OnUploadItem,
         InTime!NoUpload, P!NoUpload, InTime!Delivered, P!Delivered, InTime!slot, P!slot

LEMMA SameLoadOfPx4 == OfPx4!Load <=> Q!Load
  BY DEF OfPx4!Load, Q!Load, OfPx4!Nil, Q!Nil, OfPx4!RequestList, Q!RequestList,
         OfPx4!ToVehicle, Q!ToVehicle, OfPx4!Carried, Q!Carried, OfPx4!Expecting,
         Q!Expecting, OfPx4!protocol, Q!protocol

LEMMA SameRemoveAllOfPx4 == OfPx4!RemoveAll <=> Q!RemoveAll
  BY DEF OfPx4!RemoveAll, Q!RemoveAll, OfPx4!Nil, Q!Nil, OfPx4!ClearAll, Q!ClearAll,
         OfPx4!ToVehicle, Q!ToVehicle, OfPx4!Carried, Q!Carried, OfPx4!Expecting,
         Q!Expecting, OfPx4!protocol, Q!protocol

LEMMA SameGuidedItemOfPx4 == OfPx4!GuidedItem <=> Q!GuidedItem
  BY DEF OfPx4!GuidedItem, Q!GuidedItem, OfPx4!Nil, Q!Nil, OfPx4!Expecting,
         Q!Expecting, OfPx4!ToVehicle, Q!ToVehicle, OfPx4!Carried, Q!Carried,
         OfPx4!protocol, Q!protocol

LEMMA SameWriteOfPx4 ==
  ASSUME NEW plan
  PROVE  OfPx4!Write(plan) <=> Q!Write(plan)
  BY DEF OfPx4!Write, Q!Write, OfPx4!Nil, Q!Nil, OfPx4!Numbered, Q!Numbered,
         OfPx4!SkipFirst, Q!SkipFirst, OfPx4!WriteCount, Q!WriteCount, OfPx4!ToVehicle,
         Q!ToVehicle, OfPx4!Carried, Q!Carried, OfPx4!Expecting, Q!Expecting,
         OfPx4!protocol, Q!protocol

LEMMA SameWriteTooLongOfPx4 ==
  ASSUME NEW plan
  PROVE  OfPx4!WriteTooLong(plan) <=> Q!WriteTooLong(plan)
  BY DEF OfPx4!WriteTooLong, Q!WriteTooLong, OfPx4!Nil, Q!Nil, OfPx4!Numbered,
         Q!Numbered, OfPx4!SkipFirst, Q!SkipFirst, OfPx4!protocol, Q!protocol,
         OfPx4!network, Q!network

LEMMA SameTimeoutOfPx4 == OfPx4!Timeout <=> Q!Timeout
  BY DEF OfPx4!Timeout, Q!Timeout, OfPx4!AskAgain, Q!AskAgain, OfPx4!MayRetry,
         Q!MayRetry, OfPx4!CountedRetry, Q!CountedRetry, OfPx4!RequestList,
         Q!RequestList, OfPx4!ToVehicle, Q!ToVehicle, OfPx4!Carried, Q!Carried,
         OfPx4!Expecting, Q!Expecting, OfPx4!RequestNext, Q!RequestNext, OfPx4!Lowest,
         Q!Lowest, OfPx4!WriteCount, Q!WriteCount, OfPx4!ClearAll, Q!ClearAll,
         OfPx4!GivesUp, Q!GivesUp, OfPx4!Finish, Q!Finish, OfPx4!Nil, Q!Nil,
         OfPx4!HeldAfter, Q!HeldAfter, OfPx4!protocol, Q!protocol

LEMMA SameStationReceiveOfPx4 == OfPx4!StationReceive <=> Q!StationReceive
  BY DEF OfPx4!StationReceive, Q!StationReceive, OfPx4!OnCount, Q!OnCount,
         OfPx4!Ignored, Q!Ignored, OfPx4!slot, Q!slot, OfPx4!ToVehicle,
         Q!ToVehicle, OfPx4!Carried, Q!Carried, OfPx4!Finish, Q!Finish, OfPx4!Nil,
         Q!Nil, OfPx4!HeldAfter, Q!HeldAfter, OfPx4!RequestNext, Q!RequestNext,
         OfPx4!Lowest, Q!Lowest, OfPx4!Expecting, Q!Expecting, OfPx4!OnItem, Q!OnItem,
         OfPx4!Wanted, Q!Wanted, OfPx4!AsRead, Q!AsRead, OfPx4!SkipFirst, Q!SkipFirst,
         OfPx4!OnRequest, Q!OnRequest, OfPx4!OnAck, Q!OnAck, OfPx4!AckSucceeds,
         Q!AckSucceeds, OfPx4!Delivered, Q!Delivered, OfPx4!protocol, Q!protocol

LEMMA SameVehicleReceiveOfPx4 == OfPx4!VehicleReceive <=> Q!VehicleReceive
  BY DEF OfPx4!VehicleReceive, Q!VehicleReceive, OfPx4!Reply, Q!Reply, OfPx4!Carried,
         Q!Carried, OfPx4!protocol, Q!protocol, OfPx4!OnRequestItem, Q!OnRequestItem,
         OfPx4!Silent, Q!Silent, OfPx4!OnUploadCount, Q!OnUploadCount,
         OfPx4!Acknowledge, Q!Acknowledge, OfPx4!OnUploadItem, Q!OnUploadItem,
         OfPx4!NoUpload, Q!NoUpload, OfPx4!Delivered, Q!Delivered, OfPx4!slot, Q!slot


LEMMA SameNext == InTime!Next => P!Next
  BY SameLoad, SameRemoveAll, SameGuidedItem, SameWrite, SameWriteTooLong, SameTimeout,
     SameStationReceive, SameVehicleReceive
     DEF InTime!Next, P!Next, InTime!Operator, P!Operator

LEMMA SameNextOfPx4 == OfPx4!Next => Q!Next
  BY SameLoadOfPx4, SameRemoveAllOfPx4, SameGuidedItemOfPx4, SameWriteOfPx4,
     SameWriteTooLongOfPx4, SameTimeoutOfPx4, SameStationReceiveOfPx4,
     SameVehicleReceiveOfPx4
     DEF OfPx4!Next, Q!Next, OfPx4!Operator, Q!Operator

-----------------------------------------------------------------------------
AgreeingInTime ==
  /\ on = "in time" => P!IInv /\ P!Agreeing
  /\ on = "px4" => Q!IInv /\ Q!Agreeing
Networks == {"slow", "in time", "px4"}

\* The plan known after a read or a write is the one a read of the vehicle would give
\* (for ArduPilot, and for fences and rally points), and the vehicle stored what a
\* successful write sent (for PX4 too), on the two networks that are in time, with
\* any retries, losing messages or not (write, the handlers, finish).
THEOREM InTimeTransfersAgree == ~SkipFirst => (PlansSpec => []InTimePlansAgree)
<1> SUFFICES ASSUME ~SkipFirst PROVE PlansSpec => []InTimePlansAgree
  OBVIOUS
<1>1. PlansInit => AgreeingInTime /\ on \in Networks
  <2>1. P!Init => P!IInv /\ P!Agreeing
    BY InTimeHere, P!InitInv, P!InitAgrees
  <2>2. Q!Init => Q!IInv /\ Q!Agreeing
    BY InTimeHere, Q!InitInv, Q!InitAgrees
  <2> QED BY <2>1, <2>2, SameStart DEF PlansInit, AgreeingInTime, Networks
<1>2. AgreeingInTime /\ on \in Networks /\ [PlansNext]_PlansVars => (AgreeingInTime /\ on \in Networks)'
  <2> SUFFICES ASSUME AgreeingInTime, on \in Networks, [PlansNext]_PlansVars
               PROVE  AgreeingInTime' /\ on' \in Networks
    OBVIOUS
  <2>1. on' = on
    BY DEF PlansNext, PlansVars
  <2>2. ASSUME on = "in time" PROVE P!IInv' /\ P!Agreeing'
    <3>1. [P!Next]_(P!vars)
      BY <2>2, SameNext DEF PlansNext, Among, PlansVars, vars, P!vars, slot, P!slot, protocol,
         P!protocol, network, P!network
    <3> QED BY <2>2, <3>1, InTimeHere, P!NextInv, P!NextAgrees DEF AgreeingInTime
  <2>3. ASSUME on = "px4" PROVE Q!IInv' /\ Q!Agreeing'
    <3>1. [Q!Next]_(Q!vars)
      BY <2>3, SameNextOfPx4 DEF PlansNext, Among, PlansVars, vars, Q!vars, slot, Q!slot, protocol,
         Q!protocol, network, Q!network
    <3> QED BY <2>3, <3>1, InTimeHere, Q!NextInv, Q!NextAgrees DEF AgreeingInTime
  <2> QED BY <2>1, <2>2, <2>3 DEF AgreeingInTime
<1>3. AgreeingInTime /\ on \in Networks => InTimePlansAgree
  <2>1. P!IInv /\ P!Agreeing => KnownPlanIsTheVehicles /\ WrittenPlanIsStored
    <3>1. P!IInv /\ P!Agreeing => P!KnownPlanIsTheVehicles /\ P!WrittenPlanIsStored
      BY InTimeHere, P!AgreedIsKnown, P!AgreedIsStored DEF SkipFirst, P!SkipFirst
    <3>2. P!KnownPlanIsTheVehicles /\ P!WrittenPlanIsStored
            => KnownPlanIsTheVehicles /\ WrittenPlanIsStored
      BY DEF P!KnownPlanIsTheVehicles, KnownPlanIsTheVehicles, P!WrittenPlanIsStored,
         WrittenPlanIsStored, P!AsRead, AsRead, P!SkipFirst, SkipFirst, P!Nil, Nil
    <3> QED BY <3>1, <3>2
  <2>2. Q!IInv /\ Q!Agreeing => WrittenPlanIsStored
    BY Q!AgreedIsStored, InTimeHere
       DEF Q!WrittenPlanIsStored, WrittenPlanIsStored, Q!Nil, Nil
  <2> QED BY <2>1, <2>2 DEF AgreeingInTime, InTimePlansAgree, Networks
<1> QED BY <1>1, <1>2, <1>3, PTL DEF PlansSpec
=============================================================================
