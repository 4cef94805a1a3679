------------------------------ MODULE MCPlans -------------------------------
(***************************************************************************)
(* PlanTransfer on three networks and vehicles: the slow one of the        *)
(* constants, an ArduPilot and a PX4 heard in time.  A behaviour keeps to  *)
(* one of them.                                                            *)
(***************************************************************************)
EXTENDS MCPlanTransfer

InTime == INSTANCE PlanTransfer
  WITH Plans <- MCPlans, Prompt <- TRUE, Duplicates <- FALSE, Capacity <- 2
OfPx4 == INSTANCE PlanTransfer
  WITH Apm <- FALSE, MaxCount <- 2,
       Plans <- MCPlans, Prompt <- TRUE, Duplicates <- FALSE, Capacity <- 2

VARIABLE on \* the network and the vehicle

PlansInit == Init /\ on \in {"slow", "in time", "px4"}

\* The steps of one kind, of whichever instance the behaviour is about.
Among(slow, inTime, px4) ==
  \/ on = "slow" /\ slow
  \/ on = "in time" /\ inTime
  \/ on = "px4" /\ px4

PlansVars == <<vars, on>>
PlansNext == Among(Next, InTime!Next, OfPx4!Next) /\ UNCHANGED on
PlansSpec ==
  /\ PlansInit /\ [][PlansNext]_PlansVars
  /\ WF_vars(Among(Timeout, InTime!Timeout, OfPx4!Timeout))
  /\ WF_vars(Among(StationReceive, InTime!StationReceive, OfPx4!StationReceive))
  /\ WF_vars(Among(VehicleReceive, InTime!VehicleReceive, OfPx4!VehicleReceive))

\* While nothing arrives after a timer, the plan known after a read or a write is the
\* one a read of the vehicle would give (ArduPilot), and the vehicle stored what a
\* successful write sent, home dropped and jumps moved (PX4 too).
InTimePlansAgree ==
  /\ on = "in time" => KnownPlanIsTheVehicles
  /\ on # "slow" => WrittenPlanIsStored
=============================================================================
