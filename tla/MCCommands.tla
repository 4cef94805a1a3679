----------------------------- MODULE MCCommands -----------------------------
(***************************************************************************)
(* MavCommands on two networks and vehicles: the lossy one of the          *)
(* constants, with two commands, and one that loses and delays nothing,    *)
(* with three.  A behaviour keeps to one of them.                          *)
(***************************************************************************)
EXTENDS MCMavCommands

InTime == INSTANCE MavCommands
  WITH Px4 <- FALSE, MaxOutside <- 0, Lossy <- FALSE, Prompt <- TRUE, Capacity <- 4

VARIABLE lossy \* the network and the vehicle are those of the constants

MCInit == Init /\ lossy \in BOOLEAN

\* The steps of one kind, of whichever instance the behaviour is about.
Of(here, inTime) == (lossy /\ here) \/ (~lossy /\ inTime)

MCVars == <<vars, lossy>>
MCSpec ==
  /\ MCInit /\ [][Of(Next /\ asks' <= 2, InTime!Next) /\ UNCHANGED lossy]_MCVars
  /\ WF_vars(Of(StationReceive, InTime!StationReceive))
  /\ WF_vars(Of(VehicleReceive, InTime!VehicleReceive))
  /\ \A t \in Asks : WF_vars(Of(TickOf(t), InTime!TickOf(t)))

\* While nothing is lost or late, whoever asked is told the vehicle's answer to that
\* very command (answers carry no number: MavCommands matches them by kind alone),
\* and no command is reported unanswered whose answer arrived, a stop's included.
InTimeAcksAreOwn == ~lossy => AnswersAreOwn /\ AcksAreHeard
=============================================================================
