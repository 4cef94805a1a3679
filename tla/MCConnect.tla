----------------------------- MODULE MCConnect ------------------------------
(***************************************************************************)
(* Connect with sets of steps for what the operator and others may do.     *)
(***************************************************************************)
EXTENDS Connect

MCAutopilots == {"PX4", "ArduPilot", "Other"}
MCNever == {}
MCLate == Parameters .. Complete
MCAfterMission == GeoFence .. Complete
MCParameters == {Parameters}
=============================================================================
