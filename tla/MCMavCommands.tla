--------------------------- MODULE MCMavCommands ----------------------------
(***************************************************************************)
(* MavCommands with two message ids.                                       *)
(***************************************************************************)
EXTENDS MavCommands, TLC

CONSTANTS m1, m2

MCMessages == {m1, m2}
MCSymmetry == Permutations(MCMessages)
=============================================================================
