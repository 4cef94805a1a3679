--------------------------- MODULE MCPlanTransfer ---------------------------
(***************************************************************************)
(* PlanTransfer on small plans.                                            *)
(***************************************************************************)
EXTENDS PlanTransfer

Nav(n) == [jump |-> FALSE, arg |-> n]
Jump(n) == [jump |-> TRUE, arg |-> n]

\* Home first, as the plan editor lists it; PX4 is sent what follows it.
MCPlans == { <<Nav(0), Nav(1)>>, <<Nav(2), Nav(3), Jump(1)>> }
MCTwoPlans == { <<Nav(0), Nav(1)>>, <<Nav(2), Nav(3)>> }
\* With MaxCount = 3 the second is one item too long.
MCLongPlans == { <<Nav(0), Nav(1), Jump(1)>>, <<Nav(0), Nav(1), Nav(2), Nav(3)>> }
=============================================================================
