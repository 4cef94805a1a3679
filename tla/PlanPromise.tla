---------------------------- MODULE PlanPromise -----------------------------
(***************************************************************************)
(* What a plan transfer promises to the rest of the flight core, whatever  *)
(* the network and the vehicle do: one thing is done at a time, each ends  *)
(* once, and only reads, successful writes and removals touch the plan the *)
(* station holds.                                                          *)
(***************************************************************************)
EXTENDS Integers, Sequences

VARIABLES
  doing,  \* the transaction that runs
  asked,  \* the plan a write was asked to put on the vehicle
  plan,   \* the plan the station holds
  failed  \* the last transfer, guided items aside, failed

vars == <<doing, asked, plan, failed>>

Idle == "None"
TransferKinds == {"Read", "Write", "RemoveAll", "GuidedItem"}

\* after is before, or before with one more item.
Grown(before, after) ==
  /\ Len(after) \in {Len(before), Len(before) + 1}
  /\ \A i \in 1 .. Len(before) : after[i] = before[i]

Init == doing = Idle /\ asked = <<>> /\ plan = <<>> /\ failed = FALSE

Start(kind) ==
  /\ doing = Idle /\ doing' = kind
  /\ kind # "Write" => asked' = asked
  /\ plan' = IF kind \in {"Read", "RemoveAll"} THEN <<>> ELSE plan
  /\ failed' = failed

\* A read gathers items, and begins again when the count is asked for again.
Gather ==
  /\ doing = "Read"
  /\ plan' = <<>> \/ Grown(plan, plan')
  /\ UNCHANGED <<doing, asked, failed>>

End(success) ==
  /\ doing # Idle /\ doing' = Idle
  /\ asked' = <<>>
  /\ failed' = IF doing = "GuidedItem" THEN failed ELSE ~success
  /\ CASE doing = "Read" /\ success -> Grown(plan, plan')
       [] doing = "Read" /\ ~success -> plan' = <<>>
       [] doing = "Write" /\ success -> plan' = asked
       [] OTHER -> plan' = plan

\* A write that cannot be sent at all.
Refuse == doing = Idle /\ failed' = TRUE /\ UNCHANGED <<doing, asked, plan>>

Next ==
  \/ \E kind \in TransferKinds : Start(kind)
  \/ \E success \in BOOLEAN : End(success)
  \/ Gather
  \/ Refuse

Spec == Init /\ [][Next]_vars
=============================================================================
