--------------------------- MODULE CommandPromise ---------------------------
(***************************************************************************)
(* What the coordinator of commands promises to whoever hands it a command *)
(* or asks it for a message: one answer at most, and none before the ask.  *)
(***************************************************************************)
EXTENDS Integers, Sequences

CONSTANTS Asks, Outcomes

VARIABLES
  asked,  \* the asks made
  answer  \* what each ask was told, <<>> before

vars == <<asked, answer>>

Init == asked = {} /\ answer = [ask \in Asks |-> <<>>]

Next ==
  /\ asked \subseteq asked' /\ asked' \subseteq Asks
  /\ answer' \in [Asks -> Seq(Outcomes)]
  /\ \A ask \in Asks :
       \/ answer'[ask] = answer[ask]
       \/ /\ ask \in asked' /\ answer[ask] = <<>>
          /\ \E outcome \in Outcomes : answer'[ask] = <<outcome>>

Spec == Init /\ [][Next]_vars
=============================================================================
