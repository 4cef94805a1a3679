----------------------------- MODULE MCVehicle ------------------------------
(***************************************************************************)
(* One vehicle on a small instance: its initial connect, and the reads and *)
(* writes of two of its parameters afterwards.  The two share no variable; *)
(* a behaviour exercises one while the other rests.  The vehicle takes     *)
(* what is written to q2, and treats q1 in any way.                        *)
(***************************************************************************)
EXTENDS MCConnect, ParamWrites

CONSTANTS q1, q2
MCNames == {q1, q2}
MCValues == 0 .. 2

VARIABLE connects \* the behaviour exercises the connect

\* The connect is complete, nothing of it under way.
Connected ==
  /\ autopilot = "Other" /\ step = Complete
  /\ supported = {} /\ refreshes = MaxRefreshes
  /\ highLatency = FALSE /\ flying = FALSE
  /\ fetch = None /\ http = None /\ fallback = FALSE /\ job = FALSE
  /\ loading = FALSE /\ loaded = TRUE
  /\ packDeclined = FALSE /\ packRetries = 0 /\ packDue = FALSE
  /\ plans = [plan \in Plans |-> "Idle"]
  /\ asked = AsksOf(Complete) /\ mode = 1

MCInit ==
  /\ connects \in BOOLEAN
  /\ IF connects THEN Init ELSE Connected
  /\ ParamInit /\ treats[q2] = "takes"
  /\ connects => treats[q1] = "takes"
\* Whatever may be asked is answered: nothing is left to happen.
AllAnswered == asks = MaxAsks /\ reads = NoRequests /\ writes = NoRequests

MCNext ==
  \/ connects /\ Next /\ UNCHANGED <<connects, paramVars>>
  \/ ~connects /\ ParamNext /\ UNCHANGED <<connects, vars>>
  \/ ~connects /\ AllAnswered /\ UNCHANGED <<connects, vars, paramVars>>
MCVars == <<vars, paramVars, connects>>

\* The type invariant of both.
MCTypeOK == TypeOK /\ ParamTypeOK

MCSpec == MCInit /\ [][MCNext]_MCVars /\ Fairness /\ ParamFairness
=============================================================================
