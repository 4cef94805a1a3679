------------------------------- MODULE MCWeb --------------------------------
(***************************************************************************)
(* The hosts of the web app on small instances: the settings of three      *)
(* tabs, the paths two components hold, three serial links on one port,    *)
(* and two cloud or WebSocket links.  They share no state; a behaviour     *)
(* exercises one part while the others rest.                               *)
(***************************************************************************)
EXTENDS SettingsTabs, WatchBridge, WebSerial, CloudRelay

CONSTANTS t1, t2, t3, muted, theme, mode, attitude, c1, c2, l1, l2, l3, p1, r1, r2
MCTabs == {t1, t2, t3}
MCKeys == {muted, theme}
MCPaths == {mode, attitude}
MCMotion == {attitude}
MCComponents == {c1, c2}
MCLinks == {l1, l2, l3}
MCPorts == {p1}
MCRelays == {r1, r2}

\* The core numbers its links in the order it opens them.
InOrder == (life[l3] # "new" => life[l2] # "new") /\ (life[l2] # "new" => life[l1] # "new")

VARIABLE part \* what the behaviour exercises

MCInit ==
  /\ Init /\ WatchInit /\ SerialInit /\ RelayInit
  /\ part \in {"settings", "watches", "serial", "cloud"}
  /\ part # "cloud" => \A l \in Relays : kind[l] = "relay"
MCNext ==
  \/ part = "settings" /\ Next /\ UNCHANGED <<part, watchVars, serialVars, relayVars>>
  \/ part = "watches" /\ WatchNext /\ UNCHANGED <<part, vars, serialVars, relayVars>>
  \/ part = "serial" /\ SerialNext /\ InOrder' /\ UNCHANGED <<part, vars, watchVars, relayVars>>
  \/ part = "cloud" /\ RelayNext /\ UNCHANGED <<part, vars, watchVars, serialVars>>

\* The type invariant of each part.
MCTypeOK == TypeOK /\ WatchTypeOK /\ SerialTypeOK /\ RelayTypeOK

MCVars == <<vars, watchVars, serialVars, relayVars, part>>

\* One weak fairness per part for all that its module asks: while anything is owed
\* by the event loops and the browser, something of it happens.  The operator's and
\* the network's doings are bounded here, so that nothing is starved by the rest.
MCSpec ==
  /\ MCInit /\ [][MCNext]_MCVars
  /\ WF_vars(\E t \in Tabs : WorkerStep(t) \/ PageStep(t))
  /\ WF_watchVars(Publish \/ CoreWatch \/ Poll(Paths))
  /\ WF_serialVars(CoreHears \/ PageHandles \/ \E p \in Ports : Turn(p))
  /\ WF_relayVars(\E l \in Relays : TokenGiven(l) \/ WireUp(l) \/ WireClosed(l) \/ DelayEnds(l))
=============================================================================
