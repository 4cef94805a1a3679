----------------------------- MODULE CloudRelay -----------------------------
(***************************************************************************)
(* Cloud and WebSocket links of the web app: the host of core/cloud.ts     *)
(* that keeps a link connected, and the core it reports to                 *)
(* (cloudlink.rs), which run in one worker.  An attempt first asks the     *)
(* account server for a token (relayOnce), or goes straight to the socket  *)
(* (socketOnce); each wait is a step of its own, and the core may close    *)
(* the link during any of them.                                            *)
(*                                                                         *)
(* Link ids are fresh.  Time is left out: a delay ends when it ends, so    *)
(* how many attempts failed before (cloudBackoffMs) is left out too.       *)
(***************************************************************************)
EXTENDS Integers

CONSTANTS
  Relays,    \* link ids
  MaxLosses  \* bound of the model: attempts that fail and connections that end

ASSUME RelayAssumption == MaxLosses \in Nat

VARIABLES
  wanted,    \* of a link in the core: "new", "opened", "closed"
  connected, \* links the core takes for connected (HOSTED)
  kind,      \* "relay" or "socket" (usesWebSocket)
  send,      \* links with session.send
  close,     \* links with session.close
  phase,     \* what keepConnected waits for
  wire,      \* the transport or socket: "none", "connecting", "up", "down"
  early,     \* history: links closed while the token was awaited
  losses     \* attempts that failed and connections that ended so far

relayVars == <<wanted, connected, kind, send, close, phase, wire, early, losses>>

RelayTypeOK ==
  /\ wanted \in [Relays -> {"new", "opened", "closed"}]
  /\ connected \subseteq Relays /\ early \subseteq Relays
  /\ send \subseteq Relays /\ close \subseteq Relays
  /\ kind \in [Relays -> {"relay", "socket"}]
  /\ phase \in [Relays -> {"idle", "token", "ready", "reading", "delay", "ended"}]
  /\ wire \in [Relays -> {"none", "connecting", "up", "down"}]
  /\ losses \in 0 .. MaxLosses

RelayInit ==
  /\ wanted = [l \in Relays |-> "new"]
  /\ connected = {} /\ early = {} /\ send = {} /\ close = {}
  /\ kind \in [Relays -> {"relay", "socket"}]
  /\ phase = [l \in Relays |-> "idle"]
  /\ wire = [l \in Relays |-> "none"]
  /\ losses = 0

Stopped(l) == wanted[l] = "closed" \* session.stopped, and sessions no longer lists it

-----------------------------------------------------------------------------
(* keepConnected.                                                          *)

\* The transport or the socket is made.
Connecting(l) ==
  /\ phase' = [phase EXCEPT ![l] = "ready"]
  /\ close' = close \cup {l}
  /\ wire' = [wire EXCEPT ![l] = "connecting"]

\* keepConnected's first lines: a relay first asks for a token.
Attempting(l) ==
  CASE wanted'[l] = "closed" -> phase' = [phase EXCEPT ![l] = "ended"] /\ UNCHANGED <<close, wire>>
    [] wanted'[l] # "closed" /\ kind[l] = "socket" -> Connecting(l)
    [] OTHER -> phase' = [phase EXCEPT ![l] = "token"] /\ UNCHANGED <<close, wire>>

\* The end of an attempt and its finally; unless the link was closed meanwhile the
\* core is told and the next attempt put off.
EndingForGood(l) == \* fault: a failed attempt is not followed by another
  /\ phase' = [phase EXCEPT ![l] = IF Stopped(l) \/ l \notin send THEN "ended" ELSE "delay"]
  /\ wire' = [wire EXCEPT ![l] = "none"]
  /\ send' = send \ {l} /\ close' = close \ {l}
  /\ connected' = connected \ {l}
Ending(l) ==
  /\ phase' = [phase EXCEPT ![l] = IF Stopped(l) THEN "ended" ELSE "delay"]
  /\ wire' = [wire EXCEPT ![l] = "none"]
  /\ send' = send \ {l} /\ close' = close \ {l}
  /\ connected' = connected \ {l}

Losing == losses < MaxLosses /\ losses' = losses + 1

\* relayToken answers: with a token the transport is made.
TokenGiven(l) ==
  /\ phase[l] = "token"
  /\ Connecting(l)
  /\ UNCHANGED <<wanted, connected, kind, send, early, losses>>

TokenRefused(l) ==
  /\ phase[l] = "token" /\ Losing
  /\ Ending(l)
  /\ UNCHANGED <<wanted, kind, early>>

\* The transport is ready or the socket is open; host_opened knows only links that
\* are still wanted.
WireUp(l) ==
  /\ phase[l] = "ready" /\ wire[l] = "connecting"
  /\ phase' = [phase EXCEPT ![l] = "reading"]
  /\ wire' = [wire EXCEPT ![l] = "up"]
  /\ send' = send \cup {l}
  /\ connected' = IF Stopped(l) THEN connected ELSE connected \cup {l}
  /\ UNCHANGED <<wanted, kind, close, early, losses>>

\* It fails or ends by itself.
WireLost(l) ==
  /\ wire[l] \in {"connecting", "up"} /\ Losing
  /\ Ending(l)
  /\ UNCHANGED <<wanted, kind, early>>

\* The end of one the host closed is noticed.
WireClosed(l) ==
  /\ wire[l] = "down"
  /\ Ending(l)
  /\ UNCHANGED <<wanted, kind, early, losses>>

DelayEnds(l) ==
  /\ phase[l] = "delay"
  /\ UNCHANGED wanted
  /\ Attempting(l)
  /\ UNCHANGED <<connected, kind, send, early, losses>>

-----------------------------------------------------------------------------
(* The core.                                                               *)

\* CloudLink::open and open_socket, with the host's open.
RelayOpen(l) ==
  /\ wanted[l] = "new" /\ wanted' = [wanted EXCEPT ![l] = "opened"]
  /\ Attempting(l)
  /\ UNCHANGED <<connected, kind, send, early, losses>>

\* CloudLink::close, with the host's close.
Hanging(l) == UNCHANGED wire \* fault: session.close is not called
Closing(l) == wire' = IF l \in close THEN [wire EXCEPT ![l] = "down"] ELSE wire

RelayClose(l) ==
  /\ wanted[l] = "opened" /\ wanted' = [wanted EXCEPT ![l] = "closed"]
  /\ connected' = connected \ {l}
  /\ Closing(l)
  /\ early' = IF phase[l] = "token" THEN early \cup {l} ELSE early
  /\ UNCHANGED <<kind, send, close, phase, losses>>

Loop(l) ==
  TokenGiven(l) \/ TokenRefused(l) \/ WireUp(l) \/ WireLost(l) \/ WireClosed(l) \/ DelayEnds(l)

RelayNext == \E l \in Relays : RelayOpen(l) \/ RelayClose(l) \/ Loop(l)

RelaySpec == RelayInit /\ [][RelayNext]_relayVars

\* The worker's event loop runs, and the browser answers every wait of an attempt.
RelayFairness ==
  \A l \in Relays :
    WF_relayVars(TokenGiven(l) \/ WireUp(l) \/ WireClosed(l) \/ DelayEnds(l))
RelayFairSpec == RelaySpec /\ RelayFairness

-----------------------------------------------------------------------------
(* What the host promises the core.                                        *)

\* A link the core takes for connected can send, and only a link of the core's is
\* taken for connected (host_opened, host_closed, session.send); a link it closed
\* leaves no transport open behind it, unless it was closed while its token was
\* awaited (close of cloud.ts).
WiresFollowTheCore ==
  /\ \A l \in connected : l \in send /\ wire[l] = "up" /\ wanted[l] = "opened"
  /\ \A l \in Relays : Stopped(l) /\ wire[l] \in {"connecting", "up"} => l \in early

\* Once the losses stop, a link the core wants gets connected (keepConnected).
WantedLinksConnect ==
  \A l \in Relays : (wanted[l] = "opened") ~> (l \in connected \/ Stopped(l))
=============================================================================
