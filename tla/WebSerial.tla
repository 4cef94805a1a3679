----------------------------- MODULE WebSerial ------------------------------
(***************************************************************************)
(* Serial links of the web app.  The core, in its worker, opens and closes *)
(* links by their id (platformserial.rs, posted by worker.ts); the page    *)
(* opens, reads and closes the browser's serial ports for it               *)
(* (core/client.ts) and tells the core of a link that closed.  Both        *)
(* directions are FIFO channels.  A port is the browser's: it opens and    *)
(* closes in its own time, its stream may fail, and it may be unplugged.   *)
(*                                                                         *)
(* Link ids are fresh.  Writes and the bytes read change nothing here.     *)
(***************************************************************************)
EXTENDS Integers, Sequences, FiniteSets

CONSTANTS
  Links,     \* link ids
  Ports,     \* the ports the operator allowed
  MaxFaults, \* bound of the model: streams that fail
  MaxUnplugs \* bound of the model: times a port is unplugged

Nothing == "Nothing"

ASSUME SerialAssumption ==
  MaxFaults \in Nat /\ MaxUnplugs \in Nat /\ Nothing \notin Links \cup Ports

VARIABLES
  life,      \* of a link in the core: "new", "opened", "closed"
  receivers, \* platformserial's RECEIVERS
  toHost,    \* serial operations in flight to the page
  toCore,    \* serialClosed calls in flight to the core
  session,   \* serialSessions
  turns,     \* portTurns: the works waiting for each port, the running one first
  port,      \* the browser's port: "closed", "opening", "open", "closing"
  reader,    \* the link whose reader holds the lock of the port's stream
  plugged,   \* the port is there
  faults,    \* streams that failed so far
  unplugs    \* ports unplugged so far

serialVars == <<life, receivers, toHost, toCore, session, turns, port, reader,
                plugged, faults, unplugs>>

NoSession == [port |-> Nothing, reading |-> FALSE]
Session == [port : Ports, reading : BOOLEAN] \cup {NoSession}
Work == [work : {"open", "close"}, link : Links, reading : BOOLEAN]

SerialTypeOK ==
  /\ life \in [Links -> {"new", "opened", "closed"}]
  /\ receivers \subseteq Links
  /\ toHost \in Seq([op : {"open"}, link : Links, port : Ports] \cup [op : {"close"}, link : Links])
  /\ toCore \in Seq(Links)
  /\ session \in [Links -> Session]
  /\ turns \in [Ports -> Seq(Work)]
  /\ port \in [Ports -> {"closed", "opening", "open", "closing"}]
  /\ reader \in [Ports -> Links \cup {Nothing}]
  /\ plugged \in [Ports -> BOOLEAN]
  /\ faults \in 0 .. MaxFaults /\ unplugs \in 0 .. MaxUnplugs

SerialInit ==
  /\ life = [l \in Links |-> "new"] /\ receivers = {} /\ toHost = <<>> /\ toCore = <<>>
  /\ session = [l \in Links |-> NoSession]
  /\ turns = [p \in Ports |-> <<>>]
  /\ port = [p \in Ports |-> "closed"]
  /\ reader = [p \in Ports |-> Nothing]
  /\ plugged = [p \in Ports |-> TRUE]
  /\ faults = 0 /\ unplugs = 0

browser == <<port, reader, plugged, faults, unplugs>>
core == <<life, receivers>>

-----------------------------------------------------------------------------
(* The core.                                                               *)

\* PlatformSerial::open: the receiver is there before the host is asked.
CoreOpen(l, p) ==
  /\ life[l] = "new" /\ life' = [life EXCEPT ![l] = "opened"]
  /\ receivers' = receivers \cup {l}
  /\ toHost' = Append(toHost, [op |-> "open", link |-> l, port |-> p])
  /\ UNCHANGED <<toCore, session, turns, browser>>

\* PlatformSerial::close, of a link that may be opening, open or lost by now.
CoreClose(l) ==
  /\ life[l] = "opened" /\ life' = [life EXCEPT ![l] = "closed"]
  /\ receivers' = receivers \ {l}
  /\ toHost' = Append(toHost, [op |-> "close", link |-> l])
  /\ UNCHANGED <<toCore, session, turns, browser>>

\* platformserial::closed
CoreHears ==
  /\ toCore # <<>>
  /\ toCore' = Tail(toCore)
  /\ receivers' = receivers \ {Head(toCore)}
  /\ UNCHANGED <<life, toHost, session, turns, browser>>

-----------------------------------------------------------------------------
(* The page.                                                               *)

\* serialClosed
ClosedSilently(l) == \* fault: the core is not told
  /\ session' = [session EXCEPT ![l] = NoSession]
  /\ UNCHANGED toCore
SerialClosed(l) ==
  /\ session' = [session EXCEPT ![l] = NoSession]
  /\ toCore' = Append(toCore, l)

\* onPort: a work waits for the one before it, however that one ends.
MayRunWhenFree(p) == \* fault: an open waits for a port another link holds
  turns[p] # <<>> /\ (Head(turns[p]).work = "open" => port[p] = "closed")
MayRun(p) == turns[p] # <<>>

Running(p) == port[p] \in {"opening", "closing"}

TurnEnds(p) == turns' = [turns EXCEPT ![p] = Tail(@)]

PageTurnsTo(op) == toHost # <<>> /\ Head(toHost).op = op /\ toHost' = Tail(toHost)

\* openSerial of a port the page does not know.
OpenUnknown ==
  LET asked == Head(toHost) IN
  /\ PageTurnsTo("open") /\ ~plugged[asked.port]
  /\ SerialClosed(asked.link)
  /\ UNCHANGED <<turns, core, browser>>

\* openSerial: the open waits for its turn, the session is listed at once.
OpenSerial ==
  LET asked == Head(toHost) IN
  /\ PageTurnsTo("open")
  /\ session' = [session EXCEPT ![asked.link] = [port |-> asked.port, reading |-> FALSE]]
  /\ turns' = [turns EXCEPT ![asked.port] =
                 Append(@, [work |-> "open", link |-> asked.link, reading |-> FALSE])]
  /\ UNCHANGED <<toCore, core, browser>>

\* The close of serialOp: the session is dropped, what it held is closed in its turn.
CloseSerial ==
  LET asked == Head(toHost)
      held == session[asked.link]
  IN
  /\ PageTurnsTo("close") /\ held # NoSession
  /\ session' = [session EXCEPT ![asked.link] = NoSession]
  /\ turns' = [turns EXCEPT ![held.port] =
                 Append(@, [work |-> "close", link |-> asked.link, reading |-> held.reading])]
  /\ UNCHANGED <<toCore, core, browser>>

CloseUnknown ==
  /\ PageTurnsTo("close") /\ session[Head(toHost).link] = NoSession
  /\ UNCHANGED <<toCore, session, turns, core, browser>>

\* The work of an open: port.open() refuses at once unless the port is closed.
Openable(p) == port[p] = "closed" /\ plugged[p]

StartOpen(p) ==
  /\ MayRun(p) /\ Head(turns[p]).work = "open" /\ Openable(p)
  /\ port' = [port EXCEPT ![p] = "opening"]
  /\ UNCHANGED <<core, toHost, toCore, session, turns, reader, plugged, faults, unplugs>>

RefuseOpen(p) ==
  /\ MayRun(p) /\ Head(turns[p]).work = "open"
  /\ ~Openable(p) /\ ~Running(p)
  /\ TurnEnds(p)
  /\ SerialClosed(Head(turns[p]).link)
  /\ UNCHANGED <<core, toHost, browser>>

\* port.open() fails.
OpenFails(p) ==
  /\ port[p] = "opening"
  /\ port' = [port EXCEPT ![p] = "closed"]
  /\ TurnEnds(p)
  /\ SerialClosed(Head(turns[p]).link)
  /\ UNCHANGED <<core, toHost, reader, plugged, faults, unplugs>>

\* port.open() succeeds: openSerial takes the stream's reader, and only then
\* looks whether the link was closed meanwhile.
OpenSucceeds(p) ==
  LET l == Head(turns[p]).link IN
  /\ port[p] = "opening"
  /\ port' = [port EXCEPT ![p] = "open"]
  /\ TurnEnds(p)
  /\ reader' = [reader EXCEPT ![p] = l]
  /\ IF session[l] = NoSession THEN SerialClosed(l)
     ELSE session' = [session EXCEPT ![l].reading = TRUE] /\ UNCHANGED toCore
  /\ UNCHANGED <<core, toHost, plugged, faults, unplugs>>

\* The work of a close: the session's reader is cancelled, its writer released,
\* and port.close() succeeds unless another reader holds the stream.
Closable(p) == Head(turns[p]).reading \/ reader[p] = Nothing

StartClose(p) ==
  /\ MayRun(p) /\ Head(turns[p]).work = "close"
  /\ port[p] = "open" /\ Closable(p)
  /\ port' = [port EXCEPT ![p] = "closing"]
  /\ reader' = [reader EXCEPT ![p] = Nothing]
  /\ UNCHANGED <<core, toHost, toCore, session, turns, plugged, faults, unplugs>>

\* port.close() is refused; nobody asks again.
RefuseClose(p) ==
  /\ MayRun(p) /\ Head(turns[p]).work = "close"
  /\ ~(port[p] = "open" /\ Closable(p)) /\ ~Running(p)
  /\ TurnEnds(p)
  /\ UNCHANGED <<core, toHost, toCore, session, browser>>

EndClose(p) ==
  /\ port[p] = "closing"
  /\ port' = [port EXCEPT ![p] = "closed"]
  /\ TurnEnds(p)
  /\ UNCHANGED <<core, toHost, toCore, session, reader, plugged, faults, unplugs>>

\* readSerial gets an error or the end of the stream.
ReadEnds(p) ==
  LET l == reader[p] IN
  IF l # Nothing /\ session[l] # NoSession
  THEN SerialClosed(l)
  ELSE UNCHANGED <<session, toCore>>

\* An overrun, a break or a framing error ends the stream of an open port.
StreamFails(p) ==
  /\ port[p] = "open" /\ reader[p] # Nothing /\ session[reader[p]] # NoSession
  /\ faults < MaxFaults /\ faults' = faults + 1
  /\ ReadEnds(p)
  /\ reader' = [reader EXCEPT ![p] = Nothing]
  /\ UNCHANGED <<core, toHost, turns, port, plugged, unplugs>>

\* The port is unplugged: what was under way on it ends, and it is closed.
Unplug(p) ==
  /\ plugged[p] /\ unplugs < MaxUnplugs /\ unplugs' = unplugs + 1
  /\ plugged' = [plugged EXCEPT ![p] = FALSE]
  /\ port' = [port EXCEPT ![p] = "closed"]
  /\ reader' = [reader EXCEPT ![p] = Nothing]
  /\ IF port[p] \in {"opening", "closing"}
     THEN TurnEnds(p) ELSE UNCHANGED turns
  /\ IF port[p] = "opening" THEN SerialClosed(Head(turns[p]).link) ELSE ReadEnds(p)
  /\ UNCHANGED <<core, toHost, faults>>

Plug(p) ==
  /\ ~plugged[p]
  /\ plugged' = [plugged EXCEPT ![p] = TRUE]
  /\ UNCHANGED <<core, toHost, toCore, session, turns, port, reader, faults, unplugs>>

Turn(p) ==
  \/ StartOpen(p) \/ RefuseOpen(p) \/ StartClose(p) \/ RefuseClose(p)
  \/ OpenFails(p) \/ OpenSucceeds(p) \/ EndClose(p)
PageHandles == OpenUnknown \/ OpenSerial \/ CloseSerial \/ CloseUnknown

SerialNext ==
  \/ \E l \in Links : CoreClose(l) \/ \E p \in Ports : CoreOpen(l, p)
  \/ CoreHears \/ PageHandles
  \/ \E p \in Ports : Turn(p) \/ StreamFails(p) \/ Unplug(p) \/ Plug(p)

SerialSpec == SerialInit /\ [][SerialNext]_serialVars

\* Both event loops run, and the browser ends each open and each close.
SerialFairness ==
  /\ WF_serialVars(CoreHears) /\ WF_serialVars(PageHandles)
  /\ \A p \in Ports : WF_serialVars(Turn(p))
SerialFairSpec == SerialSpec /\ SerialFairness

-----------------------------------------------------------------------------
(* What page and core owe each other.                                      *)

Asked(op, l) == \E i \in DOMAIN toHost : toHost[i].op = op /\ toHost[i].link = l
Told(l) == \E i \in DOMAIN toCore : toCore[i] = l

\* A link the core holds is being opened or read by the page, or the news of its
\* end is on its way: no link hangs as open for ever.  And a link the page serves is
\* one the core holds, or its close is on its way: no port is read for a link that
\* is gone (serialClosed on every path, serialOp's close).
LinksAreServed ==
  /\ \A l \in receivers : Asked("open", l) \/ session[l] # NoSession \/ Told(l)
  /\ \A l \in Links : session[l] # NoSession => l \in receivers \/ Asked("close", l)

\* A port is opened again only once it has been closed
\* ("lets a port finish closing before it is opened again, even after a failure",
\* client.test.ts:5).
OpensClosedPorts ==
  \A p \in Ports :
    turns[p] # <<>> /\ Head(turns[p]).work = "open" /\ port[p] = "open" =>
      \E l \in Links \ {Head(turns[p]).link} : session[l].port = p

\* Every link the core opens is read or told to be closed (openSerial).
EveryOpenIsAnswered ==
  \A l \in Links :
    (l \in receivers) ~> (l \notin receivers \/ (session[l] # NoSession /\ session[l].reading))
=============================================================================
