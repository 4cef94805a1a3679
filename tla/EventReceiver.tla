---------------------------- MODULE EventReceiver ----------------------------
(***************************************************************************)
(* The events of a vehicle (libevents.rs, Receiver): numbered, kept by the *)
(* vehicle for a while, delivered in order, and asked for again when one   *)
(* is missing, by whichever of an event, the current number, an error and  *)
(* a timer shows it first.  A vehicle that restarts numbers from the start *)
(* again; the station tells a restart by the time of an event alone, and   *)
(* so takes an old event that was answered twice for one as well.          *)
(*                                                                         *)
(* Events are numbered without end here; what is sent is the number modulo *)
(* Modulus, of which the code has 2^16.                                    *)
(***************************************************************************)
EXTENDS Integers, Sequences

CONSTANTS
  Modulus,     \* numbers there are on the wire
  First,       \* the events a vehicle may have had when the station hears it first
  Depth,       \* events the vehicle keeps
  MaxEvents,   \* bound: events that happen
  MaxDrops,    \* bound: messages lost or repeated
  MaxRestarts, \* bound: restarts of the vehicle
  MaxSetBacks  \* bound: restarts that are none

ASSUME EventsAssumption ==
  /\ {Modulus, Depth, MaxEvents, MaxDrops, MaxRestarts, MaxSetBacks} \subseteq Nat /\ First \subseteq Nat
  /\ Depth >= 1 /\ Modulus > 2 * MaxEvents + 2

VARIABLES
  latest, current, \* the station's numbers, or Unknown
  stamp,     \* the event of last_timestamp_ms, or Unstamped
  retry,     \* it asks again when RETRY_MS are over
  boot,      \* how often the vehicle restarted
  newest,    \* its newest event, 0 when there is none
  told,      \* whether it has sent its current number since it started
  asked,     \* requests on their way to it
  arriving,  \* messages on their way to the station
  drops, happened, setBacks, \* what the bounds count
  delivered, \* history: the events delivered, in this order
  basis      \* history: of which boot, and from which event on, latest counts

station == <<latest, current, stamp, retry, setBacks, delivered, basis>>
board == <<boot, newest, told, happened>>
eventVars == <<station, board, asked, arriving, drops>>

Unknown == -1
Unstamped == [boot |-> -1, n |-> 0]
Number(n) == n % Modulus
Successor(n) == (n + 1) % Modulus
Predecessor(n) == (n + Modulus - 1) % Modulus
\* compare
Newer(expected, n) == (n - expected) % Modulus \in 1 .. (Modulus - 1) \div 2

\* What the vehicle keeps.
Available == {n \in 1 .. newest : n > newest - Depth}
\* The oldest of them after number s, or the next to come.
OldestAfter(s) ==
  IF Available = {} \/ Newer(Number(newest), s) THEN newest + 1
  ELSE CHOOSE n \in Available : \A m \in Available : n <= m

Event(n) == [what |-> "event", n |-> n, boot |-> boot, reset |-> FALSE]
Current == [what |-> "current", n |-> newest, boot |-> boot, reset |-> ~told]
NotAvailable(s) == [what |-> "error", n |-> OldestAfter(s), boot |-> boot, reset |-> FALSE, of |-> s]

EventTypeOK ==
  /\ {latest, current} \subseteq 0 .. Modulus - 1 \cup {Unknown} /\ retry \in BOOLEAN
  /\ stamp \in [boot : 0 .. boot, n : Nat] \cup {Unstamped}
  /\ boot \in 0 .. MaxRestarts /\ newest \in Nat /\ told \in BOOLEAN
  /\ asked \in Seq(0 .. Modulus - 1) /\ Len(asked) <= 2 /\ Len(arriving) <= 2
  /\ drops \in 0 .. MaxDrops /\ setBacks \in 0 .. MaxSetBacks /\ happened \in 0 .. MaxEvents
  /\ retry => latest # Unknown

EventInit ==
  /\ latest = Unknown /\ current = Unknown /\ stamp = Unstamped /\ retry = FALSE
  /\ boot = 0 /\ newest \in First /\ told \in BOOLEAN
  /\ asked = <<>> /\ arriving = <<>>
  /\ drops = 0 /\ happened = 0 /\ setBacks = 0 /\ delivered = <<>> /\ basis = [boot |-> -1, from |-> 0]

-----------------------------------------------------------------------------
(* The vehicle.                                                            *)

Say(m) == Len(arriving) < 2 /\ arriving' = Append(arriving, m)

EventHappens ==
  /\ happened < MaxEvents /\ happened' = happened + 1
  /\ newest' = newest + 1 /\ Say(Event(newest'))
  /\ UNCHANGED <<station, boot, told, asked, drops>>

\* The current number is sent again and again.
CurrentSent ==
  /\ arriving = <<>> /\ Say(Current) /\ told' = TRUE
  /\ UNCHANGED <<station, boot, newest, happened, asked, drops>>

\* A request is answered with the event, or with the oldest one kept.
Serve ==
  /\ asked # <<>> /\ asked' = Tail(asked)
  /\ LET s == Head(asked)
         found == {n \in Available : Number(n) = s}
     IN \/ \E n \in found : Say(Event(n))
        \/ found = {} /\ Say(NotAvailable(s))
  /\ UNCHANGED <<station, board, drops>>

Restart ==
  /\ boot < MaxRestarts /\ boot' = boot + 1 /\ newest' = 0 /\ told' = FALSE
  /\ UNCHANGED <<station, happened, asked, arriving, drops>>

\* A message comes over a second link as well.
Repeat ==
  /\ drops < MaxDrops /\ drops' = drops + 1
  /\ Len(arriving) = 1 /\ arriving' = arriving \o arriving
  /\ UNCHANGED <<station, board, asked>>

Drop ==
  /\ drops < MaxDrops /\ drops' = drops + 1
  /\ \/ asked # <<>> /\ asked' = Tail(asked) /\ UNCHANGED arriving
     \/ arriving # <<>> /\ arriving' = Tail(arriving) /\ UNCHANGED asked
  /\ UNCHANGED <<station, board>>

-----------------------------------------------------------------------------
(* The station.                                                            *)

\* event_request with request: the timer starts. Two requests wait here at a time; of a
\* third only its timer counts.
Request(s) == retry' = TRUE /\ asked' = IF Len(asked) < 2 THEN Append(asked, s) ELSE asked
NoRequest == UNCHANGED <<retry, asked>>

\* A latest set anew counts from event n on.
From(m, n) == basis' = [boot |-> m.boot, from |-> n]

OnNewerLost(expected, m) == \* fault: the newer event is taken, the gap forgotten
  /\ latest' = Number(m.n) /\ retry' = FALSE /\ UNCHANGED asked
  /\ delivered' = Append(delivered, m) /\ UNCHANGED <<current, basis>>
\* on_event: one is missing.
OnNewer(expected, m) == Request(expected) /\ UNCHANGED <<latest, current, delivered, basis>>

\* on_event: the next one; there may be more.
OnNext(m, now) ==
  /\ latest' = Number(m.n) /\ delivered' = Append(delivered, m)
  /\ current' = now
  /\ IF now # Unknown /\ Newer(Number(m.n), now)
     THEN Request(Successor(Number(m.n)))
     ELSE retry' = FALSE /\ UNCHANGED asked

\* The last event delivered was ten seconds later, which alone shows a restart: of a new
\* boot that may be, and of the same boot if the event is an older one.
TenSecondsLater(m) ==
  /\ stamp # Unstamped
  /\ \/ stamp.boot < m.boot
     \/ stamp.boot = m.boot /\ stamp.n > m.n /\ setBacks < MaxSetBacks

\* on_event
OnEvent(m, restarted) ==
  LET anew == restarted \/ latest = Unknown
      expected == IF anew THEN Number(m.n) ELSE Successor(latest)
  IN
  /\ restarted => TenSecondsLater(m)
  /\ setBacks' = IF restarted /\ stamp.boot = m.boot THEN setBacks + 1 ELSE setBacks
  /\ stamp' = IF stamp = Unstamped \/ Number(m.n) = expected
              THEN [boot |-> m.boot, n |-> m.n] ELSE stamp
  /\ IF Number(m.n) = expected
     THEN /\ OnNext(m, IF restarted THEN Unknown ELSE current)
          /\ IF anew THEN From(m, m.n) ELSE UNCHANGED basis
     ELSE IF Newer(expected, Number(m.n)) THEN OnNewer(expected, m)
     ELSE NoRequest /\ UNCHANGED <<latest, current, delivered, basis>>

MissingSeveral(base, n) == Newer(Successor(base), n) \* fault: a single one is not missed
\* on_current: there are events after base.
Missing(base, n) == Newer(base, n)

\* on_current
OnCurrent(m) ==
  LET anew == m.reset \/ latest = Unknown
      base == IF anew THEN Number(m.n) ELSE latest
  IN
  /\ latest' = base /\ current' = Number(m.n)
  /\ IF anew THEN From(m, m.n + 1) ELSE UNCHANGED basis
  /\ IF Missing(base, Number(m.n)) THEN Request(Successor(base)) ELSE NoRequest
  /\ UNCHANGED delivered

\* on_error: what is gone is skipped.
OnError(m) ==
  /\ IF latest # Unknown /\ Successor(latest) = m.of
     THEN latest' = Predecessor(Number(m.n)) /\ Request(Number(m.n))
     ELSE NoRequest /\ UNCHANGED latest
  /\ UNCHANGED <<current, delivered, basis>>

MessageArrives ==
  /\ arriving # <<>> /\ arriving' = Tail(arriving)
  /\ LET m == Head(arriving) IN
     CASE m.what = "event" -> \E restarted \in BOOLEAN : OnEvent(m, restarted)
       [] m.what = "current" -> OnCurrent(m) /\ UNCHANGED <<stamp, setBacks>>
       [] m.what = "error" -> OnError(m) /\ UNCHANGED <<stamp, setBacks>>
  /\ UNCHANGED <<board, drops>>

\* on_tick
Tick ==
  /\ retry /\ latest # Unknown /\ asked = <<>> /\ Request(Successor(latest))
  /\ UNCHANGED <<latest, current, stamp, setBacks, delivered, basis, board, arriving, drops>>

EventNext ==
  EventHappens \/ CurrentSent \/ Serve \/ Restart \/ Drop \/ Repeat \/ MessageArrives \/ Tick

EventSpec == EventInit /\ [][EventNext]_eventVars

\* The vehicle answers and tells its number, messages arrive, the timer runs out.
EventFairness ==
  /\ WF_eventVars(CurrentSent) /\ WF_eventVars(Serve)
  /\ WF_eventVars(MessageArrives) /\ WF_eventVars(Tick)
EventFairSpec == EventSpec /\ EventFairness

-----------------------------------------------------------------------------
(* What is promised.                                                       *)

\* Events are delivered in their order and once, as long as no old one was taken for a
\* restart; and none is passed over, also then, that the vehicle still keeps: of its
\* current boot, from the first the station counts from to latest.
InOrderAndWhole ==
  /\ setBacks = 0 => \A i, j \in DOMAIN delivered : i < j =>
       \/ delivered[i].boot < delivered[j].boot
       \/ delivered[i].boot = delivered[j].boot /\ delivered[i].n < delivered[j].n
  /\ latest # Unknown /\ basis.boot = boot =>
       \A n \in Available :
         n >= basis.from /\ ~Newer(latest, Number(n)) => Event(n) \in {delivered[i] : i \in DOMAIN delivered}

\* A station that knows the vehicle's boot comes to have all its events, or to know that
\* the vehicle keeps them no more.
Behind == basis.boot = boot /\ latest # Number(newest)
CatchesUp == Behind ~> ~Behind
=============================================================================
