---------------------------- MODULE WatchBridge -----------------------------
(***************************************************************************)
(* How the pages of the web app see the core's state: the registry of the  *)
(* paths their components hold and the values published for them           *)
(* (bridge/Qgc.ts), the calls and events between page and worker           *)
(* (core/client.ts, core/worker.ts), and the core's watches and polls      *)
(* (router.rs), which the web build runs in one thread.  Both directions   *)
(* are FIFO channels; calls made before the core is loaded wait in theirs. *)
(*                                                                         *)
(* A path's value is a number that grows with every change.                *)
(***************************************************************************)
EXTENDS Integers, Sequences, FiniteSets

CONSTANTS
  Paths,
  Motion,     \* the paths of the fast poll (poll_motion)
  Components, \* components that may hold a path
  MaxValue,   \* bound of the model: changes of a path's value
  MaxWatches  \* bound of the model: times a component comes to hold a path

NoPath == "NoPath"

ASSUME WatchAssumption ==
  /\ Motion \subseteq Paths /\ IsFiniteSet(Components) /\ NoPath \notin Paths
  /\ MaxValue \in Nat /\ MaxWatches \in Nat

VARIABLES
  holds,   \* the path a mounted component holds (useQgcPath)
  watched, \* registry.watched, 0 for a path that is not in it
  latest,  \* the values published last
  asking,  \* watchClient calls in flight to the core: sets of paths
  asked,   \* the core's watched paths
  shown,   \* the values the core delivered last
  source,  \* the values in the core
  telling, \* events in flight to the page
  watches, \* times a component came to hold a path
  seen     \* history: the newest value ever published, whatever was dropped since

watchVars == <<holds, watched, latest, asking, asked, shown, source, telling, watches, seen>>

Absent == -1 \* no value, or no path
Values == 0 .. MaxValue

WatchTypeOK ==
  /\ holds \in [Components -> Paths \cup {NoPath}]
  /\ watched \in [Paths -> 0 .. Cardinality(Components)]
  /\ latest \in [Paths -> Values \cup {Absent}]
  /\ asking \in Seq(SUBSET Paths)
  /\ asked \subseteq Paths
  /\ shown \in [Paths -> Values \cup {Absent}]
  /\ source \in [Paths -> Values]
  /\ telling \in Seq([path : Paths, value : Values])
  /\ watches \in 0 .. MaxWatches
  /\ seen \in [Paths -> Values \cup {Absent}]

WatchInit ==
  /\ holds = [c \in Components |-> NoPath]
  /\ watched = [p \in Paths |-> 0]
  /\ latest = [p \in Paths |-> Absent]
  /\ asking = <<>> /\ asked = {} /\ telling = <<>>
  /\ shown = [p \in Paths |-> Absent]
  /\ source = [p \in Paths |-> 0]
  /\ watches = 0 /\ seen = [p \in Paths |-> Absent]

-----------------------------------------------------------------------------
(* The page.                                                               *)

KeysOf(counts) == {p \in DOMAIN counts : counts[p] > 0}

\* retained and released
Retained(p) == [watched EXCEPT ![p] = @ + 1]
ReleasedAtOnce(p) == [watched EXCEPT ![p] = 0] \* fault: the first to leave drops the path
ReleasedOnlyLast(p) == [watched EXCEPT ![p] = IF @ = 1 THEN 0 ELSE @] \* fault: not counted down
Released(p) == [watched EXCEPT ![p] = IF @ = 0 THEN 0 ELSE @ - 1]

\* sendWatch, when the set of paths changed (sameKeys).
Resending(next) ==
  IF KeysOf(next) = KeysOf(watched) THEN UNCHANGED asking
  ELSE asking' = Append(asking, KeysOf(next))

\* A component is shown, or turns to a path: Qgc.watch.
Watch(c, p) ==
  /\ watches < MaxWatches /\ watches' = watches + 1
  /\ holds[c] = NoPath /\ holds' = [holds EXCEPT ![c] = p]
  /\ watched' = Retained(p)
  /\ Resending(watched')
  /\ UNCHANGED <<latest, asked, shown, source, telling, seen>>

\* It goes: Qgc.unwatch, which forgets the value of a path nobody holds any more.
Unwatch(c) ==
  LET p == holds[c] IN
  /\ p # NoPath /\ holds' = [holds EXCEPT ![c] = NoPath]
  /\ watched' = Released(p)
  /\ Resending(watched')
  /\ latest' = IF watched'[p] = 0 THEN [latest EXCEPT ![p] = Absent] ELSE latest
  /\ UNCHANGED <<asked, shown, source, telling, watches, seen>>

\* The history of what is published.
Sees(e) == seen' = [seen EXCEPT ![e.path] = IF e.value > @ THEN e.value ELSE @]

\* onCoreEvent and publish.
PublishLast == \* fault: events handled together are applied newest first
  LET e == telling[Len(telling)] IN
  /\ telling # <<>> /\ telling' = SubSeq(telling, 1, Len(telling) - 1)
  /\ latest' = [latest EXCEPT ![e.path] = e.value] /\ Sees(e)
  /\ UNCHANGED <<holds, watched, asking, asked, shown, source, watches>>
Publish ==
  LET e == Head(telling) IN
  /\ telling # <<>> /\ telling' = Tail(telling)
  /\ latest' = [latest EXCEPT ![e.path] = e.value] /\ Sees(e)
  /\ UNCHANGED <<holds, watched, asking, asked, shown, source, watches>>

-----------------------------------------------------------------------------
(* The core.                                                               *)

\* A value changes.
SourceChanges(p) ==
  /\ source[p] < MaxValue
  /\ source' = [source EXCEPT ![p] = @ + 1]
  /\ UNCHANGED <<holds, watched, latest, asking, asked, shown, telling, watches, seen>>

\* watch: what is no longer asked, and what is asked anew, counts as never shown.
StillShown(paths) == shown \* fault: a path asked anew is not delivered anew
Forgotten(paths) == [p \in Paths |-> IF p \in paths /\ p \in asked THEN shown[p] ELSE Absent]

CoreWatch ==
  /\ asking # <<>> /\ asking' = Tail(asking)
  /\ asked' = Head(asking)
  /\ shown' = Forgotten(Head(asking))
  /\ UNCHANGED <<holds, watched, latest, source, telling, watches, seen>>

\* poll and poll_motion: the values that changed since they were delivered, each once.
Changed(lane) == {p \in asked \cap lane : shown[p] # source[p]}
Orders(set) == {order \in [1 .. Cardinality(set) -> set] : \A p \in set : \E i \in DOMAIN order : order[i] = p}

Poll(lane) ==
  /\ Changed(lane) # {}
  /\ \E order \in Orders(Changed(lane)) :
       telling' = telling \o [i \in DOMAIN order |-> [path |-> order[i], value |-> source[order[i]]]]
  /\ shown' = [p \in Paths |-> IF p \in Changed(lane) THEN source[p] ELSE shown[p]]
  /\ UNCHANGED <<holds, watched, latest, asking, asked, source, watches, seen>>

WatchNext ==
  \/ \E c \in Components : Unwatch(c) \/ \E p \in Paths : Watch(c, p)
  \/ Publish \/ CoreWatch
  \/ \E p \in Paths : SourceChanges(p)
  \/ Poll(Paths) \/ Poll(Motion)

WatchSpec == WatchInit /\ [][WatchNext]_watchVars

\* Both event loops run, and the worker's timer polls.
WatchFairness == WF_watchVars(Publish) /\ WF_watchVars(CoreWatch) /\ WF_watchVars(Poll(Paths))
WatchFairSpec == WatchSpec /\ WatchFairness

-----------------------------------------------------------------------------
(* What a component may rely on.                                           *)

Held == {holds[c] : c \in Components} \ {NoPath}
LastAsked == IF asking = <<>> THEN asked ELSE asking[Len(asking)]

\* The core watches, or has been asked to, exactly the paths some component holds,
\* whichever came and went in between (retained, released, resend).
WatchesWhatIsHeld == LastAsked = Held /\ KeysOf(watched) = Held

\* The value a component sees of a path is never older than one shown before, to it or
\* to another, also when the path was dropped and watched anew meanwhile and events of
\* the earlier watch were still on their way (events in order, shown of router.rs).
NeverGoesBack == \A p \in Paths : latest[p] \in {Absent, seen[p]}

\* A path that stays held shows each value of the core's, or a newer one, in the end
\* (publish(path, null) and the core's forgetting what it showed go together).
HeldPathsCatchUp ==
  \A p \in Paths, v \in Values :
    (p \in Held /\ source[p] = v) ~> (p \notin Held \/ latest[p] >= v)
=============================================================================
