----------------------------- MODULE WebProofs ------------------------------
(***************************************************************************)
(* Proofs about the hosts of the web app, for any number of links, paths,  *)
(* components and ports, and about the settings of any number of tabs.     *)
(*                                                                         *)
(* Cloud and WebSocket links (CloudRelay): what keepConnected waits for    *)
(* tells which of send, close and the wire an attempt holds.               *)
(* Watched paths (WatchBridge): what a component holds is counted, every   *)
(* list on its way asks for all paths that are counted, and the values on  *)
(* their way are in the order of the router's.                             *)
(* Serial ports (WebSerial): where a link stands at the core tells which   *)
(* turns and messages of it there may be, and in which order.              *)
(* Settings between tabs (SettingsTabs): changes are under way in one tab  *)
(* at most, which had heard of all changes before.                         *)
(***************************************************************************)
EXTENDS MCWeb, FiniteSetTheorems, SequenceTheorems, TLAPS

-----------------------------------------------------------------------------
(* CloudRelay.  What keepConnected waits for tells which of send, close    *)
(* and the wire the attempt holds.                                         *)

RelayFine(l) ==
  /\ wanted[l] = "new" <=> phase[l] = "idle"
  /\ phase[l] \in {"idle", "token", "delay", "ended"} =>
       wire[l] = "none" /\ l \notin send /\ l \notin close
  /\ phase[l] = "ready" => wire[l] \in {"connecting", "down"} /\ l \in close /\ l \notin send
  /\ phase[l] = "reading" => wire[l] \in {"up", "down"} /\ l \in close /\ l \in send
  /\ l \in connected => phase[l] = "reading" /\ wire[l] = "up" /\ wanted[l] = "opened"
  /\ Stopped(l) /\ (phase[l] = "token" \/ wire[l] \in {"connecting", "up"}) => l \in early

RelayIInv == RelayTypeOK /\ \A l \in Relays : RelayFine(l)

LEMMA RelayInitIInv == RelayInit => RelayIInv
BY RelayAssumption DEF RelayInit, RelayIInv, RelayTypeOK, RelayFine, Stopped

\* Every step of one link leaves the others alone.
LEMMA RelayStepIInv ==
  ASSUME RelayIInv, NEW l \in Relays, RelayOpen(l) \/ RelayClose(l) \/ Loop(l)
  PROVE  RelayIInv'
<1> USE DEF RelayIInv, RelayTypeOK, RelayFine, Stopped
<1>1. CASE RelayOpen(l)
  BY <1>1 DEF RelayOpen, Attempting, Connecting
<1>2. CASE RelayClose(l)
  BY <1>2 DEF RelayClose, Closing
<1>3. CASE TokenGiven(l)
  BY <1>3 DEF TokenGiven, Connecting
<1>4. CASE TokenRefused(l)
  BY <1>4, RelayAssumption DEF TokenRefused, Ending, Losing
<1>5. CASE WireUp(l)
  BY <1>5 DEF WireUp
<1>6. CASE WireLost(l)
  BY <1>6, RelayAssumption DEF WireLost, Ending, Losing
<1>7. CASE WireClosed(l)
  BY <1>7 DEF WireClosed, Ending
<1>8. CASE DelayEnds(l)
  BY <1>8 DEF DelayEnds, Attempting, Connecting
<1> QED BY <1>1, <1>2, <1>3, <1>4, <1>5, <1>6, <1>7, <1>8 DEF Loop

LEMMA RelayNextIInv == RelayIInv /\ [RelayNext]_relayVars => RelayIInv'
<1> SUFFICES ASSUME RelayIInv, [RelayNext]_relayVars PROVE RelayIInv'
  OBVIOUS
<1>1. CASE RelayNext
  BY <1>1, RelayStepIInv DEF RelayNext
<1>2. CASE UNCHANGED relayVars
  BY <1>2 DEF relayVars, RelayIInv, RelayTypeOK, RelayFine, Stopped
<1> QED BY <1>1, <1>2

\* A link the core takes for connected can send, and only a link of the core's is
\* taken for connected; a link it closed leaves no transport open behind it, unless
\* it was closed while its token was awaited (keepConnected, open and close of
\* cloud.ts with host_opened and host_closed of cloudlink.rs).
THEOREM RelaysFollowTheCore == RelaySpec => [](RelayTypeOK /\ WiresFollowTheCore)
<1>1. RelayIInv => RelayTypeOK /\ WiresFollowTheCore
  BY DEF RelayIInv, RelayTypeOK, RelayFine, WiresFollowTheCore
<1> QED BY RelayInitIInv, RelayNextIInv, <1>1, PTL DEF RelaySpec

-----------------------------------------------------------------------------
(* WatchBridge.  The registry counts the components that hold a path, and  *)
(* the last set of paths sent is that of the paths it counts.              *)

HoldersOf(p) == {c \in Components : holds[c] = p}

Registered == \A p \in Paths : watched[p] = Cardinality(HoldersOf(p))
AsksForAll == LastAsked = KeysOf(watched)

\* What is asked at any time is finitely many paths, which a poll relies on.
AsksAreFinite == IsFiniteSet(asked) /\ \A i \in DOMAIN asking : IsFiniteSet(asking[i])

\* The values of a path in flight lie between the newest the page has seen and what the
\* core has, in the order the core had them.
InFlightInOrder ==
  /\ \A p \in Paths : seen[p] <= source[p]
  /\ \A i \in DOMAIN telling : LET e == telling[i] IN
       seen[e.path] <= e.value /\ e.value <= source[e.path]
  /\ \A i, j \in DOMAIN telling :
       i < j /\ telling[i].path = telling[j].path => telling[i].value <= telling[j].value

WatchIInv ==
  WatchTypeOK /\ Registered /\ AsksForAll /\ AsksAreFinite /\ InFlightInOrder /\ NeverGoesBack

LEMMA HoldersAreCounted ==
  ASSUME NEW p
  PROVE  /\ IsFiniteSet(HoldersOf(p)) /\ Cardinality(HoldersOf(p)) \in 0 .. Cardinality(Components)
         /\ Cardinality(HoldersOf(p)) = 0 <=> HoldersOf(p) = {}
<1>1. HoldersOf(p) \in SUBSET Components
  BY DEF HoldersOf
<1>2. /\ IsFiniteSet(HoldersOf(p)) /\ Cardinality(HoldersOf(p)) \in Nat
      /\ Cardinality(HoldersOf(p)) <= Cardinality(Components) /\ Cardinality(Components) \in Nat
  BY <1>1, WatchAssumption, FS_Subset, FS_CardinalityType
<1> QED BY <1>2, FS_EmptySet

\* The paths counted are those held.
LEMMA CountedAreHeld ==
  ASSUME WatchTypeOK, Registered
  PROVE  KeysOf(watched) = Held
<1>1. ASSUME NEW p \in Paths
      PROVE  watched[p] > 0 <=> p \in Held
  <2>1. watched[p] > 0 <=> HoldersOf(p) # {}
    BY HoldersAreCounted DEF Registered
  <2>2. HoldersOf(p) # {} <=> p \in Held
    BY WatchAssumption DEF HoldersOf, Held
  <2> QED BY <2>1, <2>2
<1>2. Held \subseteq Paths
  BY DEF Held, WatchTypeOK
<1> QED BY <1>1, <1>2 DEF KeysOf, WatchTypeOK

\* So they are finitely many.
LEMMA CountedAreFinite == WatchTypeOK /\ Registered => IsFiniteSet(KeysOf(watched))
<1> SUFFICES ASSUME WatchTypeOK, Registered PROVE IsFiniteSet(KeysOf(watched))
  OBVIOUS
<1> DEFINE all == {holds[c] : c \in Components}
<1>1. holds \in Surjection(Components, all)
  BY DEF WatchTypeOK, Surjection
<1>2. IsFiniteSet(all)
  BY <1>1, WatchAssumption, FS_Surjection
<1>3. KeysOf(watched) \in SUBSET all
  BY CountedAreHeld DEF Held
<1> QED BY <1>2, <1>3, FS_Subset

LEMMA WatchInitIInv == WatchInit => WatchIInv
<1> SUFFICES ASSUME WatchInit PROVE WatchIInv
  OBVIOUS
<1>1. WatchTypeOK
  BY WatchAssumption, FS_CardinalityType DEF WatchInit, WatchTypeOK, Values, Absent
<1>2. Registered
  <2> SUFFICES ASSUME NEW p \in Paths PROVE HoldersOf(p) = {}
    BY HoldersAreCounted DEF WatchInit, Registered
  <2> QED BY WatchAssumption DEF WatchInit, HoldersOf
<1>3. AsksForAll /\ AsksAreFinite /\ InFlightInOrder /\ NeverGoesBack
  BY FS_EmptySet DEF WatchInit, AsksForAll, AsksAreFinite, LastAsked, KeysOf, InFlightInOrder, NeverGoesBack, Absent
<1> QED BY <1>1, <1>2, <1>3 DEF WatchIInv

\* What the page sends last is the set of paths it counts, whatever changed.
LEMMA ResendingAsks ==
  ASSUME WatchTypeOK, Registered, AsksForAll, AsksAreFinite,
         watched' \in [Paths -> 0 .. Cardinality(Components)],
         NEW p, KeysOf(watched') \subseteq KeysOf(watched) \cup {p},
         Resending(watched'), UNCHANGED asked
  PROVE  asking' \in Seq(SUBSET Paths) /\ AsksForAll' /\ AsksAreFinite'
<1>1. CASE KeysOf(watched') = KeysOf(watched)
  BY <1>1 DEF Resending, WatchTypeOK, KeysOf, AsksForAll, LastAsked, AsksAreFinite
<1>2. CASE KeysOf(watched') # KeysOf(watched)
  <2>1. asking \in Seq(SUBSET Paths) /\ KeysOf(watched') \in SUBSET Paths
        /\ asking' = Append(asking, KeysOf(watched'))
    BY <1>2 DEF Resending, WatchTypeOK, KeysOf
  <2>2. /\ asking' \in Seq(SUBSET Paths) /\ asking' # <<>> /\ Len(asking') = Len(asking) + 1
        /\ asking'[Len(asking) + 1] = KeysOf(watched')
        /\ \A i \in 1 .. Len(asking) : asking'[i] = asking[i]
        /\ Len(asking) \in Nat /\ DOMAIN asking = 1 .. Len(asking)
        /\ DOMAIN asking' = 1 .. Len(asking) + 1
    BY <2>1, AppendProperties, LenProperties
  <2>3. IsFiniteSet(KeysOf(watched) \cup {p})
    BY CountedAreFinite, FS_AddElement
  <2>4. IsFiniteSet(KeysOf(watched'))
    BY <2>3, FS_Subset
  <2>5. AsksForAll'
    BY <2>2 DEF AsksForAll, LastAsked, KeysOf
  <2>6. AsksAreFinite'
    <3> SUFFICES ASSUME NEW i \in 1 .. Len(asking) + 1 PROVE IsFiniteSet(asking'[i])
      BY <2>2 DEF AsksAreFinite
    <3>1. CASE i = Len(asking) + 1
      BY <2>2, <2>4, <3>1
    <3>2. CASE i # Len(asking) + 1
      BY <2>2, <3>2 DEF AsksAreFinite
    <3> QED BY <3>1, <3>2
  <2> QED BY <2>2, <2>5, <2>6
<1> QED BY <1>1, <1>2

\* Who comes to hold a path, or lets it go, is one holder more or less of that path.
LEMMA WatchRegisters ==
  ASSUME WatchTypeOK, Registered, NEW c \in Components, NEW p \in Paths, Watch(c, p)
  PROVE  /\ Registered' /\ watched' \in [Paths -> 0 .. Cardinality(Components)]
         /\ KeysOf(watched') \subseteq KeysOf(watched) \cup {p}
<1>1. HoldersOf(p)' = HoldersOf(p) \cup {c} /\ c \notin HoldersOf(p)
  BY WatchAssumption DEF Watch, HoldersOf, WatchTypeOK
<1>2. \A q \in Paths \ {p} : HoldersOf(q)' = HoldersOf(q)
  BY WatchAssumption DEF Watch, HoldersOf, WatchTypeOK
<1>3. Cardinality(HoldersOf(p)') = Cardinality(HoldersOf(p)) + 1
  BY <1>1, HoldersAreCounted, FS_AddElement
<1>4. watched' = [watched EXCEPT ![p] = @ + 1]
  BY DEF Watch, Retained
<1>5. Registered'
  BY <1>2, <1>3, <1>4 DEF Registered, WatchTypeOK
<1>6. \A q \in Paths : Cardinality(HoldersOf(q)') \in 0 .. Cardinality(Components)
  <2>1. \A q : HoldersOf(q)' \in SUBSET Components
    BY DEF HoldersOf
  <2>2. \A q : /\ IsFiniteSet(HoldersOf(q)') /\ Cardinality(HoldersOf(q)') \in Nat
               /\ Cardinality(HoldersOf(q)') <= Cardinality(Components) /\ Cardinality(Components) \in Nat
    BY <2>1, WatchAssumption, FS_Subset, FS_CardinalityType
  <2> QED BY <2>2
<1>7. KeysOf(watched') \subseteq KeysOf(watched) \cup {p}
  BY <1>4 DEF KeysOf, WatchTypeOK
<1> QED BY <1>4, <1>5, <1>6, <1>7 DEF Registered, WatchTypeOK

LEMMA UnwatchRegisters ==
  ASSUME WatchTypeOK, Registered, NEW c \in Components, Unwatch(c)
  PROVE  /\ Registered' /\ watched' \in [Paths -> 0 .. Cardinality(Components)]
         /\ KeysOf(watched') \subseteq KeysOf(watched)
<1> PICK p \in Paths : p = holds[c]
  BY DEF Unwatch, WatchTypeOK
<1>1. HoldersOf(p)' = HoldersOf(p) \ {c} /\ c \in HoldersOf(p)
  BY WatchAssumption DEF Unwatch, HoldersOf, WatchTypeOK
<1>2. \A q \in Paths \ {p} : HoldersOf(q)' = HoldersOf(q)
  BY WatchAssumption DEF Unwatch, HoldersOf, WatchTypeOK
<1>3. Cardinality(HoldersOf(p)') = Cardinality(HoldersOf(p)) - 1 /\ Cardinality(HoldersOf(p)) # 0
  BY <1>1, HoldersAreCounted, FS_RemoveElement
<1>4. watched' = [watched EXCEPT ![p] = IF @ = 0 THEN 0 ELSE @ - 1]
  BY DEF Unwatch, Released
<1>5. Registered'
  <2> SUFFICES ASSUME NEW q \in Paths PROVE watched'[q] = Cardinality(HoldersOf(q)')
    BY DEF Registered, HoldersOf
  <2>1. CASE q = p
    BY <1>3, <1>4, <2>1 DEF Registered, WatchTypeOK
  <2>2. CASE q # p
    BY <1>2, <1>4, <2>2 DEF Registered, WatchTypeOK
  <2> QED BY <2>1, <2>2
<1>6. watched' \in [Paths -> 0 .. Cardinality(Components)]
  BY <1>4, WatchAssumption, FS_CardinalityType DEF WatchTypeOK
<1>7. KeysOf(watched') \subseteq KeysOf(watched)
  <2>1. \A q \in Paths : watched'[q] > 0 => watched[q] > 0
    BY <1>4, WatchAssumption, FS_CardinalityType DEF WatchTypeOK
  <2> QED BY <1>6, <2>1 DEF KeysOf, WatchTypeOK
<1> QED BY <1>5, <1>6, <1>7

LEMMA WatchIInvStep ==
  ASSUME WatchIInv, NEW c \in Components, NEW p \in Paths, Watch(c, p)
  PROVE  WatchIInv'
<1>1. /\ Registered' /\ watched' \in [Paths -> 0 .. Cardinality(Components)]
      /\ KeysOf(watched') \subseteq KeysOf(watched) \cup {p}
  BY WatchRegisters DEF WatchIInv
<1>2. asking' \in Seq(SUBSET Paths) /\ AsksForAll' /\ AsksAreFinite'
  BY <1>1, ResendingAsks DEF WatchIInv, Watch
<1>3. WatchTypeOK'
  BY <1>1, <1>2, WatchAssumption DEF WatchIInv, WatchTypeOK, Watch
<1>4. InFlightInOrder' /\ NeverGoesBack'
  BY DEF WatchIInv, InFlightInOrder, NeverGoesBack, Watch
<1> QED BY <1>1, <1>2, <1>3, <1>4 DEF WatchIInv

LEMMA ValuesAreNumbers ==
  ASSUME WatchTypeOK
  PROVE  /\ \A p \in Paths : seen[p] \in Int /\ source[p] \in Int /\ Absent \in Int
         /\ \A p \in Paths : Absent <= seen[p] /\ Absent <= source[p]
<1>1. \A v \in Values \cup {Absent} : v \in Int /\ Absent <= v
  BY WatchAssumption DEF Values, Absent
<1> QED BY <1>1 DEF WatchTypeOK

LEMMA EventsAreTyped ==
  ASSUME NEW s \in Seq([path : Paths, value : Values])
  PROVE  /\ Len(s) \in Nat /\ DOMAIN s = 1 .. Len(s)
         /\ \A i \in 1 .. Len(s) : s[i].path \in Paths /\ s[i].value \in Int /\ s[i].value \in Values
<1>1. Len(s) \in Nat /\ DOMAIN s = 1 .. Len(s)
  BY LenProperties
<1>2. \A i \in 1 .. Len(s) : s[i] \in [path : Paths, value : Values]
  BY ElementOfSeq
<1>3. \A v \in Values : v \in Int
  BY WatchAssumption DEF Values
<1> QED BY <1>1, <1>2, <1>3

LEMMA UnwatchIInvStep ==
  ASSUME WatchIInv, NEW c \in Components, Unwatch(c)
  PROVE  WatchIInv'
<1> PICK p \in Paths : p = holds[c]
  BY DEF Unwatch, WatchIInv, WatchTypeOK
<1>1. /\ Registered' /\ watched' \in [Paths -> 0 .. Cardinality(Components)]
      /\ KeysOf(watched') \subseteq KeysOf(watched) \cup {p}
  BY UnwatchRegisters DEF WatchIInv
<1>2. asking' \in Seq(SUBSET Paths) /\ AsksForAll' /\ AsksAreFinite'
  BY <1>1, ResendingAsks DEF WatchIInv, Unwatch
<1>3. latest' = latest \/ latest' = [latest EXCEPT ![p] = Absent]
  BY DEF Unwatch
<1>4. WatchTypeOK'
  BY <1>1, <1>2, <1>3 DEF WatchIInv, WatchTypeOK, Unwatch
<1>5. InFlightInOrder' /\ NeverGoesBack'
  <2>1. latest \in [Paths -> Values \cup {Absent}]
    BY DEF WatchIInv, WatchTypeOK
  <2>2. NeverGoesBack'
    BY <1>3, <2>1 DEF WatchIInv, NeverGoesBack, Unwatch
  <2> QED BY <2>2 DEF WatchIInv, InFlightInOrder, Unwatch
<1> QED BY <1>1, <1>2, <1>4, <1>5 DEF WatchIInv

LEMMA PublishIInvStep ==
  ASSUME WatchIInv, Publish
  PROVE  WatchIInv'
<1>1. /\ telling # <<>> /\ telling \in Seq([path : Paths, value : Values])
      /\ latest' = [latest EXCEPT ![telling[1].path] = telling[1].value]
      /\ seen' = [seen EXCEPT ![telling[1].path] =
                    IF telling[1].value > @ THEN telling[1].value ELSE @]
      /\ telling' = Tail(telling)
      /\ UNCHANGED <<holds, watched, asking, asked, shown, source, watches>>
  <2>1. Head(telling) = telling[1]
    BY DEF WatchIInv, WatchTypeOK
  <2> QED BY <2>1 DEF Publish, Sees, WatchIInv, WatchTypeOK
<1>2. /\ Len(telling) \in Nat /\ DOMAIN telling = 1 .. Len(telling) /\ Len(telling) >= 1
      /\ telling' \in Seq([path : Paths, value : Values])
      /\ DOMAIN telling' = 1 .. Len(telling) - 1
      /\ \A i \in 1 .. Len(telling) - 1 : telling'[i] = telling[i + 1]
  BY <1>1, HeadTailProperties, LenProperties, EmptySeq
<1>3. /\ \A i \in 1 .. Len(telling) :
           telling[i].path \in Paths /\ telling[i].value \in Int /\ telling[i].value \in Values
      /\ \A p \in Paths : seen[p] \in Int /\ source[p] \in Int
  BY <1>1, EventsAreTyped, ValuesAreNumbers DEF WatchIInv
<1>4. latest \in [Paths -> Values \cup {Absent}] /\ seen \in [Paths -> Values \cup {Absent}]
  BY DEF WatchIInv, WatchTypeOK
<1>5. /\ \A p \in Paths : seen[p] <= source[p]
      /\ \A i \in 1 .. Len(telling) : /\ seen[telling[i].path] <= telling[i].value
                                      /\ telling[i].value <= source[telling[i].path]
      /\ \A i, j \in 1 .. Len(telling) :
           i < j /\ telling[i].path = telling[j].path => telling[i].value <= telling[j].value
  BY <1>2 DEF WatchIInv, InFlightInOrder
\* What comes is not older than what was seen, so it is the newest seen.
<1>6. seen' = [seen EXCEPT ![telling[1].path] = telling[1].value]
  <2>1. /\ seen[telling[1].path] <= telling[1].value /\ telling[1].path \in Paths
        /\ seen[telling[1].path] \in Int /\ telling[1].value \in Int
    BY <1>2, <1>3, <1>5
  <2>2. (IF telling[1].value > seen[telling[1].path] THEN telling[1].value
                                                   ELSE seen[telling[1].path]) = telling[1].value
    BY <2>1
  <2> QED BY <1>1, <1>4, <2>1, <2>2
<1>7. WatchTypeOK' /\ NeverGoesBack'
  <2>1. telling[1].path \in Paths /\ telling[1].value \in Values
    BY <1>2, <1>3
  <2>2. WatchTypeOK'
    BY <1>1, <1>2, <1>4, <1>6, <2>1 DEF WatchIInv, WatchTypeOK
  <2>3. \A p \in Paths : latest[p] \in {Absent, seen[p]}
    BY DEF WatchIInv, NeverGoesBack
  <2>4. NeverGoesBack'
    BY <1>1, <1>4, <1>6, <2>1, <2>3 DEF NeverGoesBack
  <2> QED BY <2>2, <2>4
<1>8. InFlightInOrder'
  <2>1. ASSUME NEW i \in 1 .. Len(telling) - 1
        PROVE  seen'[telling'[i].path] <= telling'[i].value
    <3> DEFINE e == telling[i + 1]
    <3>1. i + 1 \in 1 .. Len(telling) /\ 1 \in 1 .. Len(telling) /\ 1 < i + 1 /\ telling'[i] = e
      BY <1>2
    <3>2. CASE e.path = telling[1].path
      BY <1>3, <1>4, <1>5, <1>6, <3>1, <3>2
    <3>3. CASE e.path # telling[1].path
      BY <1>3, <1>4, <1>5, <1>6, <3>1, <3>3
    <3> QED BY <3>2, <3>3
  <2>2. ASSUME NEW p \in Paths PROVE seen'[p] <= source[p]
    <3>1. CASE p = telling[1].path
      BY <1>2, <1>3, <1>4, <1>5, <1>6, <3>1
    <3>2. CASE p # telling[1].path
      BY <1>3, <1>4, <1>5, <1>6, <3>2
    <3> QED BY <3>1, <3>2
  <2> QED BY <1>1, <1>2, <1>5, <2>1, <2>2 DEF InFlightInOrder
<1>9. Registered' /\ AsksForAll' /\ AsksAreFinite'
  BY <1>1 DEF WatchIInv, Registered, HoldersOf, AsksForAll, AsksAreFinite, LastAsked, KeysOf
<1> QED BY <1>7, <1>8, <1>9 DEF WatchIInv

LEMMA SourceChangesIInvStep ==
  ASSUME WatchIInv, NEW p \in Paths, SourceChanges(p)
  PROVE  WatchIInv'
<1>1. source' \in [Paths -> Values] /\ \A q \in Paths : source'[q] >= source[q] /\ source'[q] \in Int
  BY WatchAssumption DEF WatchIInv, WatchTypeOK, SourceChanges, Values
<1>2. WatchTypeOK'
  BY <1>1 DEF WatchIInv, WatchTypeOK, SourceChanges
<1>3. Registered' /\ AsksForAll' /\ AsksAreFinite'
  BY DEF WatchIInv, SourceChanges, Registered, HoldersOf, AsksForAll, AsksAreFinite, LastAsked, KeysOf
<1>4. InFlightInOrder' /\ NeverGoesBack'
  <2>1. /\ DOMAIN telling = 1 .. Len(telling) /\ \A q \in Paths : seen[q] \in Int /\ source[q] \in Int
        /\ \A i \in 1 .. Len(telling) : telling[i].path \in Paths /\ telling[i].value \in Int
    BY EventsAreTyped, ValuesAreNumbers DEF WatchIInv, WatchTypeOK
  <2> QED BY <1>1, <2>1 DEF WatchIInv, SourceChanges, InFlightInOrder, NeverGoesBack
<1> QED BY <1>2, <1>3, <1>4 DEF WatchIInv

LEMMA CoreWatchIInvStep == ASSUME WatchIInv, CoreWatch PROVE WatchIInv'
<1>1. asking \in Seq(SUBSET Paths) /\ asking # <<>> /\ asking' = Tail(asking) /\ asked' = asking[1]
  BY DEF WatchIInv, WatchTypeOK, CoreWatch
<1>2. /\ Len(asking) \in Nat /\ Len(asking) >= 1 /\ DOMAIN asking = 1 .. Len(asking)
      /\ asking' \in Seq(SUBSET Paths) /\ asking[1] \in SUBSET Paths
      /\ Len(asking') = Len(asking) - 1 /\ DOMAIN asking' = 1 .. Len(asking) - 1
      /\ \A i \in 1 .. Len(asking) - 1 : asking'[i] = asking[i + 1]
      /\ asking' = <<>> <=> Len(asking) = 1
  <2>1. /\ Len(asking) \in Nat /\ Len(asking) >= 1 /\ DOMAIN asking = 1 .. Len(asking)
        /\ asking' \in Seq(SUBSET Paths) /\ Len(asking') = Len(asking) - 1
        /\ \A i \in 1 .. Len(asking) - 1 : asking'[i] = asking[i + 1]
    BY <1>1, HeadTailProperties, LenProperties, EmptySeq
  <2>2. asking[1] \in SUBSET Paths
    BY <1>1, <2>1, ElementOfSeq
  <2>3. DOMAIN asking' = 1 .. Len(asking) - 1
    BY <2>1, LenProperties
  <2>4. asking' = <<>> <=> Len(asking') = 0
    BY <2>1, EmptySeq
  <2> QED BY <2>1, <2>2, <2>3, <2>4
<1>3. shown' \in [Paths -> Values \cup {Absent}]
  BY DEF WatchIInv, WatchTypeOK, CoreWatch, Forgotten
<1>4. WatchTypeOK'
  BY <1>1, <1>2, <1>3 DEF WatchIInv, WatchTypeOK, CoreWatch
<1>5. LastAsked' = LastAsked
  BY <1>1, <1>2 DEF LastAsked
<1>6. AsksAreFinite'
  BY <1>1, <1>2 DEF WatchIInv, AsksAreFinite
<1>7. Registered' /\ AsksForAll' /\ InFlightInOrder' /\ NeverGoesBack'
  BY <1>5 DEF WatchIInv, CoreWatch, Registered, HoldersOf, AsksForAll, KeysOf, InFlightInOrder,
              NeverGoesBack
<1> QED BY <1>4, <1>6, <1>7 DEF WatchIInv

LEMMA FunctionsAreSequences ==
  ASSUME NEW S, NEW n \in Nat, NEW f \in [1 .. n -> S]
  PROVE  f \in Seq(S) /\ Len(f) = n
<1> DEFINE s == SubSeq(f, 1, n)
<1>1. s \in Seq(S) /\ Len(s) = n /\ \A i \in 1 .. n : s[i] = f[i]
  BY SubSeqProperties
<1>2. s \in [1 .. n -> S]
  BY <1>1, LenProperties
<1>3. s = f
  BY <1>1, <1>2
<1> QED BY <1>1, <1>3

LEMMA PollIInvStep == ASSUME WatchIInv, NEW lane, Poll(lane) PROVE WatchIInv'
<1> DEFINE n == Cardinality(Changed(lane))
<1> PICK order \in Orders(Changed(lane)) :
      telling' = telling \o [i \in DOMAIN order |-> [path |-> order[i], value |-> source[order[i]]]]
  BY DEF Poll
<1> DEFINE events == [i \in DOMAIN order |-> [path |-> order[i], value |-> source[order[i]]]]
<1>1. n \in Nat /\ Changed(lane) \subseteq Paths
  <2>1. Changed(lane) \in SUBSET asked
    BY DEF Changed
  <2>2. IsFiniteSet(Changed(lane))
    BY <2>1, FS_Subset DEF WatchIInv, AsksAreFinite
  <2> QED BY <2>1, <2>2, FS_CardinalityType DEF WatchIInv, WatchTypeOK
<1>2. DOMAIN order = 1 .. n /\ \A i \in 1 .. n : order[i] \in Paths
  BY <1>1 DEF Orders
<1>3. /\ events \in Seq([path : Paths, value : Values]) /\ Len(events) = n
      /\ \A i \in 1 .. n : events[i].path \in Paths /\ events[i].value = source[events[i].path]
  <2>1. events \in [1 .. n -> [path : Paths, value : Values]]
    BY <1>2 DEF WatchIInv, WatchTypeOK
  <2>2. \A i \in 1 .. n : events[i].path \in Paths /\ events[i].value = source[events[i].path]
    BY <1>2
  <2> HIDE DEF events, n
  <2>3. events \in Seq([path : Paths, value : Values]) /\ Len(events) = n
    BY <1>1, <2>1, FunctionsAreSequences
  <2> QED BY <2>2, <2>3
<1>4. /\ Len(telling) \in Nat /\ DOMAIN telling = 1 .. Len(telling)
      /\ telling' \in Seq([path : Paths, value : Values])
      /\ Len(telling') = Len(telling) + n /\ DOMAIN telling' = 1 .. Len(telling) + n
      /\ \A i \in 1 .. Len(telling) : telling'[i] = telling[i]
      /\ \A i \in Len(telling) + 1 .. Len(telling) + n :
           i - Len(telling) \in 1 .. n /\ telling'[i] = events[i - Len(telling)]
  <2>1. telling \in Seq([path : Paths, value : Values]) /\ telling' = telling \o events
    BY DEF WatchIInv, WatchTypeOK
  <2>2. Len(telling) \in Nat /\ DOMAIN telling = 1 .. Len(telling)
    BY <2>1, LenProperties
  <2>3. /\ telling' \in Seq([path : Paths, value : Values])
        /\ Len(telling') = Len(telling) + n
        /\ \A i \in 1 .. Len(telling) + n :
             telling'[i] = IF i <= Len(telling) THEN telling[i] ELSE events[i - Len(telling)]
    BY <1>3, <2>1, ConcatProperties
  <2>4. DOMAIN telling' = 1 .. Len(telling) + n
    BY <2>3, LenProperties
  <2> HIDE DEF events, n
  <2>5. n \in Nat
    BY <1>1
  <2>6. \A i \in 1 .. Len(telling) : telling'[i] = telling[i]
    BY <2>2, <2>3, <2>5
  <2>7. \A i \in Len(telling) + 1 .. Len(telling) + n :
          i - Len(telling) \in 1 .. n /\ telling'[i] = events[i - Len(telling)]
    BY <2>2, <2>3, <2>5
  <2> QED BY <2>2, <2>3, <2>4, <2>6, <2>7
<1>5. WatchTypeOK'
  BY <1>4 DEF WatchIInv, WatchTypeOK, Poll
<1>6. Registered' /\ AsksForAll' /\ AsksAreFinite'
  BY DEF WatchIInv, Poll, Registered, HoldersOf, AsksForAll, AsksAreFinite, LastAsked, KeysOf
<1>7. InFlightInOrder'
  <2> HIDE DEF events, n
  <2>1. seen' = seen /\ source' = source
    BY DEF Poll
  <2>2. /\ \A p \in Paths : seen[p] <= source[p] /\ seen[p] \in Int /\ source[p] \in Int
        /\ \A i \in 1 .. Len(telling) : telling[i].path \in Paths /\ telling[i].value \in Int
    BY EventsAreTyped, ValuesAreNumbers DEF WatchIInv, WatchTypeOK, InFlightInOrder
  <2>3. /\ \A i \in 1 .. Len(telling) : /\ seen[telling[i].path] <= telling[i].value
                                        /\ telling[i].value <= source[telling[i].path]
        /\ \A i, j \in 1 .. Len(telling) :
             i < j /\ telling[i].path = telling[j].path => telling[i].value <= telling[j].value
    BY <1>4 DEF WatchIInv, InFlightInOrder
  <2>4. ASSUME NEW i \in 1 .. Len(telling) + n
        PROVE  /\ telling'[i].path \in Paths /\ telling'[i].value \in Int
               /\ seen[telling'[i].path] <= telling'[i].value
               /\ telling'[i].value <= source[telling'[i].path]
               /\ i > Len(telling) => telling'[i].value = source[telling'[i].path]
    <3>1. CASE i <= Len(telling)
      BY <1>1, <1>4, <2>2, <2>3, <3>1
    <3>2. CASE i > Len(telling)
      BY <1>1, <1>3, <1>4, <2>2, <3>2
    <3> QED BY <1>1, <1>4, <3>1, <3>2
  <2>5. ASSUME NEW i \in 1 .. Len(telling) + n, NEW j \in 1 .. Len(telling) + n,
               i < j, telling'[i].path = telling'[j].path
        PROVE  telling'[i].value <= telling'[j].value
    <3>1. CASE j <= Len(telling)
      BY <1>1, <1>4, <2>3, <2>5, <3>1
    <3>2. CASE j > Len(telling)
      BY <1>4, <2>4, <2>5, <3>2
    <3> QED BY <1>1, <1>4, <3>1, <3>2
  <2> QED BY <1>4, <2>1, <2>2, <2>4, <2>5 DEF InFlightInOrder
<1>8. NeverGoesBack'
  BY DEF WatchIInv, NeverGoesBack, Poll
<1> QED BY <1>5, <1>6, <1>7, <1>8 DEF WatchIInv

LEMMA WatchNextIInv == WatchIInv /\ [WatchNext]_watchVars => WatchIInv'
<1> SUFFICES ASSUME WatchIInv, [WatchNext]_watchVars PROVE WatchIInv'
  OBVIOUS
<1>1. CASE UNCHANGED watchVars
  BY <1>1 DEF watchVars, WatchIInv, WatchTypeOK, Registered, HoldersOf, AsksForAll, AsksAreFinite,
              LastAsked, KeysOf, InFlightInOrder, NeverGoesBack
<1>2. CASE WatchNext
  BY <1>2, WatchIInvStep, UnwatchIInvStep, PublishIInvStep, CoreWatchIInvStep, PollIInvStep,
     SourceChangesIInvStep DEF WatchNext
<1> QED BY <1>1, <1>2

\* The core watches, or has been asked to, exactly the paths some component holds,
\* whichever came and went in between (retained, released and resend of Qgc.ts, watch
\* of router.rs): for any number of components and paths.
THEOREM HeldPathsAreWatched == WatchSpec => [](WatchTypeOK /\ WatchesWhatIsHeld)
<1>1. WatchIInv => WatchTypeOK /\ WatchesWhatIsHeld
  BY CountedAreHeld DEF WatchIInv, AsksForAll, WatchesWhatIsHeld
<1> QED BY WatchInitIInv, WatchNextIInv, <1>1, PTL DEF WatchSpec

\* The value a component sees of a path is never older than one shown before, to it or
\* to another, over drops and new watches of the path too (events in order, shown of
\* router.rs).
THEOREM ValuesNeverGoBack == WatchSpec => []NeverGoesBack
<1>1. WatchIInv => NeverGoesBack
  BY DEF WatchIInv
<1> QED BY WatchInitIInv, WatchNextIInv, <1>1, PTL DEF WatchSpec
-----------------------------------------------------------------------------
(* WebSerial.  A link's open is asked before its close and each once; while *)
(* the open is asked the page knows nothing of the link, neither in a      *)
(* session nor in a port's turns, and has told the core nothing of it.     *)

HostCalls == [op : {"open"}, link : Links, port : Ports] \cup [op : {"close"}, link : Links]

OpensFirst ==
  \A i, j \in DOMAIN toHost :
    i < j /\ toHost[i].link = toHost[j].link => toHost[i].op = "open" /\ toHost[j].op = "close"

Working(l) == \E p \in Ports : \E i \in DOMAIN turns[p] : turns[p][i].link = l

Serving(l) == session[l] # NoSession

LinkFine(l) ==
  /\ life[l] = "new" => /\ ~Asked("open", l) /\ ~Asked("close", l) /\ ~Told(l)
                        /\ ~Working(l) /\ ~Serving(l) /\ l \notin receivers
  /\ Asked("open", l) => /\ ~Serving(l) /\ ~Told(l) /\ ~Working(l)
                         /\ life[l] = "opened" => l \in receivers
                         /\ life[l] = "closed" => Asked("close", l)
  /\ Asked("close", l) => life[l] = "closed"
  /\ l \in receivers => life[l] = "opened" /\ (Asked("open", l) \/ Serving(l) \/ Told(l))
  /\ Told(l) => ~Serving(l)
  /\ Serving(l) => l \in receivers \/ Asked("close", l)

TurnsGoOn == \A p \in Ports : port[p] \in {"opening", "closing"} => turns[p] # <<>>

SerialIInv == SerialTypeOK /\ OpensFirst /\ TurnsGoOn /\ \A l \in Links : LinkFine(l)

LEMMA SerialInitIInv == SerialInit => SerialIInv
<1> SUFFICES ASSUME SerialInit PROVE SerialIInv
  OBVIOUS
<1>1. SerialTypeOK
  BY SerialAssumption DEF SerialInit, SerialTypeOK, Session
<1>2. OpensFirst /\ TurnsGoOn
  BY DEF SerialInit, OpensFirst, TurnsGoOn
<1>3. \A l \in Links : LinkFine(l)
  BY DEF SerialInit, LinkFine, Asked, Told, Working, Serving
<1> QED BY <1>1, <1>2, <1>3 DEF SerialIInv

\* A call appended to the page's is asked with those before it.
LEMMA AskingOneMore ==
  ASSUME SerialIInv, NEW m \in HostCalls, toHost' = Append(toHost, m)
  PROVE  /\ toHost' \in Seq(HostCalls)
         /\ \A op, l : Asked(op, l)' <=> Asked(op, l) \/ (m.op = op /\ m.link = l)
         /\ ~Asked("close", m.link) /\ (Asked("open", m.link) => m.op = "close") => OpensFirst'
<1> DEFINE n == Len(toHost)
<1>1. /\ toHost \in Seq(HostCalls) /\ n \in Nat /\ DOMAIN toHost = 1 .. n
      /\ toHost' \in Seq(HostCalls) /\ DOMAIN toHost' = 1 .. n + 1
      /\ \A i \in 1 .. n : toHost'[i] = toHost[i]
      /\ toHost'[n + 1] = m
  BY AppendProperties, LenProperties DEF SerialIInv, SerialTypeOK, HostCalls
<1>2. \A i \in 1 .. n : toHost[i].op \in {"open", "close"}
  BY <1>1, ElementOfSeq DEF HostCalls
<1> HIDE DEF n
<1>3. \A op, l : Asked(op, l)' <=> Asked(op, l) \/ (m.op = op /\ m.link = l)
  BY <1>1 DEF Asked
<1>4. ASSUME ~Asked("close", m.link), Asked("open", m.link) => m.op = "close"
      PROVE  OpensFirst'
  <2> SUFFICES ASSUME NEW i \in 1 .. n + 1, NEW j \in 1 .. n + 1, i < j, toHost'[i].link = toHost'[j].link
               PROVE  toHost'[i].op = "open" /\ toHost'[j].op = "close"
    BY <1>1 DEF OpensFirst
  <2>1. CASE j <= n
    BY <1>1, <2>1 DEF SerialIInv, OpensFirst
  <2>2. CASE j = n + 1
    BY <1>1, <1>2, <1>4, <2>2 DEF Asked
  <2> QED BY <1>1, <2>1, <2>2
<1> QED BY <1>1, <1>3, <1>4

\* The call the page turns to was the last but for a close.
LEMMA AskingOneLess ==
  ASSUME SerialIInv, toHost # <<>>, toHost' = Tail(toHost), NEW m, m = Head(toHost)
  PROVE  /\ m \in HostCalls /\ toHost' \in Seq(HostCalls)
         /\ \A op, l : Asked(op, l) <=> Asked(op, l)' \/ (m.op = op /\ m.link = l)
         /\ OpensFirst' /\ ~Asked("open", m.link)'
<1> DEFINE n == Len(toHost)
<1>1. /\ toHost \in Seq(HostCalls) /\ n \in Nat /\ n >= 1 /\ DOMAIN toHost = 1 .. n
      /\ toHost' \in Seq(HostCalls) /\ DOMAIN toHost' = 1 .. n - 1
      /\ \A i \in 1 .. n - 1 : toHost'[i] = toHost[i + 1]
      /\ m = toHost[1] /\ m \in HostCalls
  BY HeadTailProperties, LenProperties, EmptySeq DEF SerialIInv, SerialTypeOK, HostCalls
<1> HIDE DEF n
<1>2. \A i, j \in 1 .. n : i < j /\ toHost[i].link = toHost[j].link =>
        toHost[i].op = "open" /\ toHost[j].op = "close"
  BY <1>1 DEF SerialIInv, OpensFirst
<1>3. ASSUME NEW op, NEW l
      PROVE  Asked(op, l) <=> Asked(op, l)' \/ (m.op = op /\ m.link = l)
  <2>1. ASSUME NEW i \in 1 .. n, toHost[i].op = op, toHost[i].link = l, i # 1
        PROVE  Asked(op, l)'
    <3>1. i - 1 \in 1 .. n - 1 /\ toHost[i] = toHost'[i - 1]
      BY <1>1, <2>1
    <3> QED BY <1>1, <2>1, <3>1 DEF Asked
  <2>2. ASSUME NEW i \in 1 .. n - 1, toHost'[i].op = op, toHost'[i].link = l
        PROVE  Asked(op, l)
    <3>1. i + 1 \in 1 .. n /\ toHost'[i] = toHost[i + 1]
      BY <1>1
    <3> QED BY <1>1, <2>2, <3>1 DEF Asked
  <2>3. m.op = op /\ m.link = l => Asked(op, l)
    BY <1>1 DEF Asked
  <2> QED BY <1>1, <2>1, <2>2, <2>3 DEF Asked
<1>4. OpensFirst' /\ ~Asked("open", m.link)'
  BY <1>1, <1>2 DEF OpensFirst, Asked
<1> QED BY <1>1, <1>3, <1>4

LEMMA TellingOneMore ==
  ASSUME toCore \in Seq(Links), NEW l \in Links, toCore' = Append(toCore, l)
  PROVE  toCore' \in Seq(Links) /\ \A k \in Links : Told(k)' <=> Told(k) \/ k = l
<1> DEFINE n == Len(toCore)
<1>1. /\ n \in Nat /\ DOMAIN toCore = 1 .. n /\ toCore' \in Seq(Links) /\ DOMAIN toCore' = 1 .. n + 1
      /\ \A i \in 1 .. n : toCore'[i] = toCore[i]
      /\ toCore'[n + 1] = l
  BY AppendProperties, LenProperties
<1> HIDE DEF n
<1> QED BY <1>1 DEF Told

LEMMA TellingOneLess ==
  ASSUME toCore \in Seq(Links), toCore # <<>>, toCore' = Tail(toCore), NEW l, l = Head(toCore)
  PROVE  l \in Links /\ toCore' \in Seq(Links) /\ \A k \in Links : Told(k) <=> Told(k)' \/ k = l
<1> DEFINE n == Len(toCore)
<1>1. /\ n \in Nat /\ n >= 1 /\ DOMAIN toCore = 1 .. n
      /\ toCore' \in Seq(Links) /\ DOMAIN toCore' = 1 .. n - 1
      /\ \A i \in 1 .. n - 1 : toCore'[i] = toCore[i + 1]
      /\ l = toCore[1] /\ l \in Links
  BY HeadTailProperties, LenProperties, EmptySeq
<1> HIDE DEF n
<1>2. ASSUME NEW i \in 1 .. n, i # 1
      PROVE  i - 1 \in 1 .. n - 1 /\ toCore[i] = toCore'[i - 1]
  BY <1>1, <1>2
<1>3. \A i \in 1 .. n - 1 : i + 1 \in 1 .. n
  BY <1>1
<1>4. ASSUME NEW k \in Links, Told(k) PROVE Told(k)' \/ k = l
  BY <1>1, <1>2, <1>4 DEF Told
<1>5. ASSUME NEW k \in Links, Told(k)' \/ k = l PROVE Told(k)
  BY <1>1, <1>3, <1>5 DEF Told
<1> QED BY <1>1, <1>4, <1>5

LEMMA OneMoreTurn ==
  ASSUME SerialTypeOK, NEW p \in Ports, NEW w \in Work,
         turns' = [turns EXCEPT ![p] = Append(@, w)]
  PROVE  /\ turns' \in [Ports -> Seq(Work)]
         /\ \A q \in Ports : turns[q] # <<>> => turns'[q] # <<>>
         /\ \A k \in Links : Working(k)' => Working(k) \/ k = w.link
<1> DEFINE n == Len(turns[p])
<1>1. /\ n \in Nat /\ DOMAIN turns[p] = 1 .. n
      /\ turns'[p] \in Seq(Work) /\ DOMAIN turns'[p] = 1 .. n + 1 /\ turns'[p] # <<>>
      /\ \A i \in 1 .. n : turns'[p][i] = turns[p][i]
      /\ turns'[p][n + 1] = w
  <2>1. turns[p] \in Seq(Work) /\ turns'[p] = Append(turns[p], w)
    BY DEF SerialTypeOK
  <2>2. /\ turns'[p] \in Seq(Work) /\ turns'[p] # <<>> /\ Len(turns'[p]) = n + 1
        /\ \A i \in 1 .. n : turns'[p][i] = turns[p][i]
        /\ turns'[p][n + 1] = w
    BY <2>1, AppendProperties
  <2> QED BY <2>1, <2>2, LenProperties
<1> HIDE DEF n
<1>2. \A q \in Ports \ {p} : turns'[q] = turns[q]
  BY DEF SerialTypeOK
<1>3. ASSUME NEW k \in Links, Working(k)', k # w.link PROVE Working(k)
  <2> PICK q \in Ports : \E i \in DOMAIN turns'[q] : turns'[q][i].link = k
    BY <1>3 DEF Working
  <2>1. CASE q = p
    BY <1>1, <1>3, <2>1 DEF Working
  <2>2. CASE q # p
    BY <1>2, <2>2 DEF Working
  <2> QED BY <2>1, <2>2
<1>4. turns' \in [Ports -> Seq(Work)]
  BY <1>1, <1>2 DEF SerialTypeOK
<1> QED BY <1>1, <1>2, <1>3, <1>4

LEMMA OneTurnLess ==
  ASSUME SerialTypeOK, NEW p \in Ports, turns[p] # <<>>, TurnEnds(p)
  PROVE  /\ turns' \in [Ports -> Seq(Work)] /\ \A q \in Ports \ {p} : turns'[q] = turns[q]
         /\ \A k \in Links : Working(k)' => Working(k)
<1> DEFINE n == Len(turns[p])
<1>1. /\ n \in Nat /\ n >= 1 /\ DOMAIN turns[p] = 1 .. n
      /\ turns'[p] \in Seq(Work) /\ DOMAIN turns'[p] = 1 .. n - 1
      /\ \A i \in 1 .. n - 1 : turns'[p][i] = turns[p][i + 1]
  BY HeadTailProperties, LenProperties, EmptySeq DEF SerialTypeOK, TurnEnds
<1> HIDE DEF n
<1>2. \A q \in Ports \ {p} : turns'[q] = turns[q]
  BY DEF SerialTypeOK, TurnEnds
<1>3. ASSUME NEW k \in Links, Working(k)' PROVE Working(k)
  <2> PICK q \in Ports : \E i \in DOMAIN turns'[q] : turns'[q][i].link = k
    BY <1>3 DEF Working
  <2>1. CASE q = p
    <3> PICK i \in 1 .. n - 1 : turns'[p][i].link = k
      BY <1>1, <2>1
    <3>1. i + 1 \in 1 .. n /\ turns[p][i + 1].link = k
      BY <1>1
    <3> QED BY <1>1, <3>1 DEF Working
  <2>2. CASE q # p
    BY <1>2, <2>2 DEF Working
  <2> QED BY <2>1, <2>2
<1>4. turns' \in [Ports -> Seq(Work)]
  BY <1>1, <1>2 DEF SerialTypeOK, TurnEnds
<1> QED BY <1>2, <1>3, <1>4

LEMMA TurnsAreWorkedFor ==
  ASSUME SerialTypeOK, NEW p \in Ports, turns[p] # <<>>
  PROVE  Head(turns[p]) \in Work /\ Head(turns[p]).link \in Links /\ Working(Head(turns[p]).link)
<1>1. /\ Head(turns[p]) \in Work /\ Head(turns[p]) = turns[p][1] /\ 1 \in DOMAIN turns[p]
  BY HeadTailProperties, LenProperties, EmptySeq DEF SerialTypeOK
<1>2. Head(turns[p]).link \in Links
  BY <1>1 DEF Work
<1>3. turns[p][1].link = Head(turns[p]).link
  BY <1>1
<1> QED BY <1>1, <1>2, <1>3 DEF Working

\* A step of the page on a port leaves the links in order when all it does to them is
\* to end work, and perhaps to end the service of one whose open is past and to tell.
LEMMA PageKeepsOrder ==
  ASSUME SerialIInv, UNCHANGED <<core, toHost>>, \A k \in Links : Working(k)' => Working(k),
         \/ UNCHANGED toCore /\ \A k \in Links : Serving(k)' <=> Serving(k)
         \/ \E l \in Links : life[l] # "new" /\ ~Asked("open", l) /\ SerialClosed(l)
  PROVE  toCore' \in Seq(Links) /\ OpensFirst' /\ \A k \in Links : LinkFine(k)'
<1>1. \A op, k : Asked(op, k)' <=> Asked(op, k)
  BY DEF Asked
<1>2. OpensFirst'
  BY DEF SerialIInv, OpensFirst
<1>3. life' = life /\ receivers' = receivers
  BY DEF core
<1>4. CASE UNCHANGED toCore /\ \A k \in Links : Serving(k)' <=> Serving(k)
  <2>1. \A k : Told(k)' <=> Told(k)
    BY <1>4 DEF Told
  <2> QED BY <1>1, <1>2, <1>3, <1>4, <2>1 DEF SerialIInv, LinkFine, SerialTypeOK
<1>5. ASSUME NEW l \in Links, life[l] # "new", ~Asked("open", l), SerialClosed(l)
      PROVE  toCore' \in Seq(Links) /\ \A k \in Links : LinkFine(k)'
  <2>1. toCore' \in Seq(Links) /\ \A k \in Links : Told(k)' <=> Told(k) \/ k = l
    BY <1>5, TellingOneMore DEF SerialIInv, SerialTypeOK, SerialClosed
  <2>2. ~Serving(l)' /\ \A k \in Links \ {l} : Serving(k)' <=> Serving(k)
    BY <1>5 DEF SerialIInv, SerialTypeOK, SerialClosed, Serving
  <2> QED BY <1>1, <1>3, <1>5, <2>1, <2>2 DEF SerialIInv, LinkFine, SerialTypeOK
<1> QED BY <1>2, <1>4, <1>5

LEMMA CoreOpenKeepsOrder ==
  ASSUME SerialIInv, NEW l \in Links, NEW p \in Ports, CoreOpen(l, p)
  PROVE  SerialIInv'
<1> DEFINE m == [op |-> "open", link |-> l, port |-> p]
<1>1. m \in HostCalls /\ m.op = "open" /\ m.link = l /\ toHost' = Append(toHost, m)
  BY DEF HostCalls, CoreOpen
<1> HIDE DEF m
<1>2. /\ toHost' \in Seq(HostCalls)
      /\ \A op, k : Asked(op, k)' <=> Asked(op, k) \/ (m.op = op /\ m.link = k)
      /\ ~Asked("close", m.link) /\ (Asked("open", m.link) => m.op = "close") => OpensFirst'
  BY <1>1, AskingOneMore
<1>3. SerialTypeOK'
  BY <1>2 DEF SerialIInv, SerialTypeOK, HostCalls, CoreOpen, browser
<1>4. TurnsGoOn'
  BY DEF SerialIInv, TurnsGoOn, CoreOpen, browser
<1>5. \A k : (Told(k)' <=> Told(k)) /\ (Serving(k)' <=> Serving(k)) /\ (Working(k)' <=> Working(k))
  BY DEF CoreOpen, browser, Told, Serving, Working
<1>6. life[l] = "new" /\ LinkFine(l)
  BY DEF CoreOpen, SerialIInv
<1>7. OpensFirst'
  BY <1>1, <1>2, <1>6 DEF LinkFine
<1>8. ASSUME NEW k \in Links PROVE LinkFine(k)'
  <2>1. LinkFine(k)
    BY DEF SerialIInv
  <2>2. life' = [life EXCEPT ![l] = "opened"] /\ receivers' = receivers \cup {l}
        /\ life \in [Links -> {"new", "opened", "closed"}]
    BY DEF CoreOpen, SerialIInv, SerialTypeOK
  <2> QED BY <1>1, <1>2, <1>5, <1>6, <2>1, <2>2 DEF LinkFine
<1> QED BY <1>3, <1>4, <1>7, <1>8 DEF SerialIInv

LEMMA CoreCloseKeepsOrder == ASSUME SerialIInv, NEW l \in Links, CoreClose(l) PROVE SerialIInv'
<1> DEFINE m == [op |-> "close", link |-> l]
<1>1. m \in HostCalls /\ m.op = "close" /\ m.link = l /\ toHost' = Append(toHost, m)
  BY DEF HostCalls, CoreClose
<1> HIDE DEF m
<1>2. /\ toHost' \in Seq(HostCalls)
      /\ \A op, k : Asked(op, k)' <=> Asked(op, k) \/ (m.op = op /\ m.link = k)
      /\ ~Asked("close", m.link) /\ (Asked("open", m.link) => m.op = "close") => OpensFirst'
  BY <1>1, AskingOneMore
<1>3. SerialTypeOK'
  BY <1>2 DEF SerialIInv, SerialTypeOK, HostCalls, CoreClose, browser
<1>4. TurnsGoOn'
  BY DEF SerialIInv, TurnsGoOn, CoreClose, browser
<1>5. \A k : (Told(k)' <=> Told(k)) /\ (Serving(k)' <=> Serving(k)) /\ (Working(k)' <=> Working(k))
  BY DEF CoreClose, browser, Told, Serving, Working
<1>6. life[l] = "opened" /\ LinkFine(l)
  BY DEF CoreClose, SerialIInv
<1>7. OpensFirst'
  BY <1>1, <1>2, <1>6 DEF LinkFine
<1>8. ASSUME NEW k \in Links PROVE LinkFine(k)'
  <2>1. LinkFine(k)
    BY DEF SerialIInv
  <2>2. life' = [life EXCEPT ![l] = "closed"] /\ receivers' = receivers \ {l}
        /\ life \in [Links -> {"new", "opened", "closed"}]
    BY DEF CoreClose, SerialIInv, SerialTypeOK
  <2> QED BY <1>1, <1>2, <1>5, <1>6, <2>1, <2>2 DEF LinkFine
<1> QED BY <1>3, <1>4, <1>7, <1>8 DEF SerialIInv

LEMMA CoreHearsKeepsOrder == ASSUME SerialIInv, CoreHears PROVE SerialIInv'
<1>1. PICK h \in Links : h = Head(toCore) /\ toCore' \in Seq(Links)
                         /\ \A k \in Links : Told(k) <=> Told(k)' \/ k = h
  BY TellingOneLess DEF SerialIInv, SerialTypeOK, CoreHears
<1>2. SerialTypeOK'
  BY <1>1 DEF SerialIInv, SerialTypeOK, CoreHears, browser
<1>3. OpensFirst' /\ TurnsGoOn'
  BY DEF SerialIInv, OpensFirst, TurnsGoOn, CoreHears, browser
<1>4. \A k : (Serving(k)' <=> Serving(k)) /\ (Working(k)' <=> Working(k))
             /\ \A op : Asked(op, k)' <=> Asked(op, k)
  BY DEF CoreHears, browser, Asked, Serving, Working
<1>5. ASSUME NEW k \in Links PROVE LinkFine(k)'
  <2>1. LinkFine(k) /\ life' = life /\ receivers' = receivers \ {h}
    BY <1>1 DEF SerialIInv, CoreHears
  <2> QED BY <1>1, <1>4, <2>1 DEF LinkFine
<1> QED BY <1>2, <1>3, <1>5 DEF SerialIInv

LEMMA PageHandlesKeepsOrder == ASSUME SerialIInv, PageHandles PROVE SerialIInv'
<1> PICK m : m = Head(toHost)
  OBVIOUS
<1>1. toHost # <<>> /\ toHost' = Tail(toHost) /\ life' = life /\ receivers' = receivers
      /\ UNCHANGED browser
  BY DEF PageHandles, PageTurnsTo, OpenUnknown, OpenSerial, CloseSerial, CloseUnknown, core
<1>2. /\ m \in HostCalls /\ toHost' \in Seq(HostCalls)
      /\ \A op, k : Asked(op, k) <=> Asked(op, k)' \/ (m.op = op /\ m.link = k)
      /\ OpensFirst' /\ ~Asked("open", m.link)'
  BY <1>1, AskingOneLess
<1>3. m.link \in Links /\ (m.op = "open" => m.port \in Ports) /\ Asked(m.op, m.link)
  BY <1>2 DEF HostCalls
<1>4. ASSUME toCore' \in Seq(Links), session' \in [Links -> Session], turns' \in [Ports -> Seq(Work)],
             \A q \in Ports : turns[q] # <<>> => turns'[q] # <<>>, \A k \in Links : LinkFine(k)'
      PROVE  SerialIInv'
  <2>1. SerialTypeOK'
    BY <1>1, <1>2, <1>4 DEF SerialIInv, SerialTypeOK, HostCalls, browser
  <2>2. TurnsGoOn'
    BY <1>1, <1>4 DEF SerialIInv, TurnsGoOn, browser
  <2> QED BY <1>2, <1>4, <2>1, <2>2 DEF SerialIInv
<1>5. CASE OpenUnknown
  <2>1. m.op = "open" /\ SerialClosed(m.link) /\ turns' = turns
    BY <1>5 DEF OpenUnknown, PageTurnsTo
  <2>2. toCore' \in Seq(Links) /\ \A k \in Links : Told(k)' <=> Told(k) \/ k = m.link
    BY <1>3, <2>1, TellingOneMore DEF SerialIInv, SerialTypeOK, SerialClosed
  <2>3. session' \in [Links -> Session] /\ ~Serving(m.link)'
        /\ \A k \in Links \ {m.link} : Serving(k)' <=> Serving(k)
    BY <1>3, <2>1 DEF SerialIInv, SerialTypeOK, SerialClosed, Serving, Session
  <2>4. \A k : Working(k)' <=> Working(k)
    BY <2>1 DEF Working
  <2>5. ASSUME NEW k \in Links PROVE LinkFine(k)'
    <3>1. LinkFine(k)
      BY DEF SerialIInv
    <3>2. CASE k = m.link
      BY <1>1, <1>2, <1>3, <2>1, <2>2, <2>3, <2>4, <3>1, <3>2 DEF LinkFine
    <3>3. CASE k # m.link
      BY <1>1, <1>2, <2>2, <2>3, <2>4, <3>1, <3>3 DEF LinkFine
    <3> QED BY <3>2, <3>3
  <2>6. turns' \in [Ports -> Seq(Work)]
    BY <2>1 DEF SerialIInv, SerialTypeOK
  <2> QED BY <1>4, <2>1, <2>2, <2>3, <2>5, <2>6
<1>6. CASE OpenSerial
  <2> DEFINE w == [work |-> "open", link |-> m.link, reading |-> FALSE]
             s == [port |-> m.port, reading |-> FALSE]
  <2>1. /\ m.op = "open" /\ toCore' = toCore
        /\ session' = [session EXCEPT ![m.link] = s]
        /\ turns' = [turns EXCEPT ![m.port] = Append(@, w)]
    BY <1>6 DEF OpenSerial, PageTurnsTo
  <2>2. w \in Work /\ w.link = m.link /\ s \in Session /\ s # NoSession
    BY <1>3, <2>1, SerialAssumption DEF Work, Session, NoSession
  <2> HIDE DEF w, s
  <2>3. /\ turns' \in [Ports -> Seq(Work)]
        /\ \A q \in Ports : turns[q] # <<>> => turns'[q] # <<>>
        /\ \A k \in Links : Working(k)' => Working(k) \/ k = m.link
    BY <1>3, <2>1, <2>2, OneMoreTurn DEF SerialIInv
  <2>4. session' \in [Links -> Session] /\ Serving(m.link)'
        /\ \A k \in Links \ {m.link} : Serving(k)' <=> Serving(k)
    BY <1>3, <2>1, <2>2 DEF SerialIInv, SerialTypeOK, Serving
  <2>5. \A k : Told(k)' <=> Told(k)
    BY <2>1 DEF Told
  <2>6. ASSUME NEW k \in Links PROVE LinkFine(k)'
    <3>1. LinkFine(k) /\ life[k] \in {"new", "opened", "closed"}
      BY DEF SerialIInv, SerialTypeOK
    <3>2. CASE k = m.link
      BY <1>1, <1>2, <1>3, <2>1, <2>3, <2>4, <2>5, <3>1, <3>2 DEF LinkFine
    <3>3. CASE k # m.link
      BY <1>1, <1>2, <2>3, <2>4, <2>5, <3>1, <3>3 DEF LinkFine
    <3> QED BY <3>2, <3>3
  <2>7. toCore' \in Seq(Links)
    BY <2>1 DEF SerialIInv, SerialTypeOK
  <2> QED BY <1>4, <2>3, <2>4, <2>6, <2>7
<1>7. CASE CloseSerial
  <2> PICK held : held = session[m.link]
    OBVIOUS
  <2> DEFINE w == [work |-> "close", link |-> m.link, reading |-> held.reading]
  <2>1. /\ m.op = "close" /\ toCore' = toCore /\ held # NoSession
        /\ session' = [session EXCEPT ![m.link] = NoSession]
        /\ turns' = [turns EXCEPT ![held.port] = Append(@, w)]
    BY <1>7 DEF CloseSerial, PageTurnsTo
  <2>2. held.port \in Ports /\ w \in Work /\ w.link = m.link
    BY <1>3, <2>1 DEF SerialIInv, SerialTypeOK, Session, Work
  <2> HIDE DEF w
  <2>3. /\ turns' \in [Ports -> Seq(Work)]
        /\ \A q \in Ports : turns[q] # <<>> => turns'[q] # <<>>
        /\ \A k \in Links : Working(k)' => Working(k) \/ k = m.link
    BY <1>3, <2>1, <2>2, OneMoreTurn DEF SerialIInv
  <2>4. session' \in [Links -> Session] /\ ~Serving(m.link)'
        /\ \A k \in Links \ {m.link} : Serving(k)' <=> Serving(k)
    BY <1>3, <2>1 DEF SerialIInv, SerialTypeOK, Serving, Session
  <2>5. \A k : Told(k)' <=> Told(k)
    BY <2>1 DEF Told
  <2>6. ASSUME NEW k \in Links PROVE LinkFine(k)'
    <3>1. LinkFine(k)
      BY DEF SerialIInv
    <3>2. CASE k = m.link
      BY <1>1, <1>2, <1>3, <2>1, <2>3, <2>4, <2>5, <3>1, <3>2 DEF LinkFine
    <3>3. CASE k # m.link
      BY <1>1, <1>2, <2>3, <2>4, <2>5, <3>1, <3>3 DEF LinkFine
    <3> QED BY <3>2, <3>3
  <2>7. toCore' \in Seq(Links)
    BY <2>1 DEF SerialIInv, SerialTypeOK
  <2> QED BY <1>4, <2>3, <2>4, <2>6, <2>7
<1>8. CASE CloseUnknown
  <2>1. m.op = "close" /\ ~Serving(m.link) /\ toCore' = toCore /\ session' = session /\ turns' = turns
    BY <1>8 DEF CloseUnknown, PageTurnsTo, Serving
  <2>2. \A k : (Told(k)' <=> Told(k)) /\ (Serving(k)' <=> Serving(k)) /\ (Working(k)' <=> Working(k))
    BY <2>1 DEF Told, Serving, Working
  <2>3. ASSUME NEW k \in Links PROVE LinkFine(k)'
    <3>1. LinkFine(k)
      BY DEF SerialIInv
    <3>2. CASE k = m.link
      BY <1>1, <1>2, <1>3, <2>1, <2>2, <3>1, <3>2 DEF LinkFine
    <3>3. CASE k # m.link
      BY <1>1, <1>2, <2>2, <3>1, <3>3 DEF LinkFine
    <3> QED BY <3>2, <3>3
  <2> QED BY <1>4, <2>1, <2>3 DEF SerialIInv, SerialTypeOK
<1> QED BY <1>5, <1>6, <1>7, <1>8 DEF PageHandles

\* What is left to show of a step of the page on a port.
LEMMA PortStep ==
  ASSUME SerialIInv, UNCHANGED <<core, toHost>>,
         session' \in [Links -> Session], turns' \in [Ports -> Seq(Work)],
         port' \in [Ports -> {"closed", "opening", "open", "closing"}],
         reader' \in [Ports -> Links \cup {Nothing}], plugged' \in [Ports -> BOOLEAN],
         faults' \in 0 .. MaxFaults, unplugs' \in 0 .. MaxUnplugs,
         TurnsGoOn',
         \A k \in Links : Working(k)' => Working(k),
         \/ UNCHANGED toCore /\ \A k \in Links : Serving(k)' <=> Serving(k)
         \/ \E l \in Links : life[l] # "new" /\ ~Asked("open", l) /\ SerialClosed(l)
  PROVE  SerialIInv'
<1>1. toCore' \in Seq(Links) /\ OpensFirst' /\ \A k \in Links : LinkFine(k)'
  BY PageKeepsOrder
<1>2. SerialTypeOK'
  BY <1>1 DEF SerialIInv, SerialTypeOK, core
<1> QED BY <1>1, <1>2 DEF SerialIInv

\* A link that is worked for or served has been opened, and its open is past.
LEMMA OpenIsPast ==
  ASSUME SerialIInv, NEW l \in Links, Working(l) \/ Serving(l)
  PROVE  life[l] # "new" /\ ~Asked("open", l)
BY DEF SerialIInv, LinkFine

LEMMA ClosedIsTyped ==
  ASSUME SerialTypeOK, NEW l \in Links, SerialClosed(l)
  PROVE  session' \in [Links -> Session]
BY DEF SerialTypeOK, SerialClosed, Session

LEMMA TurnKeepsOrder == ASSUME SerialIInv, NEW p \in Ports, Turn(p) PROVE SerialIInv'
<1>1. turns[p] # <<>>
  BY DEF Turn, StartOpen, RefuseOpen, StartClose, RefuseClose, OpenFails, OpenSucceeds, EndClose,
         MayRun, SerialIInv, TurnsGoOn
<1> PICK l \in Links : l = Head(turns[p]).link
  BY <1>1, TurnsAreWorkedFor DEF SerialIInv
<1>2. Working(l) /\ life[l] # "new" /\ ~Asked("open", l)
  BY <1>1, TurnsAreWorkedFor, OpenIsPast DEF SerialIInv
<1>3. ASSUME UNCHANGED turns
      PROVE  turns' \in [Ports -> Seq(Work)] /\ \A k \in Links : Working(k)' => Working(k)
  BY <1>3 DEF SerialIInv, SerialTypeOK, Working
<1>4. ASSUME TurnEnds(p)
      PROVE  /\ turns' \in [Ports -> Seq(Work)] /\ \A k \in Links : Working(k)' => Working(k)
             /\ \A q \in Ports \ {p} : turns'[q] = turns[q]
  BY <1>1, <1>4, OneTurnLess DEF SerialIInv
<1>5. ASSUME UNCHANGED session
      PROVE  session' \in [Links -> Session] /\ \A k \in Links : Serving(k)' <=> Serving(k)
  BY <1>5 DEF SerialIInv, SerialTypeOK, Serving
<1>6. ASSUME SerialClosed(l)
      PROVE  session' \in [Links -> Session]
  BY <1>6, ClosedIsTyped DEF SerialIInv
<1> USE DEF SerialIInv, SerialTypeOK, TurnsGoOn
<1>7. CASE StartOpen(p)
  <2>1. TurnsGoOn'
    BY <1>1, <1>7 DEF StartOpen
  <2> QED BY <1>3, <1>5, <1>7, <2>1, PortStep DEF StartOpen
<1>8. CASE RefuseOpen(p)
  <2>1. TurnsGoOn'
    BY <1>4, <1>8 DEF RefuseOpen, Running, browser
  <2> QED BY <1>2, <1>4, <1>6, <1>8, <2>1, PortStep DEF RefuseOpen, browser
<1>9. CASE OpenFails(p)
  <2>1. TurnsGoOn'
    BY <1>4, <1>9 DEF OpenFails
  <2> QED BY <1>2, <1>4, <1>6, <1>9, <2>1, PortStep DEF OpenFails
<1>10. CASE OpenSucceeds(p)
  <2>1. TurnsGoOn'
    BY <1>4, <1>10 DEF OpenSucceeds
  <2>2. CASE session[l] = NoSession
    BY <1>2, <1>4, <1>6, <1>10, <2>1, <2>2, PortStep DEF OpenSucceeds
  <2>3. CASE session[l] # NoSession
    <3>1. session' = [session EXCEPT ![l].reading = TRUE] /\ toCore' = toCore
      BY <1>10, <2>3 DEF OpenSucceeds
    <3>2. session' \in [Links -> Session] /\ \A k \in Links : Serving(k)' <=> Serving(k)
      BY <2>3, <3>1, SerialAssumption DEF Session, NoSession, Serving
    <3> QED BY <1>4, <1>10, <2>1, <3>1, <3>2, PortStep DEF OpenSucceeds
  <2> QED BY <2>2, <2>3
<1>11. CASE StartClose(p)
  <2>1. TurnsGoOn'
    BY <1>1, <1>11 DEF StartClose
  <2> QED BY <1>3, <1>5, <1>11, <2>1, PortStep DEF StartClose
<1>12. CASE RefuseClose(p)
  <2>1. TurnsGoOn'
    BY <1>4, <1>12 DEF RefuseClose, Running, browser
  <2> QED BY <1>4, <1>5, <1>12, <2>1, PortStep DEF RefuseClose, browser
<1>13. CASE EndClose(p)
  <2>1. TurnsGoOn'
    BY <1>4, <1>13 DEF EndClose
  <2> QED BY <1>4, <1>5, <1>13, <2>1, PortStep DEF EndClose
<1> QED BY <1>7, <1>8, <1>9, <1>10, <1>11, <1>12, <1>13 DEF Turn

\* The stream of a port fails, or its end is read when the port is unplugged.
LEMMA ReadEndsSays ==
  ASSUME SerialIInv, NEW p \in Ports, ReadEnds(p)
  PROVE  /\ session' \in [Links -> Session]
         /\ \/ UNCHANGED toCore /\ \A k \in Links : Serving(k)' <=> Serving(k)
            \/ \E l \in Links : life[l] # "new" /\ ~Asked("open", l) /\ SerialClosed(l)
<1>1. CASE reader[p] # Nothing /\ session[reader[p]] # NoSession
  <2> PICK l \in Links : l = reader[p]
    BY <1>1 DEF SerialIInv, SerialTypeOK
  <2>1. SerialClosed(l) /\ Serving(l)
    BY <1>1 DEF ReadEnds, Serving
  <2> QED BY <2>1, OpenIsPast, ClosedIsTyped DEF SerialIInv
<1>2. CASE ~(reader[p] # Nothing /\ session[reader[p]] # NoSession)
  <2>1. session' = session /\ toCore' = toCore
    BY <1>2 DEF ReadEnds
  <2> QED BY <2>1 DEF Serving, SerialIInv, SerialTypeOK
<1> QED BY <1>1, <1>2

LEMMA StreamFailsKeepsOrder == ASSUME SerialIInv, NEW p \in Ports, StreamFails(p) PROVE SerialIInv'
<1> USE DEF SerialIInv, SerialTypeOK, TurnsGoOn
<1>1. /\ session' \in [Links -> Session]
      /\ \/ UNCHANGED toCore /\ \A k \in Links : Serving(k)' <=> Serving(k)
         \/ \E l \in Links : life[l] # "new" /\ ~Asked("open", l) /\ SerialClosed(l)
  BY ReadEndsSays DEF StreamFails
<1>2. turns' \in [Ports -> Seq(Work)] /\ \A k \in Links : Working(k)' => Working(k)
  BY DEF StreamFails, Working
<1>3. faults' \in 0 .. MaxFaults
  BY SerialAssumption DEF StreamFails
<1>4. TurnsGoOn'
  BY DEF StreamFails
<1> QED BY <1>1, <1>2, <1>3, <1>4, PortStep DEF StreamFails

LEMMA UnplugKeepsOrder == ASSUME SerialIInv, NEW p \in Ports, Unplug(p) PROVE SerialIInv'
<1> USE DEF SerialIInv, SerialTypeOK, TurnsGoOn
<1>1. /\ turns' \in [Ports -> Seq(Work)] /\ \A k \in Links : Working(k)' => Working(k)
      /\ \A q \in Ports \ {p} : turns'[q] = turns[q]
  <2>1. CASE port[p] \in {"opening", "closing"}
    BY <2>1, OneTurnLess DEF Unplug
  <2>2. CASE port[p] \notin {"opening", "closing"}
    BY <2>2 DEF Unplug, Working
  <2> QED BY <2>1, <2>2
<1>2. /\ session' \in [Links -> Session]
      /\ \/ UNCHANGED toCore /\ \A k \in Links : Serving(k)' <=> Serving(k)
         \/ \E l \in Links : life[l] # "new" /\ ~Asked("open", l) /\ SerialClosed(l)
  <2>1. CASE port[p] = "opening"
    <3>1. turns[p] # <<>>
      BY <2>1
    <3> PICK l \in Links : l = Head(turns[p]).link
      BY <3>1, TurnsAreWorkedFor
    <3>2. Working(l) /\ SerialClosed(l)
      BY <2>1, <3>1, TurnsAreWorkedFor DEF Unplug
    <3> QED BY <3>2, OpenIsPast, ClosedIsTyped
  <2>2. CASE port[p] # "opening"
    BY <2>2, ReadEndsSays DEF Unplug
  <2> QED BY <2>1, <2>2
<1>3. unplugs' \in 0 .. MaxUnplugs
  BY SerialAssumption DEF Unplug
<1>4. TurnsGoOn'
  BY <1>1 DEF Unplug
<1>5. /\ port' \in [Ports -> {"closed", "opening", "open", "closing"}]
      /\ reader' \in [Ports -> Links \cup {Nothing}] /\ plugged' \in [Ports -> BOOLEAN]
      /\ faults' \in 0 .. MaxFaults /\ UNCHANGED <<core, toHost>>
  BY DEF Unplug
<1> HIDE DEF SerialIInv, SerialTypeOK, TurnsGoOn
<1> QED BY <1>1, <1>2, <1>3, <1>4, <1>5, PortStep

LEMMA PlugKeepsOrder == ASSUME SerialIInv, NEW p \in Ports, Plug(p) PROVE SerialIInv'
<1>1. session' \in [Links -> Session] /\ \A k \in Links : Serving(k)' <=> Serving(k)
  BY DEF Plug, SerialIInv, SerialTypeOK, Serving
<1>2. turns' \in [Ports -> Seq(Work)] /\ \A k \in Links : Working(k)' => Working(k)
  BY DEF Plug, SerialIInv, SerialTypeOK, Working
<1> QED BY <1>1, <1>2, PortStep DEF Plug, SerialIInv, SerialTypeOK, TurnsGoOn

LEMMA SerialNextIInv == SerialIInv /\ [SerialNext]_serialVars => SerialIInv'
<1> SUFFICES ASSUME SerialIInv, [SerialNext]_serialVars PROVE SerialIInv'
  OBVIOUS
<1>1. CASE UNCHANGED serialVars
  BY <1>1 DEF serialVars, SerialIInv, SerialTypeOK, OpensFirst, TurnsGoOn, LinkFine, Asked, Told,
              Working, Serving
<1>2. CASE SerialNext
  BY <1>2, CoreOpenKeepsOrder, CoreCloseKeepsOrder, CoreHearsKeepsOrder, PageHandlesKeepsOrder,
     TurnKeepsOrder, StreamFailsKeepsOrder, UnplugKeepsOrder, PlugKeepsOrder DEF SerialNext
<1> QED BY <1>1, <1>2

\* No link hangs as open for ever, and no port is read for a link that is gone: a link
\* the core holds is being opened or read by the page or the news of its end is on its
\* way, and a link the page serves is the core's or its close is on its way
\* (serialClosed on every path of client.ts, serialOp, platformserial.rs), for any
\* number of links, ports, failures and unplugged ports.
THEOREM SerialLinksAreServed == SerialSpec => [](SerialTypeOK /\ LinksAreServed)
<1>1. SerialIInv => SerialTypeOK /\ LinksAreServed
  BY DEF SerialIInv, LinkFine, LinksAreServed, SerialTypeOK, Serving
<1> QED BY SerialInitIInv, SerialNextIInv, <1>1, PTL DEF SerialSpec

-----------------------------------------------------------------------------
(* SettingsTabs.  While an operator leaves the tabs the time to hear of    *)
(* each other, changes are under way in one tab at most; this tab had      *)
(* heard all the others saved before, so that what it has yet to save      *)
(* grows from what is stored to what its core holds; and what any other    *)
(* tab hears last is what is stored.                                       *)

AtMost(a, b) == \A k \in Keys : a[k] <= b[k]

-----------------------------------------------------------------------------
(* Types, with every value so far bounded by the changes so far.           *)

SoFar == [Keys -> 0 .. changes]
CallsSoFar == [call : {"settingsOpen", "settingsAdopt"}, text : SoFar] \cup [call : {"set"}, key : Keys]
PostsSoFar == [settings : BOOLEAN, text : SoFar]

Typed ==
  /\ changes \in Nat
  /\ storage \in SoFar
  /\ page \in [Tabs -> {"closed", "opening", "on"}]
  /\ open \in [Tabs -> BOOLEAN] /\ unkept \in [Tabs -> BOOLEAN]
  /\ values \in [Tabs -> SoFar]
  /\ toWorker \in [Tabs -> Seq(CallsSoFar)]
  /\ toPage \in [Tabs -> Seq(PostsSoFar)]
  /\ heard \in [Tabs -> Seq(SoFar)]

-----------------------------------------------------------------------------
(* The inductive invariant.                                                *)

Calm(t) == page[t] = "closed" =>
  ~open[t] /\ ~unkept[t] /\ toWorker[t] = <<>> /\ toPage[t] = <<>> /\ heard[t] = <<>>

\* A page that opens has asked for its settings, or has their answer before it.
Asks(t) == /\ toWorker[t] = <<[call |-> "settingsOpen", text |-> storage]>>
           /\ ~open[t] /\ ~unkept[t] /\ toPage[t] = <<>>
Answered(t) == open[t] /\ CaughtUp(t) /\ toPage[t] # <<>> /\ ~toPage[t][1].settings
Opening(t) == page[t] = "opening" => heard[t] = <<>> /\ (Asks(t) \/ Answered(t))

On(t) == page[t] = "on" =>
  open[t] /\ \A i \in DOMAIN toWorker[t] : toWorker[t][i].call # "settingsOpen"

AnswerFirst(t) == \A i \in DOMAIN toPage[t] :
  ~toPage[t][i].settings => i = 1 /\ page[t] = "opening"

\* Changes are made in a tab that has heard all, and all that the others saved.
ChangesLast(t) == ~Saved(t) => CaughtUp(t) /\ open[t]

\* What a tab has yet to save grows from what is stored to what its core holds.
LastSaved(t) ==
  IF toPage[t] # <<>> /\ toPage[t][Len(toPage[t])].settings THEN toPage[t][Len(toPage[t])].text
  ELSE storage
SavesForward(t) == CaughtUp(t) /\ open[t] =>
  /\ AtMost(storage, values[t])
  /\ \A i \in DOMAIN toPage[t] : toPage[t][i].settings =>
       AtMost(storage, toPage[t][i].text) /\ AtMost(toPage[t][i].text, values[t])
  /\ \A i, j \in DOMAIN toPage[t] :
       i < j /\ toPage[t][i].settings /\ toPage[t][j].settings =>
         AtMost(toPage[t][i].text, toPage[t][j].text)
  /\ ~unkept[t] => values[t] = LastSaved(t)

HearsWhatIsStored(t) == ~CaughtUp(t) =>
  IF heard[t] # <<>> THEN heard[t][Len(heard[t])] = storage
  ELSE toWorker[t][Len(toWorker[t])].call # "set" /\ toWorker[t][Len(toWorker[t])].text = storage

TabFine(t) ==
  /\ Calm(t) /\ Opening(t) /\ On(t) /\ AnswerFirst(t)
  /\ ChangesLast(t) /\ SavesForward(t) /\ HearsWhatIsStored(t)

\* Changes are under way in one tab at most, and in none while another opens.
ChangesAlone == \A t, u \in Tabs : t # u /\ ~Saved(u) => Saved(t) /\ page[t] # "opening"

TabsIInv == Typed /\ ChangesAlone /\ \A t \in Tabs : TabFine(t)

-----------------------------------------------------------------------------
(* Channels.                                                               *)

LEMMA TailIs ==
  ASSUME NEW S, NEW s \in Seq(S), s # <<>>
  PROVE  /\ Len(s) \in Nat /\ Len(s) >= 1 /\ DOMAIN s = 1 .. Len(s) /\ s[1] \in S
         /\ Tail(s) \in Seq(S) /\ Len(Tail(s)) = Len(s) - 1 /\ DOMAIN Tail(s) = 1 .. Len(s) - 1
         /\ \A i \in 1 .. Len(s) - 1 : Tail(s)[i] = s[i + 1]
         /\ Tail(s) = <<>> <=> Len(s) = 1
<1>1. /\ Len(s) \in Nat /\ Len(s) >= 1 /\ DOMAIN s = 1 .. Len(s)
      /\ Tail(s) \in Seq(S) /\ Len(Tail(s)) = Len(s) - 1
      /\ \A i \in 1 .. Len(s) - 1 : Tail(s)[i] = s[i + 1]
  BY HeadTailProperties, LenProperties, EmptySeq
<1>2. s[1] \in S
  BY <1>1, ElementOfSeq
<1>3. DOMAIN Tail(s) = 1 .. Len(s) - 1
  BY <1>1, LenProperties
<1>4. Tail(s) = <<>> <=> Len(Tail(s)) = 0
  BY <1>1, EmptySeq
<1> QED BY <1>1, <1>2, <1>3, <1>4

LEMMA AppendIs ==
  ASSUME NEW S, NEW s \in Seq(S), NEW x \in S
  PROVE  /\ Len(s) \in Nat /\ DOMAIN s = 1 .. Len(s)
         /\ Append(s, x) \in Seq(S) /\ Append(s, x) # <<>> /\ Len(Append(s, x)) = Len(s) + 1
         /\ DOMAIN Append(s, x) = 1 .. Len(s) + 1
         /\ \A i \in 1 .. Len(s) : Append(s, x)[i] = s[i]
         /\ Append(s, x)[Len(s) + 1] = x
<1>1. /\ Append(s, x) \in Seq(S) /\ Append(s, x) # <<>> /\ Len(Append(s, x)) = Len(s) + 1
      /\ \A i \in 1 .. Len(s) : Append(s, x)[i] = s[i]
      /\ Append(s, x)[Len(s) + 1] = x
  BY AppendProperties
<1> QED BY <1>1, LenProperties

\* What has been sent stays well typed as changes are made.
LEMMA TypesGrow ==
  ASSUME changes \in Nat, changes' = changes + 1
  PROVE  /\ SoFar \subseteq SoFar' /\ Seq(SoFar) \subseteq Seq(SoFar')
         /\ Seq(CallsSoFar) \subseteq Seq(CallsSoFar') /\ Seq(PostsSoFar) \subseteq Seq(PostsSoFar')
<1>1. SoFar \subseteq SoFar'
  BY DEF SoFar
<1>2. CallsSoFar \subseteq CallsSoFar' /\ PostsSoFar \subseteq PostsSoFar'
  BY <1>1 DEF CallsSoFar, PostsSoFar
<1> QED BY <1>1, <1>2, SeqMonotonic

LEMMA TypesStay ==
  ASSUME changes' = changes
  PROVE  SoFar' = SoFar /\ CallsSoFar' = CallsSoFar /\ PostsSoFar' = PostsSoFar
BY DEF SoFar, CallsSoFar, PostsSoFar

-----------------------------------------------------------------------------
(* A step of one tab.                                                      *)

Resting(t) == UNCHANGED <<page[t], open[t], values[t], unkept[t], toWorker[t], toPage[t], heard[t]>>

LEMMA RestingStays ==
  ASSUME NEW t \in Tabs, Resting(t), storage' = storage, TabFine(t)
  PROVE  TabFine(t)' /\ (Saved(t)' <=> Saved(t))
BY DEF Resting, TabFine, Calm, Opening, Asks, Answered, On, AnswerFirst, ChangesLast, SavesForward,
       LastSaved, HearsWhatIsStored, Saved, CaughtUp, AtMost

\* A step of a tab that leaves the others and the storage alone.
LEMMA OneTabSteps ==
  ASSUME TabsIInv, NEW t \in Tabs, Typed', \A u \in Tabs \ {t} : Resting(u), storage' = storage,
         TabFine(t)',
         ~Saved(t)' => \A u \in Tabs \ {t} : Saved(u) /\ page[u] # "opening",
         page'[t] = "opening" => \A u \in Tabs \ {t} : Saved(u)
  PROVE  TabsIInv'
<1>1. \A u \in Tabs \ {t} : TabFine(u)' /\ (Saved(u)' <=> Saved(u)) /\ page'[u] = page[u]
  BY RestingStays DEF TabsIInv, Resting
<1>2. ChangesAlone'
  BY <1>1 DEF TabsIInv, ChangesAlone
<1> QED BY <1>1, <1>2 DEF TabsIInv

LEMMA LoadSteps ==
  ASSUME TabsIInv, LoadsAlone, NEW t \in Tabs, Load(t)
  PROVE  TabsIInv'
<1> DEFINE m == [call |-> "settingsOpen", text |-> storage]
<1>1. m \in CallsSoFar /\ <<m>> \in Seq(CallsSoFar)
  BY DEF TabsIInv, Typed, CallsSoFar
<1>2. Typed'
  BY <1>1, TypesStay DEF TabsIInv, Typed, Load
<1>3. \A u \in Tabs \ {t} : Resting(u)
  BY DEF TabsIInv, Typed, Load, Resting
<1>4. /\ page'[t] = "opening" /\ toWorker'[t] = <<m>> /\ storage' = storage
      /\ ~open'[t] /\ ~unkept'[t] /\ toPage'[t] = <<>> /\ heard'[t] = <<>>
  BY DEF TabsIInv, TabFine, Calm, Typed, Load
<1>5. Saved(t)' /\ ~CaughtUp(t)'
  BY <1>4 DEF Saved, CaughtUp
<1>6. TabFine(t)'
  BY <1>4, <1>5 DEF TabFine, Calm, Opening, Asks, On, AnswerFirst, ChangesLast, SavesForward,
                    HearsWhatIsStored
<1> QED BY <1>2, <1>3, <1>4, <1>5, <1>6, OneTabSteps DEF Load

LEMMA CloseSteps == ASSUME TabsIInv, NEW t \in Tabs, Close(t) PROVE TabsIInv'
<1>1. Default \in SoFar
  BY DEF Default, SoFar, TabsIInv, Typed
<1>2. Typed'
  BY <1>1, TypesStay DEF TabsIInv, Typed, Close
<1>3. \A u \in Tabs \ {t} : Resting(u)
  BY DEF TabsIInv, Typed, Close, Resting
<1>4. /\ page'[t] = "closed" /\ toWorker'[t] = <<>> /\ storage' = storage
      /\ ~open'[t] /\ ~unkept'[t] /\ toPage'[t] = <<>> /\ heard'[t] = <<>>
  BY DEF TabsIInv, Typed, Close
<1>5. Saved(t)' /\ CaughtUp(t)'
  BY <1>4 DEF Saved, CaughtUp
<1>6. TabFine(t)'
  BY <1>4, <1>5 DEF TabFine, Calm, Opening, On, AnswerFirst, ChangesLast, SavesForward, HearsWhatIsStored
<1> QED BY <1>2, <1>3, <1>4, <1>5, <1>6, OneTabSteps

\* A tab may change a setting: all it has to say to the storage is newer.
LEMMA ChangingTab ==
  ASSUME TabsIInv, LeavesTime, LoadsAlone, NEW t \in Tabs, page[t] # "closed", MayChange(t)
  PROVE  /\ CaughtUp(t) /\ heard[t] = <<>> /\ open[t] /\ ~Asks(t)
         /\ \A u \in Tabs \ {t} : Saved(u) /\ page[u] # "opening"
<1>1. CaughtUp(t) /\ \A u \in Tabs \ {t} : Saved(u) /\ page[u] # "opening"
  BY DEF MayChange
<1>2. ~Asks(t)
  <2> SUFFICES ASSUME Asks(t) PROVE ~CaughtUp(t)
    BY <1>1
  <2>1. 1 \in DOMAIN toWorker[t] /\ toWorker[t][1].call = "settingsOpen"
    BY DEF Asks
  <2> QED BY <2>1 DEF CaughtUp
<1>3. open[t]
  BY <1>2 DEF TabsIInv, TabFine, Opening, Answered, On, Typed
<1> QED BY <1>1, <1>2, <1>3 DEF CaughtUp

LEMMA ChangeSteps ==
  ASSUME TabsIInv, LeavesTime, LoadsAlone, NEW t \in Tabs, NEW k \in Keys, Change(t, k)
  PROVE  TabsIInv'
<1> DEFINE m == [call |-> "set", key |-> k]
<1>1. /\ CaughtUp(t) /\ heard[t] = <<>> /\ open[t] /\ ~Asks(t)
      /\ \A u \in Tabs \ {t} : Saved(u) /\ page[u] # "opening"
  BY ChangingTab DEF Change
<1>2. m \in CallsSoFar /\ m.call = "set" /\ toWorker[t] \in Seq(CallsSoFar)
      /\ toWorker'[t] = Append(toWorker[t], m)
  BY DEF TabsIInv, Typed, CallsSoFar, Change
<1> HIDE DEF m
<1>3. /\ Len(toWorker[t]) \in Nat /\ DOMAIN toWorker[t] = 1 .. Len(toWorker[t])
      /\ toWorker'[t] \in Seq(CallsSoFar) /\ DOMAIN toWorker'[t] = 1 .. Len(toWorker[t]) + 1
      /\ \A i \in 1 .. Len(toWorker[t]) : toWorker'[t][i] = toWorker[t][i]
      /\ toWorker'[t][Len(toWorker[t]) + 1] = m
  BY <1>2, AppendIs
<1>4. toWorker' \in [Tabs -> Seq(CallsSoFar)]
  BY <1>3 DEF TabsIInv, Typed, Change
<1>5. Typed'
  BY <1>4, TypesStay DEF TabsIInv, Typed, Change
<1>6. \A u \in Tabs \ {t} : Resting(u)
  BY DEF TabsIInv, Typed, Change, Resting
<1>7. /\ page'[t] = page[t] /\ storage' = storage /\ open'[t] = open[t] /\ unkept'[t] = unkept[t]
      /\ toPage'[t] = toPage[t] /\ heard'[t] = heard[t] /\ values'[t] = values[t]
  BY DEF Change
<1>8. CaughtUp(t)' /\ \A i \in DOMAIN toWorker'[t] : toWorker'[t][i].call = "set"
  BY <1>1, <1>2, <1>3, <1>7 DEF CaughtUp
<1>9. TabFine(t)'
  <2>1. TabFine(t)
    BY DEF TabsIInv
  <2>2. Calm(t)' /\ On(t)' /\ AnswerFirst(t)' /\ ChangesLast(t)' /\ HearsWhatIsStored(t)'
    BY <1>1, <1>7, <1>8, <2>1 DEF TabFine, Calm, On, AnswerFirst, ChangesLast, HearsWhatIsStored
  <2>3. Opening(t)'
    BY <1>1, <1>7, <1>8, <2>1 DEF TabFine, Opening, Answered
  <2>4. SavesForward(t)'
    BY <1>1, <1>7, <2>1 DEF TabFine, SavesForward, LastSaved, AtMost
  <2> QED BY <2>2, <2>3, <2>4 DEF TabFine
<1> QED BY <1>1, <1>5, <1>6, <1>7, <1>9, OneTabSteps

LEMMA CoreChangesSteps ==
  ASSUME TabsIInv, LeavesTime, LoadsAlone, NEW t \in Tabs, NEW k \in Keys, CoreChanges(t, k)
  PROVE  TabsIInv'
<1>1. TabFine(t) /\ page[t] # "closed"
  BY DEF TabsIInv, TabFine, Calm, CoreChanges
<1>2. /\ CaughtUp(t) /\ heard[t] = <<>> /\ open[t] /\ ~Asks(t)
      /\ \A u \in Tabs \ {t} : Saved(u) /\ page[u] # "opening"
  BY <1>1, ChangingTab DEF CoreChanges
<1>3. changes \in Nat /\ changes' = changes + 1 /\ values[t] \in SoFar /\ storage \in SoFar
      /\ values' = [values EXCEPT ![t] = [values[t] EXCEPT ![k] = changes + 1]]
  BY DEF TabsIInv, Typed, CoreChanges
<1>4. /\ SoFar \subseteq SoFar' /\ Seq(SoFar) \subseteq Seq(SoFar')
      /\ Seq(CallsSoFar) \subseteq Seq(CallsSoFar') /\ Seq(PostsSoFar) \subseteq Seq(PostsSoFar')
  BY <1>3, TypesGrow
<1>5. values'[t] \in SoFar' /\ values'[t] = [values[t] EXCEPT ![k] = changes + 1]
  BY <1>3 DEF SoFar, TabsIInv, Typed
<1>6. Typed'
  <2>1. values' \in [Tabs -> SoFar']
    BY <1>3, <1>4, <1>5 DEF TabsIInv, Typed
  <2> QED BY <1>3, <1>4, <2>1 DEF TabsIInv, Typed, CoreChanges
<1>7. \A u \in Tabs \ {t} : Resting(u)
  BY <1>3 DEF TabsIInv, Typed, CoreChanges, Resting
<1>8. /\ page'[t] = page[t] /\ storage' = storage /\ open'[t] = open[t] /\ unkept'[t]
      /\ toPage'[t] = toPage[t] /\ heard'[t] = heard[t] /\ toWorker'[t] = toWorker[t]
  BY DEF CoreChanges, TabsIInv, Typed
<1>9. CaughtUp(t)'
  BY <1>2, <1>8 DEF CaughtUp
<1>10. \A text \in SoFar : AtMost(text, values[t]) => AtMost(text, values'[t])
  BY <1>3, <1>5 DEF AtMost, SoFar
<1>11. SavesForward(t)'
  <2>1. \A i \in DOMAIN toPage[t] : toPage[t][i].text \in SoFar
    <3>1. toPage[t] \in Seq(PostsSoFar)
      BY DEF TabsIInv, Typed
    <3>2. DOMAIN toPage[t] = 1 .. Len(toPage[t]) /\ \A i \in 1 .. Len(toPage[t]) : toPage[t][i] \in PostsSoFar
      BY <3>1, LenProperties, ElementOfSeq
    <3> QED BY <3>2 DEF PostsSoFar
  <2>2. SavesForward(t)
    BY <1>1 DEF TabFine
  <2>3. AtMost(storage, values'[t])
    BY <1>2, <1>3, <1>10, <2>2 DEF SavesForward
  <2>4. \A i \in DOMAIN toPage[t] : toPage[t][i].settings =>
          AtMost(storage, toPage[t][i].text) /\ AtMost(toPage[t][i].text, values'[t])
    BY <1>2, <1>10, <2>1, <2>2 DEF SavesForward
  <2>5. \A i, j \in DOMAIN toPage[t] :
          i < j /\ toPage[t][i].settings /\ toPage[t][j].settings =>
            AtMost(toPage[t][i].text, toPage[t][j].text)
    BY <1>2, <2>2 DEF SavesForward
  <2> QED BY <1>8, <2>3, <2>4, <2>5 DEF SavesForward, AtMost
<1>12. TabFine(t)'
  <2>1. Calm(t)' /\ On(t)' /\ AnswerFirst(t)' /\ ChangesLast(t)' /\ HearsWhatIsStored(t)'
    BY <1>1, <1>2, <1>8, <1>9 DEF TabFine, Calm, On, AnswerFirst, ChangesLast, HearsWhatIsStored
  <2>2. Opening(t)'
    BY <1>1, <1>2, <1>8, <1>9 DEF TabFine, Opening, Answered
  <2> QED BY <1>11, <2>1, <2>2 DEF TabFine
<1> QED BY <1>2, <1>6, <1>7, <1>8, <1>12, OneTabSteps

\* What a worker handles is as old as the changes so far, and it leaves the rest.
LEMMA HandlingIs ==
  ASSUME Typed, NEW t \in Tabs, NEW call, Handling(t, call)
  PROVE  /\ Handled(t) \in CallsSoFar /\ Handled(t).call = call
         /\ (call # "set" => Handled(t).text \in SoFar) /\ (call = "set" => Handled(t).key \in Keys)
         /\ Len(toWorker[t]) \in Nat /\ Len(toWorker[t]) >= 1
         /\ DOMAIN toWorker[t] = 1 .. Len(toWorker[t])
         /\ toWorker' \in [Tabs -> Seq(CallsSoFar)]
         /\ \A u \in Tabs \ {t} : toWorker'[u] = toWorker[u]
         /\ DOMAIN toWorker'[t] = 1 .. Len(toWorker[t]) - 1 /\ Len(toWorker'[t]) = Len(toWorker[t]) - 1
         /\ \A i \in 1 .. Len(toWorker[t]) - 1 : toWorker'[t][i] = toWorker[t][i + 1]
         /\ toWorker'[t] = <<>> <=> Len(toWorker[t]) = 1
<1>1. /\ toWorker[t] \in Seq(CallsSoFar) /\ toWorker[t] # <<>> /\ Handled(t) = toWorker[t][1]
      /\ toWorker' = [toWorker EXCEPT ![t] = Tail(toWorker[t])] /\ toWorker'[t] = Tail(toWorker[t])
      /\ Handled(t).call = call
  BY DEF Typed, Handling, Handled
<1>2. /\ Len(toWorker[t]) \in Nat /\ Len(toWorker[t]) >= 1 /\ DOMAIN toWorker[t] = 1 .. Len(toWorker[t])
      /\ Handled(t) \in CallsSoFar /\ toWorker'[t] \in Seq(CallsSoFar)
      /\ Len(toWorker'[t]) = Len(toWorker[t]) - 1 /\ DOMAIN toWorker'[t] = 1 .. Len(toWorker[t]) - 1
      /\ \A i \in 1 .. Len(toWorker[t]) - 1 : toWorker'[t][i] = toWorker[t][i + 1]
      /\ toWorker'[t] = <<>> <=> Len(toWorker[t]) = 1
  BY <1>1, TailIs
<1>3. (call # "set" => Handled(t).text \in SoFar) /\ (call = "set" => Handled(t).key \in Keys)
  BY <1>1, <1>2 DEF CallsSoFar
<1>4. toWorker' \in [Tabs -> Seq(CallsSoFar)] /\ \A u \in Tabs \ {t} : toWorker'[u] = toWorker[u]
  BY <1>1, <1>2 DEF Typed
<1> QED BY <1>1, <1>2, <1>3, <1>4

LEMMA SettingsOpenSteps == ASSUME TabsIInv, NEW t \in Tabs, SettingsOpen(t) PROVE TabsIInv'
<1> DEFINE answer == [settings |-> FALSE, text |-> Default]
<1>1. /\ Handled(t).call = "settingsOpen" /\ Len(toWorker[t]) \in Nat /\ Len(toWorker[t]) >= 1
      /\ DOMAIN toWorker[t] = 1 .. Len(toWorker[t])
      /\ toWorker' \in [Tabs -> Seq(CallsSoFar)] /\ \A u \in Tabs \ {t} : toWorker'[u] = toWorker[u]
      /\ toWorker'[t] = <<>> <=> Len(toWorker[t]) = 1
      /\ Handled(t).text \in SoFar
  BY HandlingIs DEF TabsIInv, SettingsOpen
<1>2. TabFine(t) /\ page[t] \in {"closed", "opening", "on"}
  BY DEF TabsIInv, Typed
<1>3. page[t] = "opening" /\ Asks(t) /\ heard[t] = <<>>
  <2>1. page[t] # "closed"
    BY <1>2 DEF TabFine, Calm, SettingsOpen, Handling
  <2>2. page[t] # "on" /\ ~CaughtUp(t)
    BY <1>1, <1>2 DEF TabFine, On, Handled, CaughtUp
  <2> QED BY <1>2, <2>1, <2>2 DEF TabFine, Opening, Answered
<1>4. toWorker'[t] = <<>> /\ Handled(t).text = storage
  <2>1. Len(toWorker[t]) = 1
    BY <1>3 DEF Asks
  <2> QED BY <1>1, <1>3, <2>1 DEF Asks, Handled
<1>5. toPage[t] = <<>> /\ answer \in PostsSoFar /\ toPage'[t] = Append(<<>>, answer)
  <2>1. Default \in SoFar
    BY DEF TabsIInv, Typed, SoFar, Default
  <2>2. toPage[t] = <<>>
    BY <1>3 DEF Asks
  <2>3. toPage'[t] = Append(toPage[t], answer)
    BY DEF TabsIInv, Typed, SettingsOpen
  <2> QED BY <2>1, <2>2, <2>3 DEF PostsSoFar
<1>6. toPage'[t] = <<answer>> /\ toPage'[t] \in Seq(PostsSoFar)
  BY <1>5
<1>7. Typed'
  <2>1. /\ toPage' \in [Tabs -> Seq(PostsSoFar)] /\ values' \in [Tabs -> SoFar]
        /\ open' \in [Tabs -> BOOLEAN] /\ unkept' \in [Tabs -> BOOLEAN]
    BY <1>1, <1>6 DEF TabsIInv, Typed, SettingsOpen
  <2> QED BY <1>1, <2>1, TypesStay DEF TabsIInv, Typed, SettingsOpen
<1>8. \A u \in Tabs \ {t} : Resting(u)
  BY <1>1 DEF TabsIInv, Typed, SettingsOpen, Resting
<1>9. /\ page'[t] = "opening" /\ storage' = storage /\ open'[t] /\ ~unkept'[t]
      /\ values'[t] = storage /\ heard'[t] = <<>>
  BY <1>3, <1>4 DEF TabsIInv, Typed, SettingsOpen
<1>10. /\ DOMAIN toPage'[t] = {1} /\ Len(toPage'[t]) = 1 /\ ~toPage'[t][1].settings /\ toPage'[t] # <<>>
  BY <1>6
<1>11. CaughtUp(t)' /\ Saved(t)'
  BY <1>4, <1>9, <1>10 DEF CaughtUp, Saved
<1>12. AtMost(storage, storage)
  BY DEF TabsIInv, Typed, SoFar, AtMost
<1>13. TabFine(t)'
  <2>1. Calm(t)' /\ Opening(t)' /\ On(t)' /\ AnswerFirst(t)' /\ ChangesLast(t)' /\ HearsWhatIsStored(t)'
    BY <1>9, <1>10, <1>11
       DEF Calm, Opening, Answered, On, AnswerFirst, ChangesLast, HearsWhatIsStored
  <2>2. SavesForward(t)'
    BY <1>9, <1>10, <1>12 DEF SavesForward, LastSaved, AtMost
  <2> QED BY <2>1, <2>2 DEF TabFine
<1>14. \A u \in Tabs \ {t} : Saved(u)
  BY <1>3 DEF TabsIInv, ChangesAlone
<1> QED BY <1>7, <1>8, <1>9, <1>11, <1>13, <1>14, OneTabSteps

\* A worker that has a text to adopt has nothing to save.
LEMMA AdoptingTab ==
  ASSUME TabsIInv, NEW t \in Tabs, ~CaughtUp(t)
  PROVE  /\ Saved(t) /\ ~unkept[t]
         /\ \A i \in DOMAIN toPage[t] : ~toPage[t][i].settings
         /\ \A i \in DOMAIN toWorker[t] : toWorker[t][i].call # "set"
BY DEF TabsIInv, TabFine, ChangesLast, Saved

LEMMA SettingsAdoptSteps == ASSUME TabsIInv, NEW t \in Tabs, SettingsAdopt(t) PROVE TabsIInv'
<1> DEFINE n == Len(toWorker[t])
<1>1. /\ toWorker[t][1].call = "settingsAdopt" /\ n \in Nat /\ n >= 1
      /\ DOMAIN toWorker[t] = 1 .. n /\ DOMAIN toWorker'[t] = 1 .. n - 1 /\ Len(toWorker'[t]) = n - 1
      /\ \A i \in 1 .. n - 1 : toWorker'[t][i] = toWorker[t][i + 1]
      /\ toWorker' \in [Tabs -> Seq(CallsSoFar)] /\ \A u \in Tabs \ {t} : toWorker'[u] = toWorker[u]
      /\ toWorker'[t] = <<>> <=> n = 1
      /\ toWorker[t][1].text \in SoFar
  BY HandlingIs DEF TabsIInv, SettingsAdopt, Handled
<1>2. ~CaughtUp(t) /\ TabFine(t) /\ page[t] \in {"closed", "opening", "on"}
  <2>1. 1 \in DOMAIN toWorker[t] /\ toWorker[t][1].call # "set"
    BY <1>1
  <2> QED BY <2>1 DEF CaughtUp, TabsIInv, Typed
<1>3. /\ Saved(t) /\ ~unkept[t] /\ \A i \in DOMAIN toPage[t] : ~toPage[t][i].settings
      /\ \A i \in 1 .. n : toWorker[t][i].call # "set"
  BY <1>1, <1>2, AdoptingTab
<1>4. page[t] = "on"
  <2>1. page[t] # "closed"
    BY <1>1, <1>2 DEF TabFine, Calm
  <2>2. ~Asks(t)
    BY <1>1 DEF Asks
  <2> QED BY <1>2, <2>1, <2>2 DEF TabFine, Opening, Answered
<1>5. toPage[t] = <<>> \/ ~toPage[t][Len(toPage[t])].settings
  <2>1. toPage[t] \in Seq(PostsSoFar)
    BY DEF TabsIInv, Typed
  <2>2. toPage[t] # <<>> => Len(toPage[t]) \in DOMAIN toPage[t]
    BY <2>1, EmptySeq, LenProperties
  <2> QED BY <1>3, <2>2
<1>6. /\ page'[t] = "on" /\ storage' = storage /\ open'[t] /\ ~unkept'[t] /\ toPage'[t] = toPage[t]
      /\ values'[t] = toWorker[t][1].text /\ heard'[t] = heard[t]
  BY <1>2, <1>4 DEF TabsIInv, Typed, TabFine, On, SettingsAdopt, Adopting, Handled
<1>7. Typed'
  <2>1. values' \in [Tabs -> SoFar] /\ unkept' \in [Tabs -> BOOLEAN]
    BY <1>1 DEF TabsIInv, Typed, SettingsAdopt, Adopting, Handled
  <2> QED BY <1>1, <2>1, TypesStay DEF TabsIInv, Typed, SettingsAdopt, Adopting
<1>8. \A u \in Tabs \ {t} : Resting(u)
  BY <1>1 DEF TabsIInv, Typed, SettingsAdopt, Adopting, Resting
<1> HIDE DEF n
<1>9. Saved(t)'
  <2>1. ASSUME NEW i \in 1 .. n - 1 PROVE toWorker'[t][i].call # "set"
    <3>1. i + 1 \in 1 .. n /\ toWorker'[t][i] = toWorker[t][i + 1]
      BY <1>1
    <3> QED BY <1>3, <3>1
  <2> QED BY <1>1, <1>3, <1>6, <2>1 DEF Saved
<1>10. CaughtUp(t)' => n = 1 /\ heard[t] = <<>>
  <2> SUFFICES ASSUME CaughtUp(t)', n # 1 PROVE FALSE
    BY <1>6 DEF CaughtUp
  <2>1. 1 \in 1 .. n - 1 /\ toWorker'[t][1] = toWorker[t][2] /\ 2 \in 1 .. n
    BY <1>1
  <2> QED BY <1>1, <1>3, <2>1 DEF CaughtUp
<1>11. HearsWhatIsStored(t)'
  <2> SUFFICES ASSUME heard[t] = <<>>, n # 1
               PROVE  toWorker'[t][n - 1].call # "set" /\ toWorker'[t][n - 1].text = storage
    <3>1. n = 1 /\ heard[t] = <<>> => CaughtUp(t)'
      BY <1>1, <1>6 DEF CaughtUp
    <3> QED BY <1>1, <1>2, <1>6, <3>1 DEF HearsWhatIsStored, TabFine
  <2>1. n - 1 \in 1 .. n - 1 /\ toWorker'[t][n - 1] = toWorker[t][n]
    BY <1>1
  <2> QED BY <1>1, <1>2, <2>1 DEF TabFine, HearsWhatIsStored, n
<1>12. SavesForward(t)'
  <2> SUFFICES ASSUME n = 1, heard[t] = <<>>
               PROVE  values'[t] = storage /\ AtMost(storage, storage)
    BY <1>3, <1>5, <1>6, <1>10 DEF SavesForward, LastSaved, AtMost
  <2>1. toWorker[t][1].text = storage
    BY <1>2 DEF TabFine, HearsWhatIsStored, n
  <2> QED BY <1>6, <2>1 DEF TabsIInv, Typed, SoFar, AtMost
<1>13. TabFine(t)'
  <2>1. ASSUME NEW i \in 1 .. n - 1 PROVE toWorker'[t][i].call # "settingsOpen"
    <3>1. i + 1 \in 1 .. n /\ toWorker'[t][i] = toWorker[t][i + 1]
      BY <1>1
    <3> QED BY <1>1, <1>2, <1>4, <3>1 DEF TabFine, On
  <2>2. Calm(t)' /\ Opening(t)' /\ On(t)' /\ AnswerFirst(t)' /\ ChangesLast(t)'
    BY <1>1, <1>2, <1>4, <1>6, <1>9, <2>1 DEF TabFine, Calm, Opening, On, AnswerFirst, ChangesLast
  <2> QED BY <1>11, <1>12, <2>2 DEF TabFine
<1> QED BY <1>6, <1>7, <1>8, <1>9, <1>13, OneTabSteps

\* The whole text is posted behind what is on its way to the storage, and is the newest.
LEMMA KeepingSteps ==
  ASSUME TabsIInv, NEW t \in Tabs, CaughtUp(t), open[t], ~Saved(t), Typed',
         NEW text \in SoFar', Keeping(t, text), values'[t] = text, AtMost(values[t], text),
         changes' \in Int, storage' = storage, page' = page, open' = open, heard' = heard,
         \A i \in DOMAIN toWorker'[t] : toWorker'[t][i].call = "set",
         \A u \in Tabs \ {t} : values'[u] = values[u] /\ toWorker'[u] = toWorker[u]
  PROVE  TabsIInv'
<1> DEFINE n == Len(toPage[t])
           post == [settings |-> TRUE, text |-> text]
<1>1. TabFine(t) /\ page[t] # "closed" /\ heard[t] = <<>>
  BY DEF TabsIInv, TabFine, Calm, CaughtUp
<1>2. /\ n \in Nat /\ DOMAIN toPage[t] = 1 .. n /\ DOMAIN toPage'[t] = 1 .. n + 1
      /\ Len(toPage'[t]) = n + 1 /\ toPage'[t] # <<>>
      /\ \A i \in 1 .. n : toPage'[t][i] = toPage[t][i]
      /\ toPage'[t][n + 1] = post
      /\ \A i \in 1 .. n : toPage[t][i].text \in SoFar
      /\ (toPage[t] # <<>> => n >= 1)
  <2>1. toPage[t] \in Seq(PostsSoFar) /\ toPage'[t] \in Seq(PostsSoFar')
        /\ toPage'[t] = Append(toPage[t], post)
    BY DEF TabsIInv, Typed, Keeping
  <2>2. toPage[t] \in Seq(PostsSoFar \cup {post}) /\ post \in PostsSoFar \cup {post}
    BY <2>1, SeqMonotonic
  <2>3. /\ n \in Nat /\ DOMAIN toPage[t] = 1 .. n /\ DOMAIN toPage'[t] = 1 .. n + 1
        /\ Len(toPage'[t]) = n + 1 /\ toPage'[t] # <<>>
        /\ \A i \in 1 .. n : toPage'[t][i] = toPage[t][i]
        /\ toPage'[t][n + 1] = post
    BY <2>1, <2>2, AppendIs
  <2>4. \A i \in 1 .. n : toPage[t][i] \in PostsSoFar
    BY <2>1, ElementOfSeq
  <2>5. toPage[t] # <<>> => n >= 1
    BY <2>1, EmptySeq
  <2> HIDE DEF n, post
  <2> QED BY <2>3, <2>4, <2>5 DEF PostsSoFar
<1>3. post.settings /\ post.text = text
  OBVIOUS
<1>4. /\ ~unkept'[t] /\ \A u \in Tabs \ {t} : toPage'[u] = toPage[u] /\ unkept'[u] = unkept[u]
  BY DEF TabsIInv, Typed, Keeping
<1> HIDE DEF n, post
<1>5. \A old \in SoFar : AtMost(old, values[t]) => AtMost(old, text)
  <2>1. \A k \in Keys : values[t][k] \in Int /\ text[k] \in Int /\ \A old \in SoFar : old[k] \in Int
    BY DEF TabsIInv, Typed, SoFar
  <2> QED BY <2>1 DEF AtMost
<1>6. CaughtUp(t)'
  BY <1>1 DEF CaughtUp
<1>7. SavesForward(t)'
  <2>1. /\ AtMost(storage, values[t])
        /\ \A i \in 1 .. n : toPage[t][i].settings =>
             AtMost(storage, toPage[t][i].text) /\ AtMost(toPage[t][i].text, values[t])
        /\ \A i, j \in 1 .. n :
             i < j /\ toPage[t][i].settings /\ toPage[t][j].settings =>
               AtMost(toPage[t][i].text, toPage[t][j].text)
    BY <1>1, <1>2 DEF TabFine, SavesForward
  <2>2. storage \in SoFar /\ AtMost(storage, text) /\ AtMost(text, text)
    BY <1>5, <2>1 DEF TabsIInv, Typed, SoFar, AtMost
  <2>3. ASSUME NEW i \in 1 .. n + 1, toPage'[t][i].settings
        PROVE  AtMost(storage, toPage'[t][i].text) /\ AtMost(toPage'[t][i].text, text)
    <3>1. CASE i = n + 1
      BY <1>2, <1>3, <2>2, <3>1
    <3>2. CASE i # n + 1
      BY <1>2, <1>5, <2>1, <2>3, <3>2
    <3> QED BY <3>1, <3>2
  <2>4. ASSUME NEW i \in 1 .. n + 1, NEW j \in 1 .. n + 1, i < j,
               toPage'[t][i].settings, toPage'[t][j].settings
        PROVE  AtMost(toPage'[t][i].text, toPage'[t][j].text)
    <3>1. CASE j = n + 1
      BY <1>2, <1>3, <2>3, <2>4, <3>1
    <3>2. CASE j # n + 1
      BY <1>2, <2>1, <2>4, <3>2
    <3> QED BY <3>1, <3>2
  <2>5. LastSaved(t)' = text
    BY <1>2, <1>3 DEF LastSaved
  <2> QED BY <1>2, <2>2, <2>3, <2>4, <2>5 DEF SavesForward, AtMost
<1>8. AnswerFirst(t)'
  <2> SUFFICES ASSUME NEW i \in 1 .. n + 1, ~toPage'[t][i].settings PROVE i = 1 /\ page[t] = "opening"
    BY <1>2 DEF AnswerFirst
  <2>1. i # n + 1
    BY <1>2, <1>3
  <2> QED BY <1>1, <1>2, <2>1 DEF TabFine, AnswerFirst
<1>9. Opening(t)'
  <2>1. page[t] = "opening" => toPage[t] # <<>> /\ ~toPage[t][1].settings
    BY <1>1 DEF TabFine, Opening, Asks, Answered
  <2>2. toPage[t] # <<>> => toPage'[t][1] = toPage[t][1]
    <3>1. toPage[t] # <<>> => 1 \in 1 .. n
      BY <1>2
    <3>2. \A i \in 1 .. n : toPage'[t][i] = toPage[t][i]
      BY <1>2
    <3> QED BY <3>1, <3>2
  <2> QED BY <1>1, <1>2, <1>6, <2>1, <2>2 DEF Opening, Answered
<1>10. Calm(t)' /\ On(t)' /\ ChangesLast(t)' /\ HearsWhatIsStored(t)'
  BY <1>1, <1>6 DEF Calm, On, ChangesLast, HearsWhatIsStored
<1>11. \A u \in Tabs \ {t} : Saved(u) /\ page[u] # "opening"
  BY DEF TabsIInv, ChangesAlone
<1>12. \A u \in Tabs \ {t} : Resting(u)
  BY <1>4 DEF Resting
<1> QED BY <1>7, <1>8, <1>9, <1>10, <1>11, <1>12, OneTabSteps DEF TabFine

LEMMA SetSteps == ASSUME TabsIInv, NEW t \in Tabs, Set(t) PROVE TabsIInv'
<1> DEFINE n == Len(toWorker[t])
<1>1. /\ toWorker[t][1].call = "set" /\ toWorker[t][1].key \in Keys /\ n \in Nat /\ n >= 1
      /\ DOMAIN toWorker[t] = 1 .. n /\ DOMAIN toWorker'[t] = 1 .. n - 1
      /\ \A i \in 1 .. n - 1 : toWorker'[t][i] = toWorker[t][i + 1]
      /\ toWorker' \in [Tabs -> Seq(CallsSoFar)] /\ \A u \in Tabs \ {t} : toWorker'[u] = toWorker[u]
  BY HandlingIs DEF TabsIInv, Set, Handled
<1>2. ~Saved(t)
  <2>1. 1 \in DOMAIN toWorker[t]
    BY <1>1
  <2> QED BY <1>1, <2>1 DEF Saved
<1>3. CaughtUp(t) /\ open[t]
  BY <1>2 DEF TabsIInv, TabFine, ChangesLast
<1> HIDE DEF n
<1>4. ASSUME NEW i \in DOMAIN toWorker'[t] PROVE toWorker'[t][i].call = "set"
  <2>1. i + 1 \in 1 .. n /\ toWorker'[t][i] = toWorker[t][i + 1]
    BY <1>1
  <2> QED BY <1>1, <1>3, <2>1 DEF CaughtUp
<1> PICK k \in Keys : k = toWorker[t][1].key
  BY <1>1
<1>5. /\ changes \in Nat /\ changes' = changes + 1 /\ values[t] \in SoFar
      /\ values' = [values EXCEPT ![t] = [values[t] EXCEPT ![k] = changes + 1]]
  BY DEF TabsIInv, Typed, Set, Handled
<1>6. /\ SoFar \subseteq SoFar' /\ Seq(SoFar) \subseteq Seq(SoFar')
      /\ Seq(CallsSoFar) \subseteq Seq(CallsSoFar') /\ Seq(PostsSoFar) \subseteq Seq(PostsSoFar')
  BY <1>5, TypesGrow
<1>7. /\ values'[t] \in SoFar' /\ values'[t] = [values[t] EXCEPT ![k] = changes + 1]
      /\ values' \in [Tabs -> SoFar'] /\ \A u \in Tabs \ {t} : values'[u] = values[u]
  <2>1. values'[t] \in SoFar' /\ values'[t] = [values[t] EXCEPT ![k] = changes + 1]
    BY <1>5 DEF SoFar, TabsIInv, Typed
  <2> QED BY <1>5, <1>6, <2>1 DEF TabsIInv, Typed
<1>8. AtMost(values[t], values'[t])
  BY <1>5, <1>7 DEF AtMost, SoFar
<1>9. toPage' \in [Tabs -> Seq(PostsSoFar')]
  <2> PICK post \in PostsSoFar' : post = [settings |-> TRUE, text |-> values'[t]]
    BY <1>7 DEF PostsSoFar
  <2>1. Append(toPage[t], post) \in Seq(PostsSoFar')
    BY <1>6, AppendIs DEF TabsIInv, Typed
  <2> QED BY <1>6, <2>1 DEF TabsIInv, Typed, Set, Keeping
<1>10. Typed'
  BY <1>1, <1>5, <1>6, <1>7, <1>9 DEF TabsIInv, Typed, Set, Keeping
<1> PICK text \in SoFar' : text = values'[t]
  BY <1>7
<1>11. /\ Keeping(t, text) /\ values'[t] = text /\ AtMost(values[t], text) /\ changes' \in Int
       /\ storage' = storage /\ page' = page /\ open' = open /\ heard' = heard
       /\ \A u \in Tabs \ {t} : values'[u] = values[u] /\ toWorker'[u] = toWorker[u]
  BY <1>1, <1>5, <1>7, <1>8 DEF Set
<1> QED BY <1>2, <1>3, <1>4, <1>10, <1>11, KeepingSteps

LEMMA PumpSteps == ASSUME TabsIInv, NEW t \in Tabs, Pump(t) PROVE TabsIInv'
<1>1. ~Saved(t) /\ CaughtUp(t) /\ open[t]
  BY DEF TabsIInv, TabFine, ChangesLast, Pump, Saved
<1>2. SoFar' = SoFar /\ CallsSoFar' = CallsSoFar /\ PostsSoFar' = PostsSoFar
  BY TypesStay DEF Pump
<1>3. values[t] \in SoFar /\ AtMost(values[t], values[t]) /\ changes \in Int
  BY DEF TabsIInv, Typed, SoFar, AtMost
<1>4. toPage' \in [Tabs -> Seq(PostsSoFar)]
  <2> PICK post \in PostsSoFar : post = [settings |-> TRUE, text |-> values[t]]
    BY <1>3 DEF PostsSoFar
  <2>1. Append(toPage[t], post) \in Seq(PostsSoFar)
    BY AppendIs DEF TabsIInv, Typed
  <2> QED BY <2>1 DEF TabsIInv, Typed, Pump, Keeping
<1>5. Typed'
  BY <1>2, <1>4 DEF TabsIInv, Typed, Pump, Keeping
<1>6. \A i \in DOMAIN toWorker'[t] : toWorker'[t][i].call = "set"
  BY <1>1 DEF CaughtUp, Pump
<1> PICK text \in SoFar' : text = values[t]
  BY <1>2, <1>3
<1>7. /\ Keeping(t, text) /\ values'[t] = text /\ AtMost(values[t], text) /\ changes' \in Int
      /\ storage' = storage /\ page' = page /\ open' = open /\ heard' = heard
      /\ \A u \in Tabs \ {t} : values'[u] = values[u] /\ toWorker'[u] = toWorker[u]
  BY <1>3 DEF Pump
<1> QED BY <1>1, <1>5, <1>6, <1>7, KeepingSteps

-----------------------------------------------------------------------------
(* The page's steps.                                                       *)

LEMMA OpenedSteps == ASSUME TabsIInv, NEW t \in Tabs, Opened(t) PROVE TabsIInv'
<1> DEFINE n == Len(toPage[t])
<1>1. /\ n \in Nat /\ n >= 1 /\ DOMAIN toPage[t] = 1 .. n
      /\ toPage'[t] \in Seq(PostsSoFar) /\ Len(toPage'[t]) = n - 1 /\ DOMAIN toPage'[t] = 1 .. n - 1
      /\ \A i \in 1 .. n - 1 : toPage'[t][i] = toPage[t][i + 1]
      /\ toPage'[t] = <<>> <=> n = 1
  <2>1. toPage[t] \in Seq(PostsSoFar) /\ toPage[t] # <<>> /\ toPage'[t] = Tail(toPage[t])
    BY DEF TabsIInv, Typed, Opened
  <2> QED BY <2>1, TailIs
<1>2. TabFine(t) /\ toPage[t] # <<>> /\ ~toPage[t][1].settings
  BY DEF TabsIInv, Opened
<1>3. page[t] = "opening" /\ 1 \in DOMAIN toPage[t]
  BY <1>1, <1>2 DEF TabFine, AnswerFirst
<1>4. open[t] /\ CaughtUp(t) /\ heard[t] = <<>>
  BY <1>2, <1>3 DEF TabFine, Opening, Asks, Answered
<1>5. /\ page'[t] = "on" /\ storage' = storage /\ open'[t] = open[t] /\ unkept'[t] = unkept[t]
      /\ values'[t] = values[t] /\ toWorker'[t] = toWorker[t] /\ heard'[t] = heard[t]
  BY DEF TabsIInv, Typed, Opened
<1>6. toPage' \in [Tabs -> Seq(PostsSoFar)] /\ page' \in [Tabs -> {"closed", "opening", "on"}]
  BY <1>1 DEF TabsIInv, Typed, Opened
<1>7. Typed'
  BY <1>6, TypesStay DEF TabsIInv, Typed, Opened
<1>8. \A u \in Tabs \ {t} : Resting(u)
  BY DEF TabsIInv, Typed, Opened, Resting
<1> HIDE DEF n
<1>9. ASSUME NEW i \in 1 .. n - 1
      PROVE  i + 1 \in 1 .. n /\ toPage'[t][i] = toPage[t][i + 1] /\ toPage[t][i + 1].settings
  <2>1. i + 1 \in 1 .. n /\ i + 1 # 1
    BY <1>1
  <2> QED BY <1>1, <1>2, <2>1 DEF TabFine, AnswerFirst
<1>10. Saved(t)' <=> Saved(t)
  <2>1. (\A i \in 1 .. n - 1 : ~toPage'[t][i].settings) <=> \A i \in 1 .. n : ~toPage[t][i].settings
    <3>1. ASSUME NEW i \in 1 .. n, toPage[t][i].settings PROVE i - 1 \in 1 .. n - 1 /\ toPage'[t][i - 1].settings
      <4>1. i # 1 /\ i - 1 \in 1 .. n - 1
        BY <1>1, <1>2, <3>1
      <4>2. (i - 1) + 1 = i
        BY <1>1
      <4> QED BY <1>9, <3>1, <4>1, <4>2
    <3> QED BY <1>9, <3>1
  <2> QED BY <1>1, <1>5, <2>1 DEF Saved
<1>11. SavesForward(t)'
  <2>1. /\ AtMost(storage, values[t])
        /\ \A i \in 1 .. n : toPage[t][i].settings =>
             AtMost(storage, toPage[t][i].text) /\ AtMost(toPage[t][i].text, values[t])
        /\ \A i, j \in 1 .. n :
             i < j /\ toPage[t][i].settings /\ toPage[t][j].settings =>
               AtMost(toPage[t][i].text, toPage[t][j].text)
        /\ ~unkept[t] => values[t] = LastSaved(t)
    BY <1>1, <1>2, <1>4 DEF TabFine, SavesForward
  <2>2. \A i \in 1 .. n - 1 : AtMost(storage, toPage'[t][i].text) /\ AtMost(toPage'[t][i].text, values[t])
    BY <1>9, <2>1
  <2>3. ASSUME NEW i \in 1 .. n - 1, NEW j \in 1 .. n - 1, i < j
        PROVE  AtMost(toPage'[t][i].text, toPage'[t][j].text)
    <3>1. i + 1 < j + 1
      BY <1>1, <2>3
    <3> QED BY <1>9, <2>1, <3>1
  <2>4. LastSaved(t)' = LastSaved(t)
    <3>1. CASE n = 1
      BY <1>1, <1>2, <1>5, <3>1 DEF LastSaved, n
    <3>2. CASE n # 1
      <4>1. n - 1 \in 1 .. n - 1 /\ (n - 1) + 1 = n
        BY <1>1, <3>2
      <4>2. toPage'[t][n - 1] = toPage[t][n] /\ toPage[t][n].settings
        BY <1>9, <4>1
      <4>3. toPage'[t] # <<>> /\ toPage[t] # <<>>
        BY <1>1, <1>2, <3>2
      <4> QED BY <1>1, <1>5, <4>2, <4>3 DEF LastSaved, n
    <3> QED BY <3>1, <3>2
  <2> QED BY <1>1, <1>5, <2>1, <2>2, <2>3, <2>4 DEF SavesForward, AtMost
<1>12. TabFine(t)'
  <2>1. CaughtUp(t)' /\ \A i \in DOMAIN toWorker[t] : toWorker[t][i].call # "settingsOpen"
    BY <1>4, <1>5 DEF CaughtUp
  <2>2. AnswerFirst(t)'
    BY <1>1, <1>9 DEF AnswerFirst
  <2> QED BY <1>4, <1>5, <1>11, <2>1, <2>2 DEF TabFine, Calm, Opening, On, ChangesLast, HearsWhatIsStored
<1>13. ~Saved(t)' => \A u \in Tabs \ {t} : Saved(u) /\ page[u] # "opening"
  BY <1>10 DEF TabsIInv, ChangesAlone
<1> QED BY <1>5, <1>7, <1>8, <1>12, <1>13, OneTabSteps

LEMMA HearingSteps == ASSUME TabsIInv, NEW t \in Tabs, Hearing(t) PROVE TabsIInv'
<1> DEFINE n == Len(heard[t])
           w == Len(toWorker[t])
<1>1. /\ n \in Nat /\ n >= 1 /\ DOMAIN heard[t] = 1 .. n /\ heard[t][1] \in SoFar
      /\ heard'[t] \in Seq(SoFar) /\ Len(heard'[t]) = n - 1
      /\ \A i \in 1 .. n - 1 : heard'[t][i] = heard[t][i + 1]
      /\ heard'[t] = <<>> <=> n = 1
  <2>1. heard[t] \in Seq(SoFar) /\ heard[t] # <<>> /\ heard'[t] = Tail(heard[t])
    BY DEF TabsIInv, Typed, Hearing
  <2> QED BY <2>1, TailIs
<1> PICK m \in CallsSoFar : m = [call |-> "settingsAdopt", text |-> heard[t][1]]
  BY <1>1 DEF CallsSoFar
<1>2. /\ w \in Nat /\ DOMAIN toWorker[t] = 1 .. w
      /\ toWorker'[t] \in Seq(CallsSoFar) /\ toWorker'[t] # <<>> /\ Len(toWorker'[t]) = w + 1
      /\ DOMAIN toWorker'[t] = 1 .. w + 1 /\ \A i \in 1 .. w : toWorker'[t][i] = toWorker[t][i]
      /\ toWorker'[t][w + 1] = m
  <2>1. toWorker[t] \in Seq(CallsSoFar) /\ toWorker'[t] = Append(toWorker[t], m)
    BY DEF TabsIInv, Typed, Hearing
  <2> QED BY <2>1, AppendIs
<1>3. m.call = "settingsAdopt" /\ m.text = heard[t][1]
  OBVIOUS
<1>4. TabFine(t) /\ page[t] = "on" /\ heard[t] # <<>> /\ ~CaughtUp(t)
  BY DEF TabsIInv, Hearing, CaughtUp
<1>5. /\ page' = page /\ storage' = storage /\ open' = open /\ unkept' = unkept
      /\ values' = values /\ toPage' = toPage
  BY DEF Hearing
<1>6. heard' \in [Tabs -> Seq(SoFar)] /\ toWorker' \in [Tabs -> Seq(CallsSoFar)]
  BY <1>1, <1>2 DEF TabsIInv, Typed, Hearing
<1>7. Typed'
  BY <1>6, TypesStay DEF TabsIInv, Typed, Hearing
<1>8. \A u \in Tabs \ {t} : Resting(u)
  BY DEF TabsIInv, Typed, Hearing, Resting
<1>9. /\ Saved(t) /\ \A i \in 1 .. w : toWorker[t][i].call # "set"
  BY <1>2, <1>4, AdoptingTab
<1> HIDE DEF n, w
<1>10. \A i \in 1 .. w + 1 : toWorker'[t][i].call # "set" /\ toWorker'[t][i].call # "settingsOpen"
  <2>1. ASSUME NEW i \in 1 .. w + 1
        PROVE  toWorker'[t][i].call # "set" /\ toWorker'[t][i].call # "settingsOpen"
    <3>1. CASE i = w + 1
      BY <1>2, <1>3, <3>1
    <3>2. CASE i # w + 1
      BY <1>2, <1>4, <1>9, <3>2 DEF TabFine, On
    <3> QED BY <3>1, <3>2
  <2> QED BY <2>1
<1>11. Saved(t)'
  BY <1>2, <1>5, <1>9, <1>10 DEF Saved
<1>12. ~CaughtUp(t)'
  <2>1. w + 1 \in DOMAIN toWorker'[t]
    BY <1>2
  <2> QED BY <1>10, <1>2, <2>1 DEF CaughtUp
<1>13. HearsWhatIsStored(t)'
  <2>1. heard[t][n] = storage
    BY <1>4 DEF TabFine, HearsWhatIsStored, n
  <2>2. CASE n = 1
    BY <1>1, <1>2, <1>3, <1>5, <2>1, <2>2 DEF HearsWhatIsStored
  <2>3. CASE n # 1
    <3>1. n - 1 \in 1 .. n - 1 /\ (n - 1) + 1 = n
      BY <1>1, <2>3
    <3>2. heard'[t][n - 1] = storage
      BY <1>1, <2>1, <3>1
    <3> QED BY <1>1, <1>5, <2>3, <3>2 DEF HearsWhatIsStored
  <2> QED BY <2>2, <2>3
<1>14. TabFine(t)'
  <2>1. AnswerFirst(t)'
    BY <1>4, <1>5 DEF TabFine, AnswerFirst
  <2>2. Calm(t)' /\ Opening(t)' /\ On(t)' /\ ChangesLast(t)' /\ SavesForward(t)'
    BY <1>2, <1>4, <1>5, <1>10, <1>11, <1>12 DEF TabFine, Calm, Opening, On, ChangesLast, SavesForward
  <2> QED BY <1>13, <2>1, <2>2 DEF TabFine
<1>15. page'[t] # "opening"
  BY <1>4, <1>5
<1> QED BY <1>5, <1>7, <1>8, <1>11, <1>14, <1>15, OneTabSteps

\* In time, no storage event meets a page that does not listen.
LEMMA NothingUnheard == ASSUME TabsIInv, NEW t \in Tabs PROVE ~NotHearing(t)
BY DEF TabsIInv, TabFine, Opening, NotHearing

\* A tab that has something to save has the newest of all before it.
LEMMA StoringTab ==
  ASSUME TabsIInv, NEW t \in Tabs, Store(t)
  PROVE  /\ ~Saved(t) /\ CaughtUp(t) /\ open[t] /\ page[t] = "on"
         /\ \A u \in Tabs \ {t} : Saved(u) /\ page[u] # "opening"
         /\ toPage[t][1].text \in SoFar
         /\ AtMost(storage, toPage[t][1].text)
<1>1. toPage[t] # <<>> /\ 1 \in DOMAIN toPage[t] /\ toPage[t][1] \in PostsSoFar /\ toPage[t][1].settings
  <2>1. toPage[t] \in Seq(PostsSoFar) /\ toPage[t] # <<>>
    BY DEF TabsIInv, Typed, Store
  <2>2. Len(toPage[t]) \in Nat /\ Len(toPage[t]) >= 1 /\ DOMAIN toPage[t] = 1 .. Len(toPage[t])
        /\ toPage[t][1] \in PostsSoFar
    BY <2>1, TailIs
  <2> QED BY <2>1, <2>2 DEF Store
<1>2. ~Saved(t)
  BY <1>1 DEF Saved
<1>3. CaughtUp(t) /\ open[t] /\ TabFine(t) /\ page[t] \in {"closed", "opening", "on"}
  BY <1>2 DEF TabsIInv, Typed, TabFine, ChangesLast
<1>4. page[t] = "on"
  BY <1>1, <1>3 DEF TabFine, Calm, Opening, Asks, Answered
<1>5. \A u \in Tabs \ {t} : Saved(u) /\ page[u] # "opening"
  BY <1>2 DEF TabsIInv, ChangesAlone
<1>6. AtMost(storage, toPage[t][1].text)
  BY <1>1, <1>3 DEF TabFine, SavesForward
<1> QED BY <1>1, <1>2, <1>3, <1>4, <1>5, <1>6 DEF PostsSoFar

LEMMA StoreSteps == ASSUME TabsIInv, NEW t \in Tabs, Store(t) PROVE TabsIInv'
<1> DEFINE n == Len(toPage[t])
<1> PICK new \in SoFar : new = toPage[t][1].text
  BY StoringTab
<1>1. /\ ~Saved(t) /\ CaughtUp(t) /\ open[t] /\ page[t] = "on"
      /\ \A u \in Tabs \ {t} : Saved(u) /\ page[u] # "opening"
      /\ AtMost(storage, new) /\ TabFine(t) /\ toPage[t] # <<>> /\ toPage[t][1].settings
  BY StoringTab DEF TabsIInv, Store
<1>2. /\ n \in Nat /\ n >= 1 /\ DOMAIN toPage[t] = 1 .. n
      /\ toPage'[t] \in Seq(PostsSoFar) /\ Len(toPage'[t]) = n - 1 /\ DOMAIN toPage'[t] = 1 .. n - 1
      /\ \A i \in 1 .. n - 1 : toPage'[t][i] = toPage[t][i + 1]
      /\ toPage'[t] = <<>> <=> n = 1
  <2>1. toPage[t] \in Seq(PostsSoFar) /\ toPage[t] # <<>> /\ toPage'[t] = Tail(toPage[t])
    BY DEF TabsIInv, Typed, Store
  <2> QED BY <2>1, TailIs
<1> HIDE DEF n
<1>3. /\ page' = page /\ storage' = new /\ open' = open /\ unkept' = unkept
      /\ values' = values /\ toWorker' = toWorker
      /\ \A u \in Tabs \ {t} : toPage'[u] = toPage[u]
  BY DEF TabsIInv, Typed, Store
<1>4. /\ heard'[t] = heard[t]
      /\ \A u \in Tabs \ {t} :
           heard'[u] = IF page[u] # "closed" /\ new # storage THEN Append(heard[u], new) ELSE heard[u]
  BY DEF Store, Telling
<1>5. ASSUME NEW u \in Tabs
      PROVE  /\ Append(heard[u], new) \in Seq(SoFar) /\ Append(heard[u], new) # <<>>
             /\ Append(heard[u], new)[Len(Append(heard[u], new))] = new
  <2>1. heard[u] \in Seq(SoFar)
    BY DEF TabsIInv, Typed
  <2> QED BY <2>1, AppendIs
<1>6. heard' \in [Tabs -> Seq(SoFar)]
  <2>1. \A u \in Tabs : heard[u] \in Seq(SoFar) /\ Append(heard[u], new) \in Seq(SoFar)
    BY <1>5 DEF TabsIInv, Typed
  <2> QED BY <2>1 DEF Store, Telling
<1>7. Typed'
  <2>1. toPage' \in [Tabs -> Seq(PostsSoFar)]
    BY <1>2 DEF TabsIInv, Typed, Store
  <2> QED BY <1>3, <1>6, <2>1, TypesStay DEF TabsIInv, Typed, Store
<1>8. ASSUME NEW i \in 1 .. n - 1
      PROVE  i + 1 \in 1 .. n /\ toPage'[t][i] = toPage[t][i + 1] /\ toPage[t][i + 1].settings
  <2>1. i + 1 \in 1 .. n /\ i + 1 # 1
    BY <1>2
  <2> QED BY <1>1, <1>2, <2>1 DEF TabFine, AnswerFirst
<1>9. SavesForward(t)'
  <2>1. /\ AtMost(storage, values[t])
        /\ \A i \in 1 .. n : toPage[t][i].settings =>
             AtMost(storage, toPage[t][i].text) /\ AtMost(toPage[t][i].text, values[t])
        /\ \A i, j \in 1 .. n :
             i < j /\ toPage[t][i].settings /\ toPage[t][j].settings =>
               AtMost(toPage[t][i].text, toPage[t][j].text)
        /\ ~unkept[t] => values[t] = LastSaved(t)
    BY <1>1, <1>2 DEF TabFine, SavesForward
  <2>2. 1 \in 1 .. n
    BY <1>2
  <2>3. AtMost(new, values[t])
    BY <1>1, <2>1, <2>2
  <2>4. ASSUME NEW i \in 1 .. n - 1
        PROVE  AtMost(new, toPage'[t][i].text) /\ AtMost(toPage'[t][i].text, values[t])
    <3>1. 1 < i + 1
      BY <1>2
    <3> QED BY <1>1, <1>8, <2>1, <2>2, <3>1
  <2>5. ASSUME NEW i \in 1 .. n - 1, NEW j \in 1 .. n - 1, i < j
        PROVE  AtMost(toPage'[t][i].text, toPage'[t][j].text)
    <3>1. i + 1 < j + 1
      BY <1>2, <2>5
    <3> QED BY <1>8, <2>1, <3>1
  <2>6. LastSaved(t)' = LastSaved(t)
    <3>1. CASE n = 1
      BY <1>1, <1>2, <1>3, <3>1 DEF LastSaved, n
    <3>2. CASE n # 1
      <4>1. n - 1 \in 1 .. n - 1 /\ (n - 1) + 1 = n
        BY <1>2, <3>2
      <4>2. toPage'[t][n - 1] = toPage[t][n] /\ toPage[t][n].settings
        BY <1>8, <4>1
      <4>3. toPage'[t] # <<>>
        BY <1>2, <3>2
      <4> QED BY <1>1, <1>2, <4>2, <4>3 DEF LastSaved, n
    <3> QED BY <3>1, <3>2
  <2> QED BY <1>2, <1>3, <2>1, <2>3, <2>4, <2>5, <2>6 DEF SavesForward, AtMost
<1>10. TabFine(t)'
  <2>1. CaughtUp(t)'
    BY <1>1, <1>3, <1>4 DEF CaughtUp
  <2>2. AnswerFirst(t)'
    BY <1>2, <1>8 DEF AnswerFirst
  <2>3. On(t)'
    BY <1>1, <1>3 DEF TabFine, On
  <2> QED BY <1>1, <1>3, <1>9, <2>1, <2>2, <2>3 DEF TabFine, Calm, Opening, ChangesLast, HearsWhatIsStored
<1>11. ASSUME NEW u \in Tabs \ {t} PROVE Saved(u)' /\ page'[u] # "opening" /\ TabFine(u)'
  <2>1. TabFine(u) /\ Saved(u) /\ page[u] \in {"closed", "on"}
    BY <1>1 DEF TabsIInv, Typed
  <2>2. Saved(u)' /\ page'[u] = page[u]
    BY <1>3, <2>1 DEF Saved
  <2>3. CASE new = storage
    <3>1. Resting(u) /\ storage' = storage
      BY <1>3, <1>4, <2>3 DEF Resting
    <3> QED BY <2>1, <2>2, <3>1, RestingStays
  <2>4. CASE page[u] = "closed"
    <3>1. heard'[u] = heard[u]
      BY <1>4, <2>4
    <3>2. CaughtUp(u)' /\ ~open[u]
      BY <1>3, <2>1, <2>4, <3>1 DEF TabFine, Calm, CaughtUp
    <3>3. Calm(u)' /\ Opening(u)' /\ On(u)' /\ AnswerFirst(u)'
      BY <1>3, <2>1, <2>4, <3>1 DEF TabFine, Calm, Opening, On, AnswerFirst
    <3> QED BY <1>3, <2>2, <2>4, <3>2, <3>3 DEF TabFine, ChangesLast, SavesForward, HearsWhatIsStored
  <2>5. CASE new # storage /\ page[u] = "on"
    <3>1. heard'[u] # <<>> /\ heard'[u][Len(heard'[u])] = storage'
      BY <1>3, <1>4, <1>5, <2>5
    <3>2. ~CaughtUp(u)'
      BY <3>1 DEF CaughtUp
    <3>3. Calm(u)' /\ Opening(u)' /\ On(u)' /\ AnswerFirst(u)'
      BY <1>3, <2>1, <2>5 DEF TabFine, Calm, Opening, On, AnswerFirst
    <3>4. HearsWhatIsStored(u)'
      BY <3>1 DEF HearsWhatIsStored
    <3>5. ChangesLast(u)' /\ SavesForward(u)'
      BY <2>2, <3>2 DEF ChangesLast, SavesForward
    <3> QED BY <2>2, <2>5, <3>3, <3>4, <3>5 DEF TabFine
  <2> QED BY <2>1, <2>2, <2>3, <2>4, <2>5
<1>12. ChangesAlone'
  BY <1>1, <1>3, <1>11 DEF ChangesAlone
<1> QED BY <1>7, <1>10, <1>11, <1>12 DEF TabsIInv

-----------------------------------------------------------------------------
(* The theorem.                                                            *)

LEMMA TabsInit == Init => TabsIInv
<1> SUFFICES ASSUME Init PROVE TabsIInv
  OBVIOUS
<1>1. Default \in SoFar
  BY DEF Init, Default, SoFar
<1>2. <<>> \in Seq(CallsSoFar) /\ <<>> \in Seq(PostsSoFar) /\ <<>> \in Seq(SoFar)
  OBVIOUS
<1>3. Typed
  BY <1>1, <1>2 DEF Init, Typed
<1>4. ASSUME NEW t \in Tabs PROVE Saved(t) /\ TabFine(t)
  <2>1. /\ page[t] = "closed" /\ toWorker[t] = <<>> /\ ~open[t] /\ ~unkept[t]
        /\ toPage[t] = <<>> /\ heard[t] = <<>>
    BY DEF Init
  <2>2. Saved(t) /\ CaughtUp(t)
    BY <2>1 DEF Saved, CaughtUp
  <2> QED BY <2>1, <2>2 DEF TabFine, Calm, Opening, On, AnswerFirst, ChangesLast, SavesForward,
                            HearsWhatIsStored
<1> QED BY <1>3, <1>4 DEF TabsIInv, ChangesAlone

LEMMA TabsNext == LeavesTime /\ LoadsAlone /\ TabsIInv /\ [Next]_vars => TabsIInv'
<1> SUFFICES ASSUME LeavesTime, LoadsAlone, TabsIInv, [Next]_vars PROVE TabsIInv'
  OBVIOUS
<1>1. CASE UNCHANGED vars
  <2>1. storage' = storage /\ page' = page /\ \A t \in Tabs : Resting(t)
    BY <1>1 DEF vars, Resting
  <2>2. Typed'
    BY <1>1, TypesStay DEF vars, TabsIInv, Typed
  <2>3. \A t \in Tabs : TabFine(t)' /\ (Saved(t)' <=> Saved(t))
    BY <2>1, RestingStays DEF TabsIInv
  <2> QED BY <2>1, <2>2, <2>3 DEF TabsIInv, ChangesAlone
<1>2. ASSUME NEW t \in Tabs, Load(t) \/ Close(t) PROVE TabsIInv'
  BY <1>2, LoadSteps, CloseSteps
<1>3. ASSUME NEW t \in Tabs, WorkerStep(t) PROVE TabsIInv'
  BY <1>3, SettingsOpenSteps, SettingsAdoptSteps, SetSteps, PumpSteps DEF WorkerStep
<1>4. ASSUME NEW t \in Tabs, PageStep(t) PROVE TabsIInv'
  BY <1>4, OpenedSteps, StoreSteps, HearingSteps, NothingUnheard DEF PageStep
<1>5. ASSUME NEW t \in Tabs, NEW k \in Keys, Change(t, k) \/ CoreChanges(t, k) PROVE TabsIInv'
  BY <1>5, ChangeSteps, CoreChangesSteps
<1> QED BY <1>1, <1>2, <1>3, <1>4, <1>5 DEF Next

\* Only a tab that stores changes what is stored.
LEMMA StorageSteps ==
  TabsIInv /\ [Next]_vars => UNCHANGED storage \/ \E t \in Tabs : Store(t)
BY DEF Next, vars, Load, Close, Change, CoreChanges, WorkerStep, PageStep, SettingsOpen, SettingsAdopt,
       Adopting, Set, Pump, Opened, Hearing, NotHearing

\* As long as a setting is changed in a tab only once all that the other tabs saved has
\* arrived there, and none changes while a tab is loading, no tab writes an older value
\* of a setting over a newer one, though each writes the whole text (store,
\* adoptSettings, keepSettings): for any number of tabs, settings and changes.
THEOREM NothingIsWipedInTime == LeavesTime /\ LoadsAlone => (Spec => NothingIsWiped)
<1> SUFFICES ASSUME LeavesTime /\ LoadsAlone PROVE Spec => NothingIsWiped
  OBVIOUS
<1>1. TabsIInv /\ [Next]_vars => TabsIInv'
  BY TabsNext
<1>2. TabsIInv /\ [Next]_vars => [\A k \in Keys : storage'[k] >= storage[k]]_vars
  <2> SUFFICES ASSUME TabsIInv, [Next]_vars PROVE \A k \in Keys : storage'[k] >= storage[k]
    OBVIOUS
  <2>1. storage \in SoFar /\ \A k \in Keys : storage[k] \in Int
    BY DEF TabsIInv, Typed, SoFar
  <2>2. CASE UNCHANGED storage
    BY <2>1, <2>2
  <2>3. ASSUME NEW t \in Tabs, Store(t) PROVE \A k \in Keys : storage'[k] >= storage[k]
    <3>1. storage' = toPage[t][1].text /\ storage' \in SoFar /\ AtMost(storage, storage')
      BY <2>3, StoringTab DEF Store
    <3> QED BY <2>1, <3>1 DEF AtMost, SoFar
  <2> QED BY <2>2, <2>3, StorageSteps
<1> QED BY <1>1, <1>2, TabsInit, PTL DEF Spec, NothingIsWiped
-----------------------------------------------------------------------------
(* The types of the settings, in whatever order they change.  That no more *)
(* changes are made than the bound allows is the work of a count: of the   *)
(* changes made and the calls under way that will make one.                *)

Room ==
  /\ IsFiniteSet(SetsAsked) /\ changes + Cardinality(SetsAsked) <= MaxChanges
  /\ \A t \in Tabs : \A i \in DOMAIN toWorker[t] : toWorker[t][i].call = "set" => i <= Capacity

TabsTyped == TypeOK /\ Room

LEMMA CallIs ==
  ASSUME NEW c \in Calls
  PROVE  /\ c.call \in {"settingsOpen", "settingsAdopt", "set"}
         /\ c.call # "set" => c.text \in Text
         /\ c.call = "set" => c.key \in Keys
BY DEF Calls

LEMMA TypedChanges ==
  ASSUME TabsTyped
  PROVE  /\ changes \in Nat /\ MaxChanges \in Nat /\ Cardinality(SetsAsked) \in Nat
         /\ Capacity \in Nat /\ MaxLoads \in Nat
BY TabsAssumption, FS_CardinalityType DEF TabsTyped, TypeOK, Room

\* Fewer calls are under way, and no change is made.
LEMMA FewerAsked ==
  ASSUME TabsTyped, SetsAsked' \subseteq SetsAsked, changes' = changes
  PROVE  IsFiniteSet(SetsAsked)' /\ changes' + Cardinality(SetsAsked') <= MaxChanges
<1>1. /\ IsFiniteSet(SetsAsked') /\ Cardinality(SetsAsked') <= Cardinality(SetsAsked)
      /\ Cardinality(SetsAsked') \in Nat
  BY FS_Subset, FS_CardinalityType DEF TabsTyped, Room
<1> QED BY <1>1, TypedChanges DEF TabsTyped, Room

\* The worker takes a call from its channel: of those that make a change there is one less
\* if it was one.
LEMMA OneLessAsked ==
  ASSUME TabsTyped, NEW t \in Tabs, NEW call, Handling(t, call)
  PROVE  /\ IsFiniteSet(SetsAsked)' /\ Cardinality(SetsAsked') \in Nat
         /\ Cardinality(SetsAsked') + (IF call = "set" THEN 1 ELSE 0) <= Cardinality(SetsAsked)
         /\ toWorker' \in [Tabs -> Seq(Calls)]
         /\ \A u \in Tabs : \A i \in DOMAIN toWorker'[u] : toWorker'[u][i].call = "set" => i <= Capacity
<1> DEFINE first == <<t, 1>>
           rest == SetsAsked \ {first}
           f == [e \in SetsAsked' |-> IF e[1] = t THEN <<t, e[2] + 1>> ELSE e]
<1>1. /\ toWorker \in [Tabs -> Seq(Calls)] /\ toWorker[t] # <<>> /\ toWorker[t][1].call = call
      /\ toWorker' = [toWorker EXCEPT ![t] = Tail(toWorker[t])]
      /\ Capacity \in Nat
  BY TypedChanges DEF TabsTyped, TypeOK, Handling, Handled
<1>2. /\ Tail(toWorker[t]) \in Seq(Calls) /\ Len(toWorker[t]) \in Nat /\ Len(toWorker[t]) >= 1
      /\ DOMAIN toWorker[t] = 1 .. Len(toWorker[t]) /\ DOMAIN Tail(toWorker[t]) = 1 .. Len(toWorker[t]) - 1
      /\ \A i \in 1 .. Len(toWorker[t]) - 1 : Tail(toWorker[t])[i] = toWorker[t][i + 1]
  BY <1>1, TailIs
<1>3. /\ toWorker' \in [Tabs -> Seq(Calls)] /\ toWorker'[t] = Tail(toWorker[t])
      /\ \A u \in Tabs \ {t} : toWorker'[u] = toWorker[u]
  BY <1>1, <1>2
<1>4. \A u \in Tabs : \A i \in DOMAIN toWorker[u] : toWorker[u][i].call = "set" => i <= Capacity
  BY DEF TabsTyped, Room
<1>5. ASSUME NEW i \in DOMAIN toWorker'[t]
      PROVE  /\ i \in Nat /\ i + 1 \in DOMAIN toWorker[t] /\ toWorker'[t][i] = toWorker[t][i + 1]
             /\ toWorker'[t][i].call = "set" => i + 1 <= Capacity
  <2>1. i \in 1 .. Len(toWorker[t]) - 1
    BY <1>2, <1>3
  <2>2. i + 1 \in 1 .. Len(toWorker[t])
    BY <1>2, <2>1
  <2> QED BY <1>2, <1>3, <1>4, <2>1, <2>2
<1>6. \A u \in Tabs : \A i \in DOMAIN toWorker'[u] : toWorker'[u][i].call = "set" => i <= Capacity
  <2> SUFFICES ASSUME NEW u \in Tabs, NEW i \in DOMAIN toWorker'[u], toWorker'[u][i].call = "set"
               PROVE  i <= Capacity
    OBVIOUS
  <2>1. CASE u = t
    BY <1>1, <1>5, <2>1
  <2>2. CASE u # t
    BY <1>3, <1>4, <2>2
  <2> QED BY <2>1, <2>2
<1>7. ASSUME NEW e \in SetsAsked'
      PROVE  f[e] \in rest
  <2>1. PICK u \in Tabs, i \in 1 .. Capacity :
          e = <<u, i>> /\ i \in DOMAIN toWorker'[u] /\ toWorker'[u][i].call = "set"
    BY DEF SetsAsked
  <2>2. CASE u = t
    <3>1. f[e] = <<t, i + 1>>
      BY <2>1, <2>2
    <3>2. i + 1 \in 1 .. Capacity /\ i + 1 \in DOMAIN toWorker[t] /\ toWorker[t][i + 1].call = "set"
      <4>1. i \in DOMAIN toWorker'[t] /\ toWorker'[t][i].call = "set"
        BY <2>1, <2>2
      <4>2. /\ i \in Nat /\ i + 1 \in DOMAIN toWorker[t] /\ toWorker'[t][i] = toWorker[t][i + 1]
            /\ i + 1 <= Capacity
        BY <1>5, <4>1
      <4> QED BY <1>1, <4>1, <4>2
    <3>3. <<t, i + 1>> \in SetsAsked
      BY <3>2 DEF SetsAsked
    <3>4. <<t, i + 1>> # first
      BY <2>1
    <3> QED BY <3>1, <3>3, <3>4
  <2>3. CASE u # t
    <3>1. f[e] = <<u, i>>
      BY <2>1, <2>3
    <3>2. <<u, i>> \in SetsAsked
      BY <1>3, <2>1, <2>3 DEF SetsAsked
    <3> QED BY <2>3, <3>1, <3>2
  <2> QED BY <2>2, <2>3
<1>8. ASSUME NEW a \in SetsAsked', NEW b \in SetsAsked', f[a] = f[b]
      PROVE  a = b
  <2>1. PICK u \in Tabs, i \in 1 .. Capacity : a = <<u, i>>
    BY DEF SetsAsked
  <2>2. PICK w \in Tabs, j \in 1 .. Capacity : b = <<w, j>>
    BY DEF SetsAsked
  <2>3. f[a] = IF u = t THEN <<t, i + 1>> ELSE <<u, i>>
    BY <2>1
  <2>4. f[b] = IF w = t THEN <<t, j + 1>> ELSE <<w, j>>
    BY <2>2
  <2> HIDE DEF f
  <2>5. (IF u = t THEN <<t, i + 1>> ELSE <<u, i>>) = (IF w = t THEN <<t, j + 1>> ELSE <<w, j>>)
    BY <1>8, <2>3, <2>4
  <2>6. CASE u = t /\ w = t
    BY <1>1, <2>1, <2>2, <2>5, <2>6
  <2>7. CASE u # t \/ w # t
    BY <2>1, <2>2, <2>5, <2>7
  <2> QED BY <2>6, <2>7
<1>9. f \in Injection(SetsAsked', rest)
  BY <1>7, <1>8 DEF Injection, IsInjective
<1>10. /\ IsFiniteSet(SetsAsked) /\ IsFiniteSet(rest)
       /\ Cardinality(rest) = IF first \in SetsAsked THEN Cardinality(SetsAsked) - 1 ELSE Cardinality(SetsAsked)
  BY FS_RemoveElement DEF TabsTyped, Room
<1>11. call = "set" => first \in SetsAsked
  <2>1. HAVE call = "set"
  <2>2. 1 \in DOMAIN toWorker[t] /\ toWorker[t][1].call = "set"
    BY <1>1, <1>2, <2>1
  <2>3. 1 \in 1 .. Capacity
    BY <1>1, <1>4, <2>2
  <2> QED BY <2>2, <2>3 DEF SetsAsked
<1> HIDE DEF f, rest, first
<1>12. IsFiniteSet(SetsAsked') /\ Cardinality(SetsAsked') <= Cardinality(rest)
  BY <1>9, <1>10, FS_Injection
<1>13. Cardinality(SetsAsked') \in Nat /\ Cardinality(SetsAsked) \in Nat /\ Cardinality(rest) \in Nat
  BY <1>10, <1>12, FS_CardinalityType
<1>14. Cardinality(SetsAsked') + (IF call = "set" THEN 1 ELSE 0) <= Cardinality(SetsAsked)
  BY <1>10, <1>11, <1>12, <1>13
<1> QED BY <1>3, <1>6, <1>12, <1>13, <1>14

\* A step that sends the worker nothing that makes a change.
LEMMA AskedStay ==
  ASSUME TabsTyped, toWorker' = toWorker, TypeOK', changes' = changes
  PROVE  TabsTyped'
<1>1. SetsAsked' = SetsAsked
  BY DEF SetsAsked
<1>2. \A t \in Tabs : \A i \in DOMAIN toWorker'[t] : toWorker'[t][i].call = "set" => i <= Capacity
  BY DEF TabsTyped, Room
<1> QED BY <1>1, <1>2, FewerAsked DEF TabsTyped, Room

LEMMA TabsInitTyped == Init => TabsTyped
<1> SUFFICES ASSUME Init PROVE TabsTyped
  OBVIOUS
<1>1. MaxChanges \in Nat /\ MaxLoads \in Nat
  BY TabsAssumption
<1>2. Default \in Text
  BY <1>1 DEF Default, Text
<1>3. <<>> \in Seq(Calls) /\ <<>> \in Seq(Posts) /\ <<>> \in Seq(Text)
  OBVIOUS
<1>4. TypeOK
  BY <1>1, <1>2, <1>3 DEF Init, TypeOK
<1>5. SetsAsked = {} /\ \A t \in Tabs : DOMAIN toWorker[t] = {}
  BY DEF Init, SetsAsked
<1>6. IsFiniteSet(SetsAsked) /\ Cardinality(SetsAsked) = 0 /\ changes = 0
  BY <1>5, FS_EmptySet DEF Init
<1> QED BY <1>1, <1>4, <1>5, <1>6 DEF TabsTyped, Room

LEMMA LoadTyped == ASSUME TabsTyped, NEW t \in Tabs, Load(t) PROVE TabsTyped'
<1> DEFINE c == [call |-> "settingsOpen", text |-> storage]
<1>1. /\ toWorker' = [toWorker EXCEPT ![t] = <<c>>] /\ page' = [page EXCEPT ![t] = "opening"]
      /\ loads' = loads + 1 /\ loads < MaxLoads
      /\ UNCHANGED <<storage, open, values, unkept, toPage, heard, changes>>
  BY DEF Load
<1>2. c \in Calls /\ <<c>> \in Seq(Calls)
  <2>1. c \in Calls
    BY DEF Calls, TabsTyped, TypeOK
  <2> QED BY <2>1
<1>3. TypeOK'
  <2>1. loads' \in 0 .. MaxLoads
    BY <1>1, TypedChanges DEF TabsTyped, TypeOK
  <2>2. toWorker' \in [Tabs -> Seq(Calls)]
    BY <1>1, <1>2 DEF TabsTyped, TypeOK
  <2> QED BY <1>1, <2>1, <2>2 DEF TabsTyped, TypeOK
<1>4. \A u \in Tabs : \A i \in DOMAIN toWorker'[u] :
        toWorker'[u][i].call = "set" => u # t /\ toWorker'[u] = toWorker[u]
  <2>1. toWorker'[t] = <<c>> /\ \A u \in Tabs \ {t} : toWorker'[u] = toWorker[u]
    BY <1>1 DEF TabsTyped, TypeOK
  <2>2. \A i \in DOMAIN <<c>> : <<c>>[i].call # "set"
    OBVIOUS
  <2> QED BY <2>1, <2>2
<1>5. SetsAsked' \subseteq SetsAsked
  BY <1>4 DEF SetsAsked
<1>6. \A u \in Tabs : \A i \in DOMAIN toWorker'[u] : toWorker'[u][i].call = "set" => i <= Capacity
  BY <1>4 DEF TabsTyped, Room
<1> QED BY <1>1, <1>3, <1>5, <1>6, FewerAsked DEF TabsTyped, Room

LEMMA CloseTyped == ASSUME TabsTyped, NEW t \in Tabs, Close(t) PROVE TabsTyped'
<1>1. /\ page' = [page EXCEPT ![t] = "closed"] /\ open' = [open EXCEPT ![t] = FALSE]
      /\ values' = [values EXCEPT ![t] = Default] /\ unkept' = [unkept EXCEPT ![t] = FALSE]
      /\ toWorker' = [toWorker EXCEPT ![t] = <<>>] /\ toPage' = [toPage EXCEPT ![t] = <<>>]
      /\ heard' = [heard EXCEPT ![t] = <<>>] /\ UNCHANGED <<storage, changes, loads>>
  BY DEF Close
<1>2. Default \in Text
  BY TypedChanges DEF Default, Text
<1>3. <<>> \in Seq(Calls) /\ <<>> \in Seq(Posts) /\ <<>> \in Seq(Text)
  OBVIOUS
<1>4. TypeOK'
  BY <1>1, <1>2, <1>3 DEF TabsTyped, TypeOK
<1>5. \A u \in Tabs : \A i \in DOMAIN toWorker'[u] : u # t /\ toWorker'[u] = toWorker[u]
  <2>1. toWorker'[t] = <<>> /\ \A u \in Tabs \ {t} : toWorker'[u] = toWorker[u]
    BY <1>1 DEF TabsTyped, TypeOK
  <2> QED BY <2>1
<1>6. SetsAsked' \subseteq SetsAsked
  BY <1>5 DEF SetsAsked
<1>7. \A u \in Tabs : \A i \in DOMAIN toWorker'[u] : toWorker'[u][i].call = "set" => i <= Capacity
  BY <1>5 DEF TabsTyped, Room
<1> QED BY <1>1, <1>4, <1>6, <1>7, FewerAsked DEF TabsTyped, Room

\* A call is sent to the worker behind the others.
LEMMA OneMoreCall ==
  ASSUME TabsTyped, NEW t \in Tabs, NEW c \in Calls,
         toWorker' = [toWorker EXCEPT ![t] = Append(@, c)], Len(toWorker[t]) < Capacity
  PROVE  /\ toWorker' \in [Tabs -> Seq(Calls)]
         /\ SetsAsked' \subseteq SetsAsked
              \cup (IF c.call = "set" THEN {<<t, Len(toWorker[t]) + 1>>} ELSE {})
         /\ \A u \in Tabs : \A i \in DOMAIN toWorker'[u] : toWorker'[u][i].call = "set" => i <= Capacity
<1> DEFINE s == toWorker[t]
<1>1. toWorker \in [Tabs -> Seq(Calls)] /\ s \in Seq(Calls) /\ Capacity \in Nat
  BY TypedChanges DEF TabsTyped, TypeOK
<1>2. /\ Len(s) \in Nat /\ DOMAIN s = 1 .. Len(s) /\ Append(s, c) \in Seq(Calls)
      /\ DOMAIN Append(s, c) = 1 .. Len(s) + 1
      /\ \A i \in 1 .. Len(s) : Append(s, c)[i] = s[i]
      /\ Append(s, c)[Len(s) + 1] = c
  BY <1>1, AppendIs
<1>3. /\ toWorker' \in [Tabs -> Seq(Calls)] /\ toWorker'[t] = Append(s, c)
      /\ \A u \in Tabs \ {t} : toWorker'[u] = toWorker[u]
  BY <1>1, <1>2
<1>4. ASSUME NEW u \in Tabs, NEW i \in DOMAIN toWorker'[u]
      PROVE  \/ i \in DOMAIN toWorker[u] /\ toWorker'[u][i] = toWorker[u][i]
             \/ u = t /\ i = Len(s) + 1 /\ toWorker'[u][i] = c
  <2> HIDE DEF s
  <2>1. CASE u = t
    <3>1. i \in 1 .. Len(s) \/ i = Len(s) + 1
      BY <1>2, <1>3, <2>1
    <3> QED BY <1>2, <1>3, <2>1, <3>1 DEF s
  <2>2. CASE u # t
    BY <1>3, <2>2
  <2> QED BY <2>1, <2>2
<1>5. SetsAsked' \subseteq SetsAsked \cup (IF c.call = "set" THEN {<<t, Len(s) + 1>>} ELSE {})
  <2> SUFFICES ASSUME NEW e \in SetsAsked'
               PROVE  e \in SetsAsked \/ (c.call = "set" /\ e = <<t, Len(s) + 1>>)
    OBVIOUS
  <2>1. PICK u \in Tabs, i \in 1 .. Capacity :
          e = <<u, i>> /\ i \in DOMAIN toWorker'[u] /\ toWorker'[u][i].call = "set"
    BY DEF SetsAsked
  <2> HIDE DEF s
  <2>2. CASE i \in DOMAIN toWorker[u] /\ toWorker'[u][i] = toWorker[u][i]
    BY <2>1, <2>2 DEF SetsAsked
  <2>3. CASE u = t /\ i = Len(s) + 1 /\ toWorker'[u][i] = c
    BY <2>1, <2>3
  <2> QED BY <1>4, <2>1, <2>2, <2>3
<1>6. \A u \in Tabs : \A i \in DOMAIN toWorker'[u] : toWorker'[u][i].call = "set" => i <= Capacity
  <2> SUFFICES ASSUME NEW u \in Tabs, NEW i \in DOMAIN toWorker'[u], toWorker'[u][i].call = "set"
               PROVE  i <= Capacity
    OBVIOUS
  <2>1. CASE i \in DOMAIN toWorker[u] /\ toWorker'[u][i] = toWorker[u][i]
    BY <2>1 DEF TabsTyped, Room
  <2>2. CASE i = Len(s) + 1
    BY <1>1, <1>2, <2>2
  <2> QED BY <1>4, <2>1, <2>2
<1> QED BY <1>3, <1>5, <1>6

LEMMA ChangeTyped == ASSUME TabsTyped, NEW t \in Tabs, NEW k \in Keys, Change(t, k) PROVE TabsTyped'
<1> DEFINE c == [call |-> "set", key |-> k]
           one == <<t, Len(toWorker[t]) + 1>>
<1>1. /\ Bounded /\ Len(toWorker[t]) < Capacity
      /\ toWorker' = [toWorker EXCEPT ![t] = Append(@, c)]
      /\ UNCHANGED <<storage, page, open, values, unkept, toPage, heard, changes, loads>>
  BY DEF Change
<1>2. c \in Calls /\ c.call = "set"
  BY DEF Calls
<1> HIDE DEF c
<1>3. /\ toWorker' \in [Tabs -> Seq(Calls)] /\ SetsAsked' \subseteq SetsAsked \cup {one}
      /\ \A u \in Tabs : \A i \in DOMAIN toWorker'[u] : toWorker'[u][i].call = "set" => i <= Capacity
  BY <1>1, <1>2, OneMoreCall
<1> HIDE DEF one
<1>4. /\ IsFiniteSet(SetsAsked \cup {one})
      /\ Cardinality(SetsAsked \cup {one}) \in {Cardinality(SetsAsked), Cardinality(SetsAsked) + 1}
  BY FS_AddElement DEF TabsTyped, Room
<1>5. /\ IsFiniteSet(SetsAsked') /\ Cardinality(SetsAsked') <= Cardinality(SetsAsked \cup {one})
      /\ Cardinality(SetsAsked') \in Nat
  BY <1>3, <1>4, FS_Subset, FS_CardinalityType
<1>6. changes + Cardinality(SetsAsked') <= MaxChanges
  BY <1>1, <1>4, <1>5, TypedChanges DEF Bounded
<1>7. TypeOK'
  BY <1>1, <1>3 DEF TabsTyped, TypeOK
<1> QED BY <1>1, <1>3, <1>5, <1>6, <1>7 DEF TabsTyped, Room

LEMMA CoreChangesTyped ==
  ASSUME TabsTyped, NEW t \in Tabs, NEW k \in Keys, CoreChanges(t, k) PROVE TabsTyped'
<1>1. /\ Bounded /\ changes' = changes + 1
      /\ values' = [values EXCEPT ![t] = [values[t] EXCEPT ![k] = changes + 1]]
      /\ unkept' = [unkept EXCEPT ![t] = TRUE]
      /\ UNCHANGED <<storage, page, open, toWorker, toPage, heard, loads>>
  BY DEF CoreChanges
<1>2. SetsAsked' = SetsAsked
  BY <1>1 DEF SetsAsked
<1>3. changes' + Cardinality(SetsAsked') <= MaxChanges /\ changes' \in 0 .. MaxChanges
  BY <1>1, <1>2, TypedChanges DEF Bounded
<1>4. [values[t] EXCEPT ![k] = changes + 1] \in Text
  BY <1>1, <1>3 DEF TabsTyped, TypeOK, Text
<1>5. TypeOK'
  BY <1>1, <1>3, <1>4 DEF TabsTyped, TypeOK
<1> QED BY <1>1, <1>2, <1>3, <1>5 DEF TabsTyped, Room

\* What is posted to the page.
LEMMA PostTyped ==
  ASSUME TabsTyped, NEW t \in Tabs, NEW settings \in BOOLEAN, NEW text \in Text,
         toPage' = [toPage EXCEPT ![t] = Append(@, [settings |-> settings, text |-> text])]
  PROVE  toPage' \in [Tabs -> Seq(Posts)]
<1>1. [settings |-> settings, text |-> text] \in Posts
  BY Zenon DEF Posts
<1>2. toPage \in [Tabs -> Seq(Posts)] /\ toPage[t] \in Seq(Posts)
  BY DEF TabsTyped, TypeOK
<1> HIDE DEF Posts
<1>3. Append(toPage[t], [settings |-> settings, text |-> text]) \in Seq(Posts)
  BY <1>1, <1>2, AppendIs
<1> QED BY <1>2, <1>3

\* A step of the worker that takes a call: what it makes of the settings.
LEMMA TakingTyped ==
  ASSUME TabsTyped, NEW t \in Tabs, NEW call, Handling(t, call),
         IF call = "set" THEN changes' = changes + 1 ELSE changes' = changes,
         NEW text, values' = [values EXCEPT ![t] = text],
         changes' \in 0 .. MaxChanges => text \in Text /\ toPage' \in [Tabs -> Seq(Posts)],
         open' \in [Tabs -> BOOLEAN], unkept' \in [Tabs -> BOOLEAN],
         UNCHANGED <<storage, page, heard, loads>>
  PROVE  TabsTyped'
<1>1. /\ IsFiniteSet(SetsAsked)' /\ Cardinality(SetsAsked') \in Nat
      /\ Cardinality(SetsAsked') + (IF call = "set" THEN 1 ELSE 0) <= Cardinality(SetsAsked)
      /\ toWorker' \in [Tabs -> Seq(Calls)]
      /\ \A u \in Tabs : \A i \in DOMAIN toWorker'[u] : toWorker'[u][i].call = "set" => i <= Capacity
  BY OneLessAsked
<1>2. changes' + Cardinality(SetsAsked') <= MaxChanges /\ changes' \in 0 .. MaxChanges
  BY <1>1, TypedChanges DEF TabsTyped, Room
<1>3. text \in Text /\ toPage' \in [Tabs -> Seq(Posts)]
  BY <1>2
<1>4. TypeOK'
  <2>1. values' \in [Tabs -> Text]
    BY <1>3 DEF TabsTyped, TypeOK
  <2> QED BY <1>1, <1>2, <1>3, <2>1 DEF TabsTyped, TypeOK
<1> QED BY <1>1, <1>2, <1>4 DEF TabsTyped, Room

LEMMA WorkerTyped == ASSUME TabsTyped, NEW t \in Tabs, WorkerStep(t) PROVE TabsTyped'
<1>1. /\ values[t] \in Text /\ open \in [Tabs -> BOOLEAN] /\ unkept \in [Tabs -> BOOLEAN]
      /\ toPage \in [Tabs -> Seq(Posts)] /\ toWorker \in [Tabs -> Seq(Calls)]
  BY DEF TabsTyped, TypeOK
<1>2. ASSUME toWorker[t] # <<>>
      PROVE  Handled(t) \in Calls
  BY <1>1, <1>2, TailIs DEF Handled
<1>3. CASE SettingsOpen(t)
  <2>1. /\ Handling(t, "settingsOpen") /\ toWorker[t] # <<>> /\ Handled(t).call = "settingsOpen"
        /\ values' = [values EXCEPT ![t] = Handled(t).text]
        /\ open' = [open EXCEPT ![t] = TRUE] /\ unkept' = [unkept EXCEPT ![t] = FALSE]
        /\ toPage' = [toPage EXCEPT ![t] = Append(@, [settings |-> FALSE, text |-> Default])]
        /\ UNCHANGED <<storage, page, heard, changes, loads>>
    BY <1>3 DEF SettingsOpen, Handling
  <2>2. Handled(t).text \in Text
    BY <1>2, <2>1, CallIs
  <2>3. Default \in Text
    BY TypedChanges DEF Default, Text
  <2>4. toPage' \in [Tabs -> Seq(Posts)]
    BY <2>1, <2>3, PostTyped
  <2>5. open' \in [Tabs -> BOOLEAN] /\ unkept' \in [Tabs -> BOOLEAN]
    BY <1>1, <2>1
  <2> QED BY <2>1, <2>2, <2>4, <2>5, TakingTyped
<1>4. CASE SettingsAdopt(t)
  <2>1. /\ Handling(t, "settingsAdopt") /\ toWorker[t] # <<>> /\ Handled(t).call = "settingsAdopt"
        /\ values' = [values EXCEPT ![t] = Handled(t).text]
        /\ unkept' = [unkept EXCEPT ![t] = FALSE]
        /\ UNCHANGED <<storage, page, open, toPage, heard, changes, loads>>
    BY <1>4 DEF SettingsAdopt, Adopting, Handling
  <2>2. Handled(t).text \in Text
    BY <1>2, <2>1, CallIs
  <2>3. unkept' \in [Tabs -> BOOLEAN]
    BY <1>1, <2>1
  <2> QED BY <1>1, <2>1, <2>2, <2>3, TakingTyped
<1>5. CASE Set(t)
  <2> DEFINE text == [values[t] EXCEPT ![Handled(t).key] = changes']
  <2>1. /\ Handling(t, "set") /\ toWorker[t] # <<>> /\ Handled(t).call = "set"
        /\ changes' = changes + 1 /\ values' = [values EXCEPT ![t] = text]
        /\ toPage' = [toPage EXCEPT ![t] = Append(@, [settings |-> TRUE, text |-> values'[t]])]
        /\ unkept' = [unkept EXCEPT ![t] = FALSE]
        /\ UNCHANGED <<storage, page, open, heard, loads>>
    BY <1>5 DEF Set, Keeping, Handling
  <2>2. ASSUME changes' \in 0 .. MaxChanges
        PROVE  text \in Text /\ toPage' \in [Tabs -> Seq(Posts)]
    <3>1. text \in Text
      BY <1>1, <2>2 DEF Text
    <3>2. values'[t] = text
      BY <2>1 DEF TabsTyped, TypeOK
    <3> HIDE DEF text
    <3> QED BY <2>1, <3>1, <3>2, PostTyped
  <2>3. unkept' \in [Tabs -> BOOLEAN]
    BY <1>1, <2>1
  <2> HIDE DEF text
  <2> QED BY <1>1, <2>1, <2>2, <2>3, TakingTyped
<1>6. CASE Pump(t)
  <2>1. /\ toPage' = [toPage EXCEPT ![t] = Append(@, [settings |-> TRUE, text |-> values[t]])]
        /\ unkept' = [unkept EXCEPT ![t] = FALSE]
        /\ UNCHANGED <<storage, page, open, values, toWorker, heard, changes, loads>>
    BY <1>6 DEF Pump, Keeping
  <2>2. toPage' \in [Tabs -> Seq(Posts)]
    BY <1>1, <2>1, PostTyped
  <2>3. TypeOK'
    BY <1>1, <2>1, <2>2 DEF TabsTyped, TypeOK
  <2> QED BY <2>1, <2>3, AskedStay
<1> QED BY <1>3, <1>4, <1>5, <1>6 DEF WorkerStep

LEMMA PageTyped == ASSUME TabsTyped, NEW t \in Tabs, PageStep(t) PROVE TabsTyped'
<1>1. /\ toPage \in [Tabs -> Seq(Posts)] /\ heard \in [Tabs -> Seq(Text)]
      /\ page \in [Tabs -> {"closed", "opening", "on"}]
  BY DEF TabsTyped, TypeOK
<1>2. ASSUME toPage[t] # <<>>
      PROVE  Tail(toPage[t]) \in Seq(Posts) /\ toPage[t][1] \in Posts
  BY <1>1, <1>2, TailIs
<1>3. ASSUME heard[t] # <<>>
      PROVE  Tail(heard[t]) \in Seq(Text) /\ heard[t][1] \in Text
  BY <1>1, <1>3, TailIs
<1>4. CASE Opened(t)
  <2>1. /\ toPage[t] # <<>> /\ toPage' = [toPage EXCEPT ![t] = Tail(@)]
        /\ page' = [page EXCEPT ![t] = "on"]
        /\ UNCHANGED <<storage, open, values, unkept, toWorker, heard, changes, loads>>
    BY <1>4 DEF Opened
  <2>2. TypeOK'
    BY <1>1, <1>2, <2>1 DEF TabsTyped, TypeOK
  <2> QED BY <2>1, <2>2, AskedStay
<1>5. CASE Store(t)
  <2> DEFINE text == toPage[t][1].text
  <2>1. /\ toPage[t] # <<>> /\ toPage' = [toPage EXCEPT ![t] = Tail(@)]
        /\ storage' = text /\ Telling(t, text)
        /\ UNCHANGED <<page, open, values, unkept, toWorker, changes, loads>>
    BY <1>5 DEF Store
  <2>2. text \in Text
    BY <1>2, <2>1 DEF Posts
  <2> HIDE DEF text
  <2>3. heard' \in [Tabs -> Seq(Text)]
    <3>1. \A u \in Tabs : Append(heard[u], text) \in Seq(Text)
      BY <1>1, <2>2, AppendIs
    <3> QED BY <1>1, <2>1, <3>1 DEF Telling
  <2>4. TypeOK'
    BY <1>1, <1>2, <2>1, <2>2, <2>3 DEF TabsTyped, TypeOK
  <2> QED BY <2>1, <2>4, AskedStay
<1>6. CASE Hearing(t)
  <2> DEFINE c == [call |-> "settingsAdopt", text |-> heard[t][1]]
  <2>1. /\ heard[t] # <<>> /\ Len(toWorker[t]) < Capacity
        /\ heard' = [heard EXCEPT ![t] = Tail(@)] /\ toWorker' = [toWorker EXCEPT ![t] = Append(@, c)]
        /\ UNCHANGED <<storage, page, open, values, unkept, toPage, changes, loads>>
    BY <1>6 DEF Hearing
  <2>2. c \in Calls /\ c.call # "set"
    BY <1>3, <2>1 DEF Calls
  <2> HIDE DEF c
  <2>3. /\ toWorker' \in [Tabs -> Seq(Calls)] /\ SetsAsked' \subseteq SetsAsked
        /\ \A u \in Tabs : \A i \in DOMAIN toWorker'[u] : toWorker'[u][i].call = "set" => i <= Capacity
    BY <2>1, <2>2, OneMoreCall
  <2>4. TypeOK'
    BY <1>1, <1>3, <2>1, <2>3 DEF TabsTyped, TypeOK
  <2> QED BY <2>1, <2>3, <2>4, FewerAsked DEF TabsTyped, Room
<1>7. CASE NotHearing(t)
  <2>1. /\ heard[t] # <<>> /\ heard' = [heard EXCEPT ![t] = Tail(@)]
        /\ UNCHANGED <<storage, page, open, values, unkept, toWorker, toPage, changes, loads>>
    BY <1>7 DEF NotHearing
  <2>2. TypeOK'
    BY <1>1, <1>3, <2>1 DEF TabsTyped, TypeOK
  <2> QED BY <2>1, <2>2, AskedStay
<1> QED BY <1>4, <1>5, <1>6, <1>7 DEF PageStep

LEMMA TabsStepTyped == ASSUME TabsTyped, [Next]_vars PROVE TabsTyped'
<1>1. CASE UNCHANGED vars
  <2>1. TypeOK'
    BY <1>1 DEF vars, TabsTyped, TypeOK
  <2> QED BY <1>1, <2>1, AskedStay DEF vars
<1>2. CASE Next
  BY <1>2, LoadTyped, CloseTyped, WorkerTyped, PageTyped, ChangeTyped, CoreChangesTyped DEF Next
<1> QED BY <1>1, <1>2

-----------------------------------------------------------------------------
(* The four parts side by side.  A part that rests keeps its types, since  *)
(* its invariant allows steps that change nothing.                         *)

WebTyped == TabsTyped /\ WatchIInv /\ SerialIInv /\ RelayIInv

LEMMA WebStepTyped == ASSUME WebTyped, [MCNext]_MCVars PROVE WebTyped'
<1>1. [Next]_vars /\ [WatchNext]_watchVars /\ [SerialNext]_serialVars /\ [RelayNext]_relayVars
  BY DEF MCNext, MCVars
<1>2. TabsTyped'
  BY <1>1, TabsStepTyped DEF WebTyped
<1>3. WatchIInv' /\ SerialIInv'
  BY <1>1, WatchNextIInv, SerialNextIInv DEF WebTyped
<1>4. RelayIInv'
  BY <1>1, RelayNextIInv DEF WebTyped
<1> QED BY <1>2, <1>3, <1>4 DEF WebTyped

\* The settings of the tabs, the watched paths, the serial ports and the cloud links keep
\* their types in every behaviour, with any tabs, paths, ports and links: each channel
\* carries what its reader expects, no more changes are made than were asked for, what
\* waits for a port's turn is a link's opening or closing, and what is counted as watched
\* is a number (client.ts, worker.ts, Qgc.ts, cloud.ts).
THEOREM WebTypesCorrect == MCSpec => []MCTypeOK
<1>1. MCInit => WebTyped
  BY TabsInitTyped, WatchInitIInv, SerialInitIInv, RelayInitIInv DEF MCInit, WebTyped
<1>2. WebTyped => MCTypeOK
  BY DEF WebTyped, TabsTyped, WatchIInv, SerialIInv, RelayIInv, MCTypeOK
<1>3. WebTyped /\ [MCNext]_MCVars => WebTyped'
  BY WebStepTyped
<1> QED BY <1>1, <1>2, <1>3, PTL DEF MCSpec
=============================================================================
