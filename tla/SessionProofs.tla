--------------------------- MODULE SessionProofs ----------------------------
(***************************************************************************)
(* Proofs about what the hub keeps for a vehicle beside its engines:       *)
(* ParamLoad, VehicleLinks and EventReceiver, and, for the types of all of *)
(* them together, MCSession.                                               *)
(*                                                                         *)
(* Load: whatever is lost, refused, late, repeated or refreshed, for any   *)
(* components with any number of parameters, every parameter of a component *)
(* that was heard is waited for, known or given up, and a load that is not *)
(* over is under way.  The handlers are operators on the parameters p; the *)
(* invariant is a predicate on p (Fine), so that each handler has a lemma of *)
(* its own.                                                                *)
(*                                                                         *)
(* Links: the primary link is a live one while there is one, and commands  *)
(* go out on it, for any number of links of any kinds.  The invariant adds *)
(* to PrimaryIsLive that no high latency link is ever lost:                *)
(* best_primary_link keeps a high latency primary without looking whether  *)
(* it is live.  That holds because retain_links runs before the silence of *)
(* the links is looked at, so that the kinds of all that are left are      *)
(* known by then.                                                          *)
(*                                                                         *)
(* Events: they are delivered in order and whole, for any numbers on the   *)
(* wire, any depth of the vehicle's buffer and any losses and restarts; in *)
(* order and once as long as no old event was taken for a restart.         *)
(***************************************************************************)
EXTENDS MCSession, FiniteSetTheorems, SequenceTheorems, WellFoundedInduction, TLAPS

-----------------------------------------------------------------------------
(* The load of the parameters (ParamLoad).                                 *)

Timers == {"list", "hash", "waiting", "file"}
Tries == 0 .. MaxGapRetry
Gapped == UNION {[T -> Tries] : T \in SUBSET Nat}
Waits ==
  {w \in UNION {[S -> Gapped] : S \in SUBSET Components} : \A c \in DOMAIN w : DOMAIN w[c] \subseteq Indices(c)}
Facts == UNION {[S -> {"now"}] : S \in SUBSET Pairs}
Reads == UNION {[S -> 1 .. MaxReread + 1] : S \in SUBSET Pairs}
Queues == {q \in SUBSET Nat : IsFiniteSet(q) /\ Cardinality(q) <= MaxBatch + 1}

Records ==
  [waiting : Waits, facts : Facts, failed : SUBSET Pairs, batching : BOOLEAN, queue : Queues,
   reads : Reads, timers : SUBSET Timers, listAwaited : BOOLEAN, listRetry : 0 .. MaxListRetry + 1,
   checked : BOOLEAN, cacheOnly : BOOLEAN, defaultAwaited : BOOLEAN, complete : BOOLEAN,
   missing : BOOLEAN, ended : BOOLEAN, asksList : BOOLEAN, asksHash : BOOLEAN, asks : SUBSET Pairs]

\* Each parameter of a component that was heard is waited for, known or given up, but for those in S.
WholeBut(p, S) ==
  \A c \in DOMAIN p.waiting : \A i \in Indices(c) :
    <<c, i>> \in S \/ i \in DOMAIN p.waiting[c] \/ <<c, i>> \in DOMAIN p.facts \/ <<c, i>> \in p.failed

\* What is complete is known and over; only what was heard of is waited for; and the hash
\* is not awaited once it has been looked at.
Settled(p) ==
  /\ p.complete => DefaultKnown(p) /\ p.ended
  /\ "waiting" \in p.timers => DOMAIN p.waiting # {}
  /\ p.checked => "hash" \notin p.timers

FineBut(p, S) == p \in Records /\ WholeBut(p, S) /\ Settled(p)
Fine(p) == FineBut(p, {})

\* Something carries the load on.
CarriedOn(p, file) == p.ended \/ p.timers # {} \/ file \/ (Listed(p) # {} /\ ~DefaultKnown(p))

LoadInv ==
  /\ px4 \in BOOLEAN /\ silent \in Silences /\ cache \in {"same", "other"}
  /\ coming \subseteq Pairs /\ byFile \in BOOLEAN /\ hashing \in BOOLEAN /\ turns \in 0 .. MaxTurns
  /\ Fine(params) /\ CarriedOn(params, byFile)
  /\ ~params.asksList /\ ~params.asksHash /\ params.asks = {}

-----------------------------------------------------------------------------
(* What the parameters are made of.                                        *)

LEMMA IndicesAreNat ==
  ASSUME NEW c \in Components
  PROVE  /\ c \in Nat /\ Indices(c) \subseteq Nat /\ 0 \in Indices(c)
         /\ Count[c] \in Nat \ {0}
         /\ \A i \in Indices(c) : <<c, i>> \in Pairs
<1>1. c \in Nat /\ Count[c] \in Nat \ {0}
  BY LoadAssumption
<1>2. Indices(c) \subseteq Nat /\ 0 \in Indices(c)
  BY <1>1 DEF Indices
<1> QED BY <1>1, <1>2 DEF Pairs

LEMMA PairTyped ==
  ASSUME NEW pair \in Pairs
  PROVE  /\ pair[1] \in Components /\ pair[2] \in Indices(pair[1]) /\ pair = <<pair[1], pair[2]>>
         /\ pair[1] \in Nat /\ pair[2] \in Nat
<1>1. PICK c \in Components : \E i \in Indices(c) : pair = <<c, i>>
  BY DEF Pairs
<1>2. PICK i \in Indices(c) : pair = <<c, i>>
  BY <1>1
<1> QED BY <1>2, IndicesAreNat

LEMMA IsWaits ==
  ASSUME NEW w, w = [c \in DOMAIN w |-> w[c]], DOMAIN w \subseteq Components,
         \A c \in DOMAIN w : w[c] \in Gapped /\ DOMAIN w[c] \subseteq Indices(c)
  PROVE  w \in Waits
<1>1. w \in [DOMAIN w -> Gapped]
  OBVIOUS
<1> QED BY <1>1 DEF Waits

LEMMA WaitsTyped ==
  ASSUME NEW w \in Waits
  PROVE  /\ w = [c \in DOMAIN w |-> w[c]] /\ DOMAIN w \subseteq Components
         /\ \A c \in DOMAIN w : w[c] \in Gapped /\ DOMAIN w[c] \subseteq Indices(c)
<1>1. PICK S \in SUBSET Components : w \in [S -> Gapped]
  BY DEF Waits
<1> QED BY <1>1 DEF Waits

LEMMA IsGapped ==
  ASSUME NEW g, g = [i \in DOMAIN g |-> g[i]], DOMAIN g \subseteq Nat, \A i \in DOMAIN g : g[i] \in Tries
  PROVE  g \in Gapped
<1>1. g \in [DOMAIN g -> Tries]
  OBVIOUS
<1> QED BY <1>1 DEF Gapped

LEMMA GappedTyped ==
  ASSUME NEW g \in Gapped
  PROVE  g = [i \in DOMAIN g |-> g[i]] /\ DOMAIN g \subseteq Nat /\ \A i \in DOMAIN g : g[i] \in Tries
<1>1. PICK T \in SUBSET Nat : g \in [T -> Tries]
  BY DEF Gapped
<1> QED BY <1>1

LEMMA IsReads ==
  ASSUME NEW r, r = [x \in DOMAIN r |-> r[x]], DOMAIN r \subseteq Pairs, \A x \in DOMAIN r : r[x] \in 1 .. MaxReread + 1
  PROVE  r \in Reads
<1>1. r \in [DOMAIN r -> 1 .. MaxReread + 1]
  OBVIOUS
<1> QED BY <1>1 DEF Reads

LEMMA ReadsTyped ==
  ASSUME NEW r \in Reads
  PROVE  r = [x \in DOMAIN r |-> r[x]] /\ DOMAIN r \subseteq Pairs /\ \A x \in DOMAIN r : r[x] \in 1 .. MaxReread + 1
<1>1. PICK S \in SUBSET Pairs : r \in [S -> 1 .. MaxReread + 1]
  BY DEF Reads
<1> QED BY <1>1

LEMMA IsFacts ==
  ASSUME NEW f, f = [x \in DOMAIN f |-> f[x]], DOMAIN f \subseteq Pairs, \A x \in DOMAIN f : f[x] = "now"
  PROVE  f \in Facts
<1>1. f \in [DOMAIN f -> {"now"}]
  OBVIOUS
<1> QED BY <1>1 DEF Facts

LEMMA FactsTyped ==
  ASSUME NEW f \in Facts
  PROVE  f = [x \in DOMAIN f |-> f[x]] /\ DOMAIN f \subseteq Pairs /\ \A x \in DOMAIN f : f[x] = "now"
<1>1. PICK S \in SUBSET Pairs : f \in [S -> {"now"}]
  BY DEF Facts
<1> QED BY <1>1

\* A gap is an index that is waited for.
LEMMA GapTyped ==
  ASSUME NEW p \in Records, NEW c \in DOMAIN p.waiting, NEW i
  PROVE  <<c, i>> \in Gaps(p) <=> i \in DOMAIN p.waiting[c]
<1>1. p.waiting \in Waits
  BY DEF Records
<1>2. c \in Components /\ DOMAIN p.waiting[c] \subseteq Indices(c)
  BY <1>1, WaitsTyped
<1>3. ASSUME i \in DOMAIN p.waiting[c] PROVE <<c, i>> \in Gaps(p)
  BY <1>2, <1>3, IndicesAreNat DEF Gaps, Listed
<1>4. ASSUME <<c, i>> \in Gaps(p) PROVE i \in DOMAIN p.waiting[c]
  BY <1>4 DEF Gaps
<1> QED BY <1>3, <1>4

-----------------------------------------------------------------------------
(* The order in which gaps are filled.                                     *)

LEMMA PairsAreFinite == IsFiniteSet(Pairs)
<1>1. \A c \in Components : IsFiniteSet({<<c, i>> : i \in Indices(c)})
  <2> SUFFICES ASSUME NEW c \in Components PROVE IsFiniteSet({<<c, i>> : i \in Indices(c)})
    OBVIOUS
  <2> DEFINE f == [i \in Indices(c) |-> <<c, i>>]
  <2>1. IsFiniteSet(Indices(c))
    <3>1. 0 \in Int /\ Count[c] - 1 \in Int
      BY IndicesAreNat
    <3> QED BY <3>1, FS_Interval DEF Indices
  <2>2. f \in Surjection(Indices(c), {<<c, i>> : i \in Indices(c)})
    BY DEF Surjection
  <2> QED BY <2>1, <2>2, FS_Surjection
<1> DEFINE g == [c \in Components |-> {<<c, i>> : i \in Indices(c)}]
<1>2. IsFiniteSet({{<<c, i>> : i \in Indices(c)} : c \in Components})
  <2>1. g \in Surjection(Components, {{<<c, i>> : i \in Indices(c)} : c \in Components})
    BY DEF Surjection
  <2> QED BY <2>1, LoadAssumption, FS_Surjection
<1>3. \A T \in {{<<c, i>> : i \in Indices(c)} : c \in Components} : IsFiniteSet(T)
  BY <1>1
<1> QED BY <1>2, <1>3, FS_UNION DEF Pairs

LEMMA BeforeIsAnOrder ==
  ASSUME NEW g \in Pairs, NEW h \in Pairs
  PROVE  /\ g \notin Before(g)
         /\ g = h \/ g \in Before(h) \/ h \in Before(g)
         /\ g \in Before(h) => h \notin Before(g)
         /\ \A k \in Pairs : g \in Before(h) /\ h \in Before(k) => g \in Before(k)
BY PairTyped DEF Before

LEMMA LeastOfSome ==
  ASSUME NEW S, S # {}, S \subseteq Nat
  PROVE  \E x \in S : \A y \in S : x <= y
<1>1. PICK x \in S : \A y \in S : <<y, x>> \notin OpToRel(<, Nat)
  BY NatLessThanWellFounded, WFMin
<1>2. ASSUME NEW y \in S PROVE x <= y
  <2>1. y \in Nat /\ x \in Nat /\ <<y, x>> \in Nat \X Nat
    OBVIOUS
  <2>2. ~(y < x)
    BY <1>1, <2>1, Zenon DEF OpToRel
  <2> QED BY <2>1, <2>2
<1> QED BY <1>2

LEMMA Fewer ==
  ASSUME NEW S, NEW T \in SUBSET S, NEW x \in S, x \notin T, IsFiniteSet(S)
  PROVE  Cardinality(T) \in Nat /\ Cardinality(S) \in Nat /\ Cardinality(T) < Cardinality(S)
<1>1. IsFiniteSet(T) /\ Cardinality(T) <= Cardinality(S) /\ (Cardinality(T) = Cardinality(S) => T = S)
  BY FS_Subset
<1>2. Cardinality(T) \in Nat /\ Cardinality(S) \in Nat
  BY <1>1, FS_CardinalityType
<1> QED BY <1>1, <1>2

\* Of some gaps there is a first one and a last one.
LEMMA FirstGap ==
  ASSUME NEW S \in SUBSET Pairs, S # {}
  PROVE  \E g \in S : \A h \in S : h \notin Before(g)
<1> DEFINE Earlier(g) == {h \in S : h \in Before(g)}
<1>1. IsFiniteSet(S)
  BY PairsAreFinite, FS_Subset
<1>2. \A g \in S : IsFiniteSet(Earlier(g)) /\ Cardinality(Earlier(g)) \in Nat
  BY <1>1, FS_Subset, FS_CardinalityType
<1> DEFINE sizes == {Cardinality(Earlier(g)) : g \in S}
<1> HIDE DEF Earlier
<1>3. \E x \in sizes : \A y \in sizes : x <= y
  <2>1. sizes # {} /\ sizes \subseteq Nat
    BY <1>2
  <2> HIDE DEF sizes
  <2> QED BY <2>1, LeastOfSome
<1>4. PICK g \in S : \A h \in S : Cardinality(Earlier(g)) <= Cardinality(Earlier(h))
  BY <1>3
<1>5. ASSUME NEW h \in S, h \in Before(g) PROVE FALSE
  <2>1. Earlier(h) \subseteq Earlier(g) /\ h \in Earlier(g) /\ h \notin Earlier(h)
    BY <1>5, BeforeIsAnOrder DEF Earlier
  <2>2. Cardinality(Earlier(h)) < Cardinality(Earlier(g))
    BY <1>2, <2>1, Fewer
  <2>3. Cardinality(Earlier(g)) <= Cardinality(Earlier(h))
    BY <1>4
  <2> QED BY <1>2, <2>2, <2>3
<1> QED BY <1>5

LEMMA LastGap ==
  ASSUME NEW S \in SUBSET Pairs, S # {}
  PROVE  \E g \in S : \A h \in S : h = g \/ h \in Before(g)
<1> DEFINE Later(g) == {h \in S : g \in Before(h)}
<1>1. IsFiniteSet(S)
  BY PairsAreFinite, FS_Subset
<1>2. \A g \in S : IsFiniteSet(Later(g)) /\ Cardinality(Later(g)) \in Nat
  BY <1>1, FS_Subset, FS_CardinalityType
<1> DEFINE sizes == {Cardinality(Later(g)) : g \in S}
<1> HIDE DEF Later
<1>3. \E x \in sizes : \A y \in sizes : x <= y
  <2>1. sizes # {} /\ sizes \subseteq Nat
    BY <1>2
  <2> HIDE DEF sizes
  <2> QED BY <2>1, LeastOfSome
<1>4. PICK g \in S : \A h \in S : Cardinality(Later(g)) <= Cardinality(Later(h))
  BY <1>3
<1>5. ASSUME NEW h \in S, g \in Before(h) PROVE FALSE
  <2>1. Later(h) \subseteq Later(g) /\ h \in Later(g) /\ h \notin Later(h)
    BY <1>5, BeforeIsAnOrder DEF Later
  <2>2. Cardinality(Later(h)) < Cardinality(Later(g))
    BY <1>2, <2>1, Fewer
  <2>3. Cardinality(Later(g)) <= Cardinality(Later(h))
    BY <1>4
  <2> QED BY <1>2, <2>2, <2>3
<1> QED BY <1>5, BeforeIsAnOrder

-----------------------------------------------------------------------------
(* fill_batch_queue.                                                       *)

Asked(p) == Reached(p) \cap Askable(p)
GivenUp(p) == Reached(p) \ Asked(p)
WaitingFilled(p) ==
  [c \in DOMAIN p.waiting |-> [i \in {k \in DOMAIN p.waiting[c] : <<c, k>> \notin GivenUp(p)} |->
     IF <<c, i>> \in Asked(p) THEN p.waiting[c][i] + 1 ELSE p.waiting[c][i]]]
ReadsFilled(p) == [gap \in DOMAIN p.reads \cup Asked(p) |-> IF gap \in Asked(p) THEN 1 ELSE p.reads[gap]]
QueueFilled(p) == p.queue \cup {gap[2] : gap \in Asked(p)}

LEMMA FilledIs ==
  ASSUME NEW p \in Records, p.batching
  PROVE  Filled(p) = [p EXCEPT !.waiting = WaitingFilled(p), !.failed = @ \cup GivenUp(p),
                        !.queue = QueueFilled(p), !.reads = ReadsFilled(p), !.asks = @ \cup Asked(p)]
BY DEF Filled, Asked, GivenUp, WaitingFilled, ReadsFilled, QueueFilled, Records

LEMMA AskedTyped ==
  ASSUME NEW p \in Records
  PROVE  /\ Asked(p) \subseteq Pairs /\ GivenUp(p) \subseteq Pairs
         /\ \A c \in DOMAIN p.waiting : \A i :
              <<c, i>> \in Asked(p) => i \in DOMAIN p.waiting[c] /\ p.waiting[c][i] < MaxGapRetry
<1>1. Asked(p) \subseteq Gaps(p) /\ GivenUp(p) \subseteq Gaps(p)
  BY DEF Asked, GivenUp, Reached, Askable
<1>2. Gaps(p) \subseteq Pairs
  BY DEF Gaps
<1>3. ASSUME NEW c \in DOMAIN p.waiting, NEW i, <<c, i>> \in Asked(p)
      PROVE  i \in DOMAIN p.waiting[c] /\ p.waiting[c][i] < MaxGapRetry
  BY <1>1, <1>3, GapTyped DEF Asked, Askable
<1> QED BY <1>1, <1>2, <1>3

LEMMA WaitingFilledTyped ==
  ASSUME NEW p \in Records
  PROVE  WaitingFilled(p) \in Waits
<1> DEFINE w == WaitingFilled(p)
<1>1. p.waiting \in Waits
  BY DEF Records
<1>2. DOMAIN w = DOMAIN p.waiting /\ w = [c \in DOMAIN w |-> w[c]]
  BY DEF WaitingFilled
<1>3. ASSUME NEW c \in DOMAIN p.waiting PROVE w[c] \in Gapped /\ DOMAIN w[c] \subseteq Indices(c)
  <2> DEFINE g == w[c]
  <2>1. c \in Components /\ p.waiting[c] \in Gapped /\ DOMAIN p.waiting[c] \subseteq Indices(c)
    BY <1>1, WaitsTyped
  <2>2. /\ g = [i \in DOMAIN g |-> g[i]] /\ DOMAIN g \subseteq DOMAIN p.waiting[c]
        /\ \A i \in DOMAIN g : g[i] = IF <<c, i>> \in Asked(p) THEN p.waiting[c][i] + 1 ELSE p.waiting[c][i]
    BY DEF WaitingFilled
  <2>3. ASSUME NEW i \in DOMAIN g PROVE g[i] \in Tries
    <3>1. p.waiting[c][i] \in Tries /\ MaxGapRetry \in Nat
      BY <2>1, <2>2, GappedTyped, LoadAssumption
    <3>2. <<c, i>> \in Asked(p) => p.waiting[c][i] < MaxGapRetry
      BY AskedTyped
    <3>3. g[i] = IF <<c, i>> \in Asked(p) THEN p.waiting[c][i] + 1 ELSE p.waiting[c][i]
      BY <2>2
    <3> HIDE DEF g
    <3> QED BY <3>1, <3>2, <3>3 DEF Tries
  <2>4. DOMAIN g \subseteq Nat
    BY <2>1, <2>2, IndicesAreNat
  <2> HIDE DEF g
  <2>5. g \in Gapped
    BY <2>2, <2>3, <2>4, IsGapped
  <2> QED BY <2>1, <2>2, <2>5 DEF g
<1>4. DOMAIN w \subseteq Components
  BY <1>1, <1>2, WaitsTyped
<1> HIDE DEF w
<1>5. w \in Waits
  BY <1>2, <1>3, <1>4, IsWaits
<1> QED BY <1>5 DEF w

LEMMA ReadsFilledTyped ==
  ASSUME NEW p \in Records
  PROVE  ReadsFilled(p) \in Reads
<1> DEFINE r == ReadsFilled(p)
<1>1. p.reads \in Reads /\ Asked(p) \subseteq Pairs /\ MaxReread \in Nat
  BY AskedTyped, LoadAssumption DEF Records
<1>2. r = [x \in DOMAIN r |-> r[x]] /\ DOMAIN r \subseteq Pairs
  BY <1>1, ReadsTyped DEF ReadsFilled
<1>3. \A x \in DOMAIN r : r[x] \in 1 .. MaxReread + 1
  BY <1>1, ReadsTyped DEF ReadsFilled
<1> HIDE DEF r
<1>4. r \in Reads
  BY <1>2, <1>3, IsReads
<1> QED BY <1>4 DEF r

\* The queue stops growing once it is over the batch size.
LEMMA QueueFilledTyped ==
  ASSUME NEW p \in Records
  PROVE  QueueFilled(p) \in Queues
<1>1. p.queue \in Queues /\ Asked(p) \subseteq Pairs
  BY AskedTyped DEF Records
<1>2. CASE Asked(p) = {}
  BY <1>1, <1>2 DEF QueueFilled
<1>3. CASE Asked(p) # {}
  <2>1. PICK g \in Asked(p) : \A h \in Asked(p) : h = g \/ h \in Before(g)
    BY <1>1, <1>3, LastGap
  <2> DEFINE b == QueuedBefore(p, g)
             all == {pair[2] : pair \in Pairs}
  <2>2. IsFiniteSet(all)
    <3> DEFINE f == [pair \in Pairs |-> pair[2]]
    <3>1. f \in Surjection(Pairs, all)
      BY DEF Surjection
    <3> HIDE DEF f
    <3> QED BY <3>1, PairsAreFinite, FS_Surjection
  <2>3. b \subseteq p.queue \cup all
    BY DEF QueuedBefore, Askable, Gaps
  <2>4. IsFiniteSet(p.queue \cup all)
    BY <1>1, <2>2, FS_Union DEF Queues
  <2>5. QueueFilled(p) \subseteq b \cup {g[2]}
    BY <2>1 DEF QueueFilled, QueuedBefore, Asked
  <2>6. Cardinality(b) <= MaxBatch
    BY <2>1 DEF Asked, Reached
  <2>7. QueueFilled(p) \subseteq Nat
    BY <1>1, PairTyped DEF QueueFilled, Queues
  <2> HIDE DEF b, all
  <2>8. IsFiniteSet(b) /\ Cardinality(b) \in Nat
    BY <2>3, <2>4, FS_Subset, FS_CardinalityType
  <2>9. IsFiniteSet(b \cup {g[2]}) /\ Cardinality(b \cup {g[2]}) <= MaxBatch + 1
    <3>1. IsFiniteSet(b \cup {g[2]}) /\ Cardinality(b \cup {g[2]}) \in {Cardinality(b), Cardinality(b) + 1}
      BY <2>8, FS_AddElement
    <3>2. MaxBatch \in Nat
      BY LoadAssumption
    <3> QED BY <2>6, <2>8, <3>1, <3>2
  <2>10. IsFiniteSet(QueueFilled(p)) /\ Cardinality(QueueFilled(p)) <= Cardinality(b \cup {g[2]})
    BY <2>5, <2>9, FS_Subset
  <2>11. Cardinality(QueueFilled(p)) \in Nat /\ Cardinality(b \cup {g[2]}) \in Nat /\ MaxBatch \in Nat
    BY <2>9, <2>10, FS_CardinalityType, LoadAssumption
  <2>12. Cardinality(QueueFilled(p)) <= MaxBatch + 1
    BY <2>9, <2>10, <2>11
  <2> QED BY <2>7, <2>10, <2>12 DEF Queues
<1> QED BY <1>2, <1>3

\* What filling leaves as it is.
SameBut(p, q) ==
  /\ q.facts = p.facts /\ q.timers = p.timers /\ q.listAwaited = p.listAwaited /\ q.complete = p.complete
  /\ q.checked = p.checked /\ q.ended = p.ended /\ q.defaultAwaited = p.defaultAwaited
  /\ DOMAIN q.waiting = DOMAIN p.waiting /\ p.asks \subseteq q.asks

\* A gap that is no longer waited for was given up.
LEMMA FilledFine ==
  ASSUME NEW p, NEW S, FineBut(p, S)
  PROVE  FineBut(Filled(p), S) /\ SameBut(p, Filled(p))
<1> DEFINE q == Filled(p)
<1>1. p \in Records
  BY DEF FineBut
<1>2. CASE ~p.batching
  BY <1>2 DEF Filled, SameBut
<1>3. CASE p.batching
  <2>1. q = [p EXCEPT !.waiting = WaitingFilled(p), !.failed = @ \cup GivenUp(p),
                        !.queue = QueueFilled(p), !.reads = ReadsFilled(p), !.asks = @ \cup Asked(p)]
    BY <1>1, <1>3, FilledIs
  <2>2. /\ WaitingFilled(p) \in Waits /\ QueueFilled(p) \in Queues /\ ReadsFilled(p) \in Reads
        /\ Asked(p) \subseteq Pairs /\ GivenUp(p) \subseteq Pairs
    BY <1>1, WaitingFilledTyped, QueueFilledTyped, ReadsFilledTyped, AskedTyped
  <2>3. q \in Records
    BY <1>1, <2>1, <2>2 DEF Records
  <2>4. /\ q.waiting = WaitingFilled(p) /\ q.failed = p.failed \cup GivenUp(p) /\ q.asks = p.asks \cup Asked(p)
        /\ q.facts = p.facts /\ q.timers = p.timers /\ q.listAwaited = p.listAwaited /\ q.complete = p.complete
        /\ q.checked = p.checked /\ q.ended = p.ended /\ q.defaultAwaited = p.defaultAwaited
    BY <1>1, <2>1 DEF Records
  <2>5. DOMAIN q.waiting = DOMAIN p.waiting
    BY <2>4 DEF WaitingFilled
  <2>6. ASSUME NEW c \in DOMAIN p.waiting, NEW i \in DOMAIN p.waiting[c]
        PROVE  i \in DOMAIN q.waiting[c] \/ <<c, i>> \in q.failed
    BY <2>4 DEF WaitingFilled
  <2> HIDE DEF q
  <2>7. WholeBut(q, S)
    BY <2>4, <2>5, <2>6 DEF FineBut, WholeBut
  <2>8. Settled(q)
    BY <2>4, <2>5 DEF FineBut, Settled, DefaultKnown
  <2> QED BY <2>3, <2>4, <2>5, <2>7, <2>8 DEF FineBut, SameBut, q
<1> QED BY <1>2, <1>3

\* When nothing is asked for of an empty queue, no gap is left.
LEMMA NothingLeftToAsk ==
  ASSUME NEW p \in Records, p.batching, p.queue = {}, Filled(p).asks = {}
  PROVE  Gaps(Filled(p)) = {}
<1>1. /\ Filled(p).waiting = WaitingFilled(p)
      /\ Filled(p).asks = p.asks \cup Asked(p)
  BY FilledIs DEF Records
<1>2. Asked(p) = {}
  BY <1>1
<1>3. Cardinality({}) = 0 /\ MaxBatch \in Nat
  BY FS_EmptySet, LoadAssumption
<1>4. Askable(p) = {}
  <2> SUFFICES ASSUME Askable(p) # {} PROVE FALSE
    OBVIOUS
  <2>1. Askable(p) \subseteq Pairs
    BY DEF Askable, Gaps
  <2>2. PICK g \in Askable(p) : \A h \in Askable(p) : h \notin Before(g)
    BY <2>1, FirstGap
  <2>3. QueuedBefore(p, g) = {}
    BY <2>2 DEF QueuedBefore
  <2>4. g \in Reached(p)
    <3>1. g \in Gaps(p) /\ g[2] \notin QueuedBefore(p, g)
      BY <2>2, <2>3 DEF Askable
    <3>2. Cardinality(QueuedBefore(p, g)) = 0
      BY <1>3, <2>3, Zenon
    <3>3. Cardinality(QueuedBefore(p, g)) <= MaxBatch
      BY <1>3, <3>2
    <3> QED BY <3>1, <3>3 DEF Reached
  <2> QED BY <1>2, <2>2, <2>4 DEF Asked
<1>5. ASSUME NEW g \in Gaps(p) PROVE g \in GivenUp(p)
  <2>1. QueuedBefore(p, g) = {}
    BY <1>4 DEF QueuedBefore
  <2> QED BY <1>2, <1>3, <2>1 DEF GivenUp, Reached
<1>6. ASSUME NEW gap \in Gaps(Filled(p)) PROVE FALSE
  <2>1. gap \in Pairs /\ gap[1] \in DOMAIN WaitingFilled(p) /\ gap[2] \in DOMAIN WaitingFilled(p)[gap[1]]
    BY <1>1, <1>6 DEF Gaps, Listed
  <2>2. gap[1] \in DOMAIN p.waiting /\ gap[2] \in DOMAIN p.waiting[gap[1]] /\ <<gap[1], gap[2]>> \notin GivenUp(p)
    BY <2>1 DEF WaitingFilled
  <2>3. gap \in Gaps(p) /\ gap = <<gap[1], gap[2]>>
    BY <2>1, <2>2, PairTyped DEF Gaps, Listed
  <2> QED BY <1>5, <2>2, <2>3
<1> QED BY <1>6

-----------------------------------------------------------------------------
(* The handlers keep the parameters fine, one by one.                      *)

\* The load goes on by itself, or is over.
Going(p) == p.ended \/ p.timers # {}

LEMMA GoingIsCarried ==
  ASSUME NEW p, NEW file, Going(p)
  PROVE  CarriedOn(p, file)
BY DEF Going, CarriedOn

LEMMA FineIsFineBut ==
  ASSUME NEW p, NEW S, Fine(p)
  PROVE  FineBut(p, S)
BY DEF Fine, FineBut, WholeBut

LEMMA FineIsRecord ==
  ASSUME NEW p, NEW S, FineBut(p, S)
  PROVE  p \in Records
BY DEF FineBut

\* Only the timers change.
LEMMA RetimedFine ==
  ASSUME NEW p, NEW S, FineBut(p, S), NEW T \in SUBSET Timers,
         "waiting" \in T => DOMAIN p.waiting # {},
         p.checked => "hash" \notin T
  PROVE  /\ FineBut([p EXCEPT !.timers = T], S)
         /\ [p EXCEPT !.timers = T].timers = T
         /\ [p EXCEPT !.timers = T].waiting = p.waiting
         /\ [p EXCEPT !.timers = T].facts = p.facts
<1> DEFINE q == [p EXCEPT !.timers = T]
<1>1. p \in Records
  BY FineIsRecord
<1>2. q \in Records
  BY <1>1 DEF Records
<1>3. /\ q.waiting = p.waiting /\ q.facts = p.facts /\ q.failed = p.failed /\ q.timers = T
      /\ q.complete = p.complete /\ q.ended = p.ended /\ q.checked = p.checked
  BY <1>1 DEF Records
<1> HIDE DEF q
<1>4. FineBut(q, S)
  BY <1>2, <1>3 DEF FineBut, WholeBut, Settled, DefaultKnown
<1> QED BY <1>3, <1>4 DEF q

LEMMA TimedFine ==
  ASSUME NEW p, NEW S, FineBut(p, S), NEW t \in Timers,
         t = "waiting" => DOMAIN p.waiting # {},
         t = "hash" => ~p.checked
  PROVE  FineBut(Timed(p, t), S) /\ Timed(p, t).timers # {}
<1> DEFINE T == p.timers \cup {t}
<1>1. Timed(p, t) = [p EXCEPT !.timers = T]
  BY DEF Timed
<1>2. T \in SUBSET Timers
  BY FineIsRecord DEF Records
<1>3. "waiting" \in T => DOMAIN p.waiting # {}
  BY DEF FineBut, Settled
<1>4. p.checked => "hash" \notin T
  BY DEF FineBut, Settled
<1>5. T # {}
  OBVIOUS
<1> HIDE DEF T
<1> QED BY <1>1, <1>2, <1>3, <1>4, <1>5, RetimedFine

LEMMA UntimedFine ==
  ASSUME NEW p, NEW S, FineBut(p, S), NEW some
  PROVE  FineBut(Untimed(p, some), S)
<1> DEFINE T == p.timers \ some
<1>1. Untimed(p, some) = [p EXCEPT !.timers = T]
  BY DEF Untimed
<1>2. T \in SUBSET Timers
  BY FineIsRecord DEF Records
<1>3. "waiting" \in T => DOMAIN p.waiting # {}
  BY DEF FineBut, Settled
<1>4. p.checked => "hash" \notin T
  BY DEF FineBut, Settled
<1> HIDE DEF T
<1> QED BY <1>1, <1>2, <1>3, <1>4, RetimedFine

\* What the invariant says nothing of may change, and a load that is not over may end.
Alike(p, q) ==
  /\ q.waiting = p.waiting /\ q.facts = p.facts /\ q.failed = p.failed /\ q.timers = p.timers
  /\ q.complete = p.complete /\ (p.ended => q.ended)

LEMMA AlikeFine ==
  ASSUME NEW p, NEW S, FineBut(p, S), NEW q \in Records, Alike(p, q), q.checked => p.checked \/ "hash" \notin p.timers
  PROVE  FineBut(q, S)
BY DEF FineBut, WholeBut, Settled, Alike, DefaultKnown

LEMMA OverFine ==
  ASSUME NEW p, NEW S, FineBut(p, S)
  PROVE  FineBut(Over(p), S) /\ Over(p).ended
<1>1. p \in Records
  BY FineIsRecord
<1>2. Over(p) \in Records /\ Over(p).ended /\ Alike(p, Over(p)) /\ Over(p).checked = p.checked
  BY <1>1 DEF Over, Records, Alike
<1> QED BY <1>2, AlikeFine

\* check_initial_load_complete.
LEMMA CompletedFine ==
  ASSUME NEW p, NEW S, FineBut(p, S)
  PROVE  /\ FineBut(Completed(p), S) /\ Completed(p).waiting = p.waiting /\ Completed(p).timers = p.timers
         /\ Completed(p).facts = p.facts
         /\ p.ended => Completed(p).ended
         /\ Gaps(p) = {} /\ DefaultKnown(p) => Completed(p).ended
<1> DEFINE q == Completed(p)
<1>1. p \in Records
  BY FineIsRecord
<1>2. CASE p.complete \/ Gaps(p) # {} \/ ~DefaultKnown(p)
  <2>1. q = p
    BY <1>2 DEF Completed
  <2>2. p.complete => p.ended
    BY DEF FineBut, Settled
  <2> HIDE DEF q
  <2>3. Gaps(p) = {} /\ DefaultKnown(p) => p.ended
    BY <1>2, <2>2
  <2> QED BY <2>1, <2>3 DEF q
<1>3. CASE ~(p.complete \/ Gaps(p) # {} \/ ~DefaultKnown(p))
  <2>1. q = [p EXCEPT !.complete = TRUE, !.missing = p.failed # {}, !.ended = TRUE]
    BY <1>1, <1>3 DEF Completed, Over, Records
  <2>2. q \in Records
    BY <1>1, <2>1 DEF Records
  <2>3. /\ q.waiting = p.waiting /\ q.facts = p.facts /\ q.failed = p.failed /\ q.timers = p.timers
        /\ q.complete /\ q.ended /\ q.checked = p.checked
    BY <1>1, <2>1 DEF Records
  <2> HIDE DEF q
  <2>4. FineBut(q, S)
    BY <1>3, <2>2, <2>3 DEF FineBut, WholeBut, Settled, DefaultKnown
  <2> QED BY <2>3, <2>4 DEF q
<1> QED BY <1>2, <1>3

LEMMA AskingHashFine ==
  ASSUME NEW p, NEW S, FineBut(p, S), ~p.checked
  PROVE  FineBut(AskingHash(p), S) /\ Going(AskingHash(p))
<1> DEFINE q == Timed(p, "hash")
<1>1. FineBut(q, S) /\ q.timers # {}
  BY TimedFine DEF Timers
<1>2. AskingHash(p) = [q EXCEPT !.asksHash = TRUE]
  BY DEF AskingHash
<1> HIDE DEF q
<1>3. q \in Records
  BY <1>1, FineIsRecord
<1>4. /\ AskingHash(p) \in Records /\ Alike(q, AskingHash(p)) /\ AskingHash(p).checked = q.checked
      /\ AskingHash(p).timers = q.timers
  BY <1>2, <1>3 DEF Records, Alike
<1> QED BY <1>1, <1>4, AlikeFine DEF Going

\* All of a component's parameters are waited for.
LEMMA AllAwaited ==
  ASSUME NEW c \in Components
  PROVE  [i \in Indices(c) |-> 0] \in Gapped
<1> DEFINE g == [i \in Indices(c) |-> 0]
<1>1. g = [i \in DOMAIN g |-> g[i]] /\ DOMAIN g \subseteq Nat /\ \A i \in DOMAIN g : g[i] \in Tries
  BY IndicesAreNat, LoadAssumption DEF Tries
<1> HIDE DEF g
<1>2. g \in Gapped
  BY <1>1, IsGapped
<1> QED BY <1>2 DEF g

\* start_download: what is waited for of those heard of is all of theirs.
LEMMA DownloadingFine ==
  ASSUME NEW p, Fine(p)
  PROVE  Fine(Downloading(p)) /\ Going(Downloading(p))
<1> DEFINE q == Downloading(p)
<1>1. p \in Records /\ FineBut(p, {})
  BY FineIsRecord DEF Fine
<1>2. CASE px4 /\ ~p.complete /\ ~p.checked
  <2> DEFINE r == [p EXCEPT !.cacheOnly = FALSE]
  <2>1. r \in Records /\ Alike(p, r) /\ r.checked = p.checked
    BY <1>1 DEF Records, Alike
  <2>2. q = AskingHash(r)
    BY <1>2 DEF Downloading
  <2> HIDE DEF r, q
  <2>3. FineBut(r, {})
    BY <1>1, <2>1, AlikeFine
  <2>4. FineBut(AskingHash(r), {}) /\ Going(AskingHash(r))
    BY <1>2, <2>1, <2>3, AskingHashFine
  <2> QED BY <2>2, <2>4 DEF q, Fine
<1>3. CASE ~(px4 /\ ~p.complete /\ ~p.checked)
  <2> DEFINE w == [c \in DOMAIN p.waiting |-> [i \in Indices(c) |-> 0]]
             T == IF p.complete THEN p.timers ELSE p.timers \cup {"list"}
  <2>1. q = [p EXCEPT !.listAwaited = @ \/ ~p.complete, !.timers = T, !.waiting = w, !.asksList = TRUE]
    BY <1>3 DEF Downloading
  <2>2. w = [c \in DOMAIN w |-> w[c]] /\ DOMAIN w = DOMAIN p.waiting
        /\ \A c \in DOMAIN w : w[c] = [i \in Indices(c) |-> 0]
    OBVIOUS
  <2>3. DOMAIN p.waiting \subseteq Components
    BY <1>1, WaitsTyped DEF Records
  <2>4. T \subseteq Timers
    BY <1>1 DEF Records, Timers
  <2>5. ("waiting" \in T <=> "waiting" \in p.timers) /\ ("hash" \in T <=> "hash" \in p.timers)
    OBVIOUS
  <2>6. p.complete \/ T # {}
    OBVIOUS
  <2> HIDE DEF q, w, T
  <2>7. w \in Waits
    <3>1. \A c \in DOMAIN w : w[c] \in Gapped /\ DOMAIN w[c] \subseteq Indices(c)
      BY <2>2, <2>3, AllAwaited
    <3> QED BY <2>2, <2>3, <3>1, IsWaits
  <2>8. q \in Records
    BY <1>1, <2>1, <2>4, <2>7 DEF Records
  <2>9. /\ q.waiting = w /\ q.facts = p.facts /\ q.timers = T
        /\ q.complete = p.complete /\ q.ended = p.ended /\ q.checked = p.checked
    BY <1>1, <2>1 DEF Records
  <2>10. WholeBut(q, {})
    BY <2>2, <2>9 DEF WholeBut
  <2>11. Settled(q)
    BY <1>1, <2>2, <2>5, <2>9 DEF FineBut, Settled, DefaultKnown
  <2>12. Going(q)
    BY <1>1, <2>6, <2>9 DEF FineBut, Settled, Going
  <2> QED BY <2>8, <2>10, <2>11, <2>12 DEF Fine, FineBut, q
<1> QED BY <1>2, <1>3

\* refresh_all, start.
LEMMA RefreshedFine ==
  ASSUME NEW p, Fine(p)
  PROVE  Fine(Refreshed(p)) /\ Going(Refreshed(p))
<1> DEFINE r == [p EXCEPT !.checked = FALSE]
<1>1. p \in Records /\ FineBut(p, {})
  BY FineIsRecord DEF Fine
<1>2. r \in Records /\ Alike(p, r) /\ ~r.checked
  BY <1>1 DEF Records, Alike
<1>3. Refreshed(p) = Downloading(r)
  BY DEF Refreshed
<1> HIDE DEF r
<1>4. Fine(r)
  BY <1>1, <1>2, AlikeFine DEF Fine
<1> QED BY <1>3, <1>4, DownloadingFine

LEMMA StartedCacheOnlyFine ==
  ASSUME NEW p, Fine(p)
  PROVE  Fine(StartedCacheOnly(p)) /\ Going(StartedCacheOnly(p))
<1> DEFINE r == [p EXCEPT !.checked = FALSE, !.cacheOnly = TRUE]
<1>1. p \in Records /\ FineBut(p, {})
  BY FineIsRecord DEF Fine
<1>2. r \in Records /\ Alike(p, r) /\ ~r.checked
  BY <1>1 DEF Records, Alike
<1>3. StartedCacheOnly(p) = IF px4 /\ ~p.complete THEN AskingHash(r) ELSE Over(r)
  BY DEF StartedCacheOnly
<1> HIDE DEF r
<1>4. FineBut(r, {})
  BY <1>1, <1>2, AlikeFine
<1>5. FineBut(AskingHash(r), {}) /\ Going(AskingHash(r))
  BY <1>2, <1>4, AskingHashFine
<1>6. FineBut(Over(r), {}) /\ Going(Over(r))
  BY <1>4, OverFine DEF Going
<1> QED BY <1>3, <1>5, <1>6 DEF Fine

\* The hash was looked at, while it is no longer awaited.
LEMMA HashLookedAt ==
  ASSUME NEW p, Fine(p), "hash" \notin p.timers
  PROVE  Fine([p EXCEPT !.checked = TRUE])
<1> DEFINE q == [p EXCEPT !.checked = TRUE]
<1>1. p \in Records /\ FineBut(p, {})
  BY FineIsRecord DEF Fine
<1>2. q \in Records /\ Alike(p, q)
  BY <1>1 DEF Records, Alike
<1> HIDE DEF q
<1>3. FineBut(q, {})
  BY <1>1, <1>2, AlikeFine
<1> QED BY <1>3 DEF Fine, q

LEMMA HashCheckFailedFine ==
  ASSUME NEW p, Fine(p), "hash" \notin p.timers
  PROVE  Fine(HashCheckFailed(p)) /\ (~p.checked => Going(HashCheckFailed(p)))
<1> DEFINE q == [p EXCEPT !.checked = TRUE]
<1>1. HashCheckFailed(p) = IF p.checked THEN p ELSE IF p.cacheOnly THEN Over(q) ELSE Downloading(q)
  BY DEF HashCheckFailed
<1>2. Fine(q)
  BY HashLookedAt
<1> HIDE DEF q
<1>3. Fine(Over(q)) /\ Going(Over(q)) /\ Fine(Downloading(q)) /\ Going(Downloading(q))
  BY <1>2, OverFine, DownloadingFine DEF Fine, Going
<1> QED BY <1>1, <1>3

LEMMA UntimedIs ==
  ASSUME NEW p \in Records, NEW some
  PROVE  /\ Untimed(p, some) \in Records /\ Untimed(p, some).timers = p.timers \ some
         /\ Untimed(p, some).checked = p.checked /\ Untimed(p, some).complete = p.complete
         /\ Untimed(p, some).ended = p.ended /\ Untimed(p, some).waiting = p.waiting
         /\ Untimed(p, some).facts = p.facts
BY DEF Untimed, Records

LEMMA HashTimedOutFine ==
  ASSUME NEW p, Fine(p)
  PROVE  Fine(HashTimedOut(p)) /\ Going(HashTimedOut(p))
<1> DEFINE u == Untimed(p, {"hash"})
           q == [u EXCEPT !.checked = TRUE]
<1>1. HashTimedOut(p) = IF p.cacheOnly THEN Over(q) ELSE Downloading(q)
  BY DEF HashTimedOut
<1>2. Fine(u)
  BY UntimedFine DEF Fine
<1>3. "hash" \notin u.timers
  BY FineIsRecord, UntimedIs DEF Fine
<1> HIDE DEF u
<1>4. Fine(q)
  BY <1>2, <1>3, HashLookedAt
<1> HIDE DEF q
<1>5. Fine(Over(q)) /\ Going(Over(q)) /\ Fine(Downloading(q)) /\ Going(Downloading(q))
  BY <1>4, OverFine, DownloadingFine DEF Fine, Going
<1> QED BY <1>1, <1>5

LEMMA NoResponseFine ==
  ASSUME NEW p, Fine(p)
  PROVE  Fine(NoResponse(p)) /\ Going(NoResponse(p))
<1> DEFINE r == [p EXCEPT !.listAwaited = FALSE]
<1>1. p \in Records /\ FineBut(p, {})
  BY FineIsRecord DEF Fine
<1>2. r \in Records /\ Alike(p, r) /\ r.checked = p.checked
  BY <1>1 DEF Records, Alike
<1>3. NoResponse(p) = Over(r)
  BY DEF NoResponse
<1> HIDE DEF r
<1>4. FineBut(r, {})
  BY <1>1, <1>2, AlikeFine
<1> QED BY <1>3, <1>4, OverFine DEF Fine, Going

LEMMA ListTimedOutFine ==
  ASSUME NEW p, Fine(p)
  PROVE  Fine(ListTimedOut(p)) /\ Going(ListTimedOut(p))
<1> DEFINE u == Untimed(p, {"list"})
           n == IF u.listRetry > MaxListRetry THEN u.listRetry ELSE u.listRetry + 1
           q == [u EXCEPT !.listRetry = n]
<1>1. FineBut(u, {}) /\ u \in Records
  BY UntimedFine, FineIsRecord DEF Fine
<1>2. ListTimedOut(p) = IF q.listRetry <= MaxListRetry THEN Downloading(q) ELSE NoResponse(q)
  BY DEF ListTimedOut
<1> HIDE DEF u
<1>3. n \in 0 .. MaxListRetry + 1
  <2>1. u.listRetry \in 0 .. MaxListRetry + 1 /\ MaxListRetry \in Nat
    BY <1>1, LoadAssumption DEF Records
  <2> QED BY <2>1
<1> HIDE DEF n
<1>4. q \in Records /\ Alike(u, q) /\ q.checked = u.checked
  BY <1>1, <1>3 DEF Records, Alike
<1> HIDE DEF q
<1>5. Fine(q)
  BY <1>1, <1>4, AlikeFine DEF Fine
<1> QED BY <1>2, <1>5, DownloadingFine, NoResponseFine

\* A request is sent again, or forgotten.
LEMMA WithoutRead ==
  ASSUME NEW r \in Reads, NEW pair
  PROVE  Without(r, pair) \in Reads
<1> DEFINE w == Without(r, pair)
<1>1. w = [x \in DOMAIN w |-> w[x]] /\ DOMAIN w \subseteq Pairs /\ \A x \in DOMAIN w : w[x] \in 1 .. MaxReread + 1
  BY ReadsTyped DEF Without
<1> HIDE DEF w
<1>2. w \in Reads
  BY <1>1, IsReads
<1> QED BY <1>2 DEF w

\* What a request that is answered, sent again or forgotten leaves as it is.
LeftAlone(p, q) ==
  Alike(p, q) /\ q.checked = p.checked /\ q.ended = p.ended /\ q.queue = p.queue /\ q.listAwaited = p.listAwaited

LEMMA AnsweredFine ==
  ASSUME NEW p, Fine(p), NEW pair
  PROVE  Fine(Answered(p, pair)) /\ LeftAlone(p, Answered(p, pair))
<1>1. p \in Records /\ FineBut(p, {})
  BY FineIsRecord DEF Fine
<1>2. p.reads \in Reads
  BY <1>1 DEF Records
<1>3. Without(p.reads, pair) \in Reads
  BY <1>2, WithoutRead
<1> DEFINE q == Answered(p, pair)
<1>4. q = [p EXCEPT !.reads = Without(p.reads, pair)]
  BY <1>1 DEF Answered
<1> HIDE DEF q
<1>5. q \in Records /\ LeftAlone(p, q)
  BY <1>1, <1>3, <1>4 DEF Records, LeftAlone, Alike
<1>6. FineBut(q, {})
  BY <1>1, <1>5, AlikeFine DEF LeftAlone
<1> QED BY <1>5, <1>6 DEF Fine, q

LEMMA ReadTimedOutFine ==
  ASSUME NEW p, Fine(p), NEW pair \in DOMAIN p.reads
  PROVE  Fine(ReadTimedOut(p, pair)) /\ LeftAlone(p, ReadTimedOut(p, pair))
<1>1. p \in Records /\ FineBut(p, {})
  BY FineIsRecord DEF Fine
<1>2. CASE p.reads[pair] <= MaxReread
  <2> DEFINE r == [p.reads EXCEPT ![pair] = @ + 1]
             q == ReadTimedOut(p, pair)
  <2>1. q = [p EXCEPT !.reads = r, !.asks = @ \cup {pair}]
    BY <1>1, <1>2 DEF ReadTimedOut, Records
  <2>2. p.reads \in Reads
    BY <1>1 DEF Records
  <2>3. p.reads[pair] + 1 \in 1 .. MaxReread + 1 /\ pair \in Pairs
    BY <1>2, <2>2, ReadsTyped, LoadAssumption
  <2>4. r = [x \in DOMAIN r |-> r[x]] /\ DOMAIN r = DOMAIN p.reads
        /\ \A x \in DOMAIN r : r[x] = IF x = pair THEN p.reads[pair] + 1 ELSE p.reads[x]
    BY <2>2, ReadsTyped
  <2> HIDE DEF r
  <2>5. r \in Reads
    <3>1. DOMAIN r \subseteq Pairs /\ \A x \in DOMAIN r : r[x] \in 1 .. MaxReread + 1
      BY <2>2, <2>3, <2>4, ReadsTyped
    <3> QED BY <2>4, <3>1, IsReads
  <2> HIDE DEF q
  <2>6. q \in Records /\ LeftAlone(p, q)
    BY <1>1, <2>1, <2>3, <2>5 DEF Records, LeftAlone, Alike
  <2>7. FineBut(q, {})
    BY <1>1, <2>6, AlikeFine DEF LeftAlone
  <2> QED BY <2>6, <2>7 DEF Fine, q
<1>3. CASE ~(p.reads[pair] <= MaxReread)
  <2>1. ReadTimedOut(p, pair) = Answered(p, pair)
    BY <1>3 DEF ReadTimedOut, Answered
  <2> QED BY <2>1, AnsweredFine
<1> QED BY <1>2, <1>3

LEMMA LeftAloneIsCarried ==
  ASSUME NEW p, NEW q, NEW file, LeftAlone(p, q), CarriedOn(p, file)
  PROVE  CarriedOn(q, file)
BY DEF LeftAlone, Alike, CarriedOn, Listed, DefaultKnown

\* on_waiting_timeout: what is not carried on any more has no gaps, so it is complete or the
\* default component is not known.
LEMMA WaitingTimedOutFine ==
  ASSUME NEW p, Fine(p), "waiting" \in p.timers, NEW file
  PROVE  Fine(WaitingTimedOut(p)) /\ CarriedOn(WaitingTimedOut(p), file)
<1> DEFINE u == Untimed(p, {"waiting"})
           r == [u EXCEPT !.batching = TRUE, !.queue = {}]
           q == Filled(r)
           e == [q EXCEPT !.defaultAwaited = FALSE]
           d == [q EXCEPT !.defaultAwaited = TRUE]
           over == Completed(e)
<1>1. p \in Records /\ FineBut(p, {}) /\ DOMAIN p.waiting # {}
  BY FineIsRecord DEF Fine, FineBut, Settled
<1>2. WaitingTimedOut(p) =
        IF q.asks = {} /\ ~p.defaultAwaited /\ ~DefaultKnown(p) THEN Timed(d, "waiting")
        ELSE IF q.asks = {} THEN over ELSE Timed(over, "waiting")
  BY DEF WaitingTimedOut
<1>3. FineBut(u, {}) /\ u \in Records /\ u.waiting = p.waiting
  BY <1>1, UntimedFine, UntimedIs
<1>4. {} \in Queues
  <2>1. IsFiniteSet({}) /\ Cardinality({}) = 0 /\ MaxBatch \in Nat
    BY FS_EmptySet, LoadAssumption
  <2>2. Cardinality({}) <= MaxBatch + 1
    BY <2>1
  <2> QED BY <2>1, <2>2 DEF Queues
<1> HIDE DEF u
<1>5. r \in Records /\ Alike(u, r) /\ r.checked = u.checked /\ r.batching /\ r.queue = {}
  BY <1>3, <1>4 DEF Records, Alike
<1> HIDE DEF r
<1>6. FineBut(r, {}) /\ DOMAIN r.waiting = DOMAIN p.waiting
  BY <1>3, <1>5, AlikeFine DEF Alike
<1>7. FineBut(q, {}) /\ SameBut(r, q) /\ q \in Records
  BY <1>6, FilledFine, FineIsRecord
<1>8. DOMAIN q.waiting # {}
  BY <1>1, <1>6, <1>7 DEF SameBut
<1>9. q.asks = {} => Gaps(q) = {}
  BY <1>5, NothingLeftToAsk
<1> HIDE DEF q
<1>10. /\ e \in Records /\ Alike(q, e) /\ e.checked = q.checked
       /\ d \in Records /\ Alike(q, d) /\ d.checked = q.checked
  BY <1>7 DEF Records, Alike
<1> HIDE DEF e, d
<1>11. FineBut(e, {}) /\ FineBut(d, {}) /\ DOMAIN d.waiting # {} /\ DOMAIN e.waiting # {}
  BY <1>7, <1>8, <1>10, AlikeFine DEF Alike
<1>12. Gaps(e) = Gaps(q)
  BY <1>10 DEF Alike, Gaps, Listed
<1>13. /\ FineBut(over, {}) /\ over.waiting = e.waiting /\ over.facts = e.facts
       /\ Gaps(e) = {} /\ DefaultKnown(e) => over.ended
  BY <1>11, CompletedFine
<1> HIDE DEF over
<1>14. q.asks = {} => CarriedOn(over, file)
  BY <1>9, <1>11, <1>12, <1>13 DEF CarriedOn, Listed, DefaultKnown
<1>15. FineBut(Timed(over, "waiting"), {}) /\ Going(Timed(over, "waiting"))
  BY <1>11, <1>13, TimedFine DEF Timers, Going
<1>16. FineBut(Timed(d, "waiting"), {}) /\ Going(Timed(d, "waiting"))
  BY <1>11, TimedFine DEF Timers, Going
<1> QED BY <1>2, <1>13, <1>14, <1>15, <1>16, GoingIsCarried DEF Fine

\* A component is heard of: all of its parameters are waited for.
WaitingHeard(p, c) ==
  IF c \in DOMAIN p.waiting THEN p.waiting ELSE With(p.waiting, c, [k \in Indices(c) |-> 0])

LEMMA WithWaiting ==
  ASSUME NEW w \in Waits, NEW c \in Components, NEW g \in Gapped, DOMAIN g \subseteq Indices(c)
  PROVE  With(w, c, g) \in Waits
<1> DEFINE v == With(w, c, g)
<1>1. v = [x \in DOMAIN v |-> v[x]] /\ DOMAIN v = DOMAIN w \cup {c} /\ v[c] = g
      /\ \A x \in DOMAIN w : x # c => v[x] = w[x]
  BY DEF With
<1> HIDE DEF v
<1>2. DOMAIN v \subseteq Components /\ \A x \in DOMAIN v : v[x] \in Gapped /\ DOMAIN v[x] \subseteq Indices(x)
  BY <1>1, WaitsTyped
<1>3. v \in Waits
  BY <1>1, <1>2, IsWaits
<1> QED BY <1>3 DEF v

LEMMA WaitingHeardTyped ==
  ASSUME NEW p \in Records, NEW c \in Components
  PROVE  /\ WaitingHeard(p, c) \in Waits /\ DOMAIN WaitingHeard(p, c) = DOMAIN p.waiting \cup {c}
         /\ \A x \in DOMAIN p.waiting : WaitingHeard(p, c)[x] = p.waiting[x]
         /\ c \notin DOMAIN p.waiting => DOMAIN WaitingHeard(p, c)[c] = Indices(c)
<1> DEFINE g == [k \in Indices(c) |-> 0]
<1>1. p.waiting \in Waits
  BY DEF Records
<1>2. g \in Gapped /\ DOMAIN g = Indices(c)
  BY AllAwaited
<1>3. WaitingHeard(p, c) = IF c \in DOMAIN p.waiting THEN p.waiting ELSE With(p.waiting, c, g)
  BY DEF WaitingHeard
<1> HIDE DEF g
<1>4. With(p.waiting, c, g) \in Waits
  BY <1>1, <1>2, WithWaiting
<1> QED BY <1>1, <1>2, <1>3, <1>4 DEF With

HeardFrom(p, c) ==
  [Untimed(p, {"list", "waiting"}) EXCEPT !.listAwaited = FALSE, !.waiting = WaitingHeard(p, c)]

LEMMA HeardFine ==
  ASSUME NEW p, Fine(p), NEW c \in Components
  PROVE  /\ Fine(HeardFrom(p, c)) /\ HeardFrom(p, c).waiting = WaitingHeard(p, c) /\ HeardFrom(p, c).facts = p.facts
         /\ HeardFrom(p, c).queue = p.queue /\ c \in DOMAIN HeardFrom(p, c).waiting
<1> DEFINE u == Untimed(p, {"list", "waiting"})
           w == WaitingHeard(p, c)
           q == HeardFrom(p, c)
<1>1. p \in Records /\ FineBut(p, {})
  BY FineIsRecord DEF Fine
<1>2. FineBut(u, {}) /\ u \in Records /\ u.waiting = p.waiting /\ u.facts = p.facts
  BY <1>1, UntimedFine, UntimedIs
<1>3. u.queue = p.queue /\ u.failed = p.failed /\ "waiting" \notin u.timers
  BY <1>1 DEF Untimed, Records
<1>4. /\ w \in Waits /\ DOMAIN w = DOMAIN p.waiting \cup {c} /\ \A x \in DOMAIN p.waiting : w[x] = p.waiting[x]
      /\ c \notin DOMAIN p.waiting => DOMAIN w[c] = Indices(c)
  BY <1>1, WaitingHeardTyped
<1>5. q = [u EXCEPT !.listAwaited = FALSE, !.waiting = w]
  BY DEF HeardFrom
<1> HIDE DEF u, w, q
<1>6. q \in Records
  BY <1>2, <1>4, <1>5 DEF Records
<1>7. /\ q.waiting = w /\ q.facts = u.facts /\ q.failed = u.failed /\ q.timers = u.timers
      /\ q.complete = u.complete /\ q.ended = u.ended /\ q.checked = u.checked /\ q.queue = u.queue
  BY <1>2, <1>5 DEF Records
<1>8. ASSUME NEW x \in DOMAIN w, NEW i \in Indices(x)
      PROVE  i \in DOMAIN w[x] \/ <<x, i>> \in DOMAIN u.facts \/ <<x, i>> \in u.failed
  <2>1. CASE x \in DOMAIN p.waiting
    BY <1>2, <1>4, <2>1 DEF FineBut, WholeBut
  <2>2. CASE x \notin DOMAIN p.waiting
    BY <1>4, <2>2
  <2> QED BY <2>1, <2>2
<1>9. WholeBut(q, {})
  BY <1>7, <1>8 DEF WholeBut
<1>10. Settled(q)
  BY <1>2, <1>3, <1>7 DEF FineBut, Settled, DefaultKnown
<1> QED BY <1>2, <1>3, <1>4, <1>6, <1>7, <1>9, <1>10 DEF Fine, FineBut, w, q

\* An index that came is no longer waited for, nor in the queue.
Got(p, c, i) == [p EXCEPT !.waiting[c] = Without(@, i), !.queue = @ \ {i}]

LEMMA GotFine ==
  ASSUME NEW p, Fine(p), NEW c \in DOMAIN p.waiting, NEW i
  PROVE  /\ FineBut(Got(p, c, i), {<<c, i>>}) /\ Got(p, c, i).facts = p.facts
         /\ DOMAIN Got(p, c, i).waiting = DOMAIN p.waiting
<1> DEFINE q == Got(p, c, i)
           w == [p.waiting EXCEPT ![c] = Without(p.waiting[c], i)]
           g == Without(p.waiting[c], i)
<1>1. p \in Records /\ FineBut(p, {}) /\ p.waiting \in Waits /\ p.queue \in Queues
  BY FineIsRecord DEF Fine, Records
<1>2. q = [p EXCEPT !.waiting = w, !.queue = p.queue \ {i}]
  BY <1>1 DEF Got, Records
<1>3. p.waiting[c] \in Gapped /\ c \in Components /\ DOMAIN p.waiting[c] \subseteq Indices(c)
  BY <1>1, WaitsTyped
<1>4. /\ DOMAIN g = DOMAIN p.waiting[c] \ {i}
      /\ g = [x \in DOMAIN g |-> g[x]] /\ DOMAIN g \subseteq Nat /\ \A x \in DOMAIN g : g[x] \in Tries
  BY <1>3, GappedTyped DEF Without
<1>5. /\ w = [x \in DOMAIN w |-> w[x]] /\ DOMAIN w = DOMAIN p.waiting /\ w[c] = g
      /\ \A x \in DOMAIN w : x # c => w[x] = p.waiting[x]
  BY <1>1, WaitsTyped
<1> HIDE DEF q, w, g
<1>6. g \in Gapped
  BY <1>4, IsGapped
<1>7. w \in Waits
  <2>1. DOMAIN w \subseteq Components /\ \A x \in DOMAIN w : w[x] \in Gapped /\ DOMAIN w[x] \subseteq Indices(x)
    BY <1>1, <1>3, <1>4, <1>5, <1>6, WaitsTyped
  <2> QED BY <1>5, <2>1, IsWaits
<1>8. p.queue \ {i} \in Queues
  <2>1. IsFiniteSet(p.queue) /\ p.queue \subseteq Nat /\ Cardinality(p.queue) <= MaxBatch + 1
    BY <1>1 DEF Queues
  <2>2. IsFiniteSet(p.queue \ {i}) /\ Cardinality(p.queue \ {i}) <= Cardinality(p.queue)
    BY <2>1, FS_Subset
  <2>3. Cardinality(p.queue) \in Nat /\ Cardinality(p.queue \ {i}) \in Nat /\ MaxBatch \in Nat
    BY <2>1, <2>2, FS_CardinalityType, LoadAssumption
  <2>4. Cardinality(p.queue \ {i}) <= MaxBatch + 1
    BY <2>1, <2>2, <2>3
  <2> QED BY <2>1, <2>2, <2>4 DEF Queues
<1>9. q \in Records
  BY <1>1, <1>2, <1>7, <1>8 DEF Records
<1>10. /\ q.waiting = w /\ q.facts = p.facts /\ q.failed = p.failed /\ q.timers = p.timers
       /\ q.complete = p.complete /\ q.ended = p.ended /\ q.checked = p.checked
  BY <1>1, <1>2 DEF Records
<1>11. ASSUME NEW x \in DOMAIN w, NEW k \in DOMAIN p.waiting[x]
       PROVE  k \in DOMAIN w[x] \/ <<x, k>> \in {<<c, i>>}
  BY <1>4, <1>5
<1>12. WholeBut(q, {<<c, i>>})
  BY <1>1, <1>5, <1>10, <1>11 DEF FineBut, WholeBut
<1>13. Settled(q)
  BY <1>1, <1>5, <1>10 DEF FineBut, Settled, DefaultKnown
<1> QED BY <1>5, <1>9, <1>10, <1>12, <1>13 DEF FineBut, q

\* A value that came is known.
Known(p, pair) == [p EXCEPT !.facts = With(@, pair, "now")]

LEMMA KnownFine ==
  ASSUME NEW p, NEW pair \in Pairs, FineBut(p, {pair})
  PROVE  /\ Fine(Known(p, pair)) /\ Known(p, pair).waiting = p.waiting /\ Known(p, pair).timers = p.timers
         /\ DOMAIN Known(p, pair).facts = DOMAIN p.facts \cup {pair}
<1> DEFINE q == Known(p, pair)
           f == With(p.facts, pair, "now")
<1>1. p \in Records /\ p.facts \in Facts
  BY FineIsRecord DEF Records
<1>2. q = [p EXCEPT !.facts = f]
  BY <1>1 DEF Known, Records
<1>3. f = [x \in DOMAIN f |-> f[x]] /\ DOMAIN f = DOMAIN p.facts \cup {pair} /\ f[pair] = "now"
      /\ \A x \in DOMAIN p.facts : x # pair => f[x] = p.facts[x]
  BY DEF With
<1> HIDE DEF f, q
<1>4. f \in Facts
  BY <1>1, <1>3, FactsTyped, IsFacts
<1>5. q \in Records
  BY <1>1, <1>2, <1>4 DEF Records
<1>6. /\ q.waiting = p.waiting /\ q.facts = f /\ q.failed = p.failed /\ q.timers = p.timers
      /\ q.complete = p.complete /\ q.ended = p.ended /\ q.checked = p.checked
  BY <1>1, <1>2 DEF Records
<1>7. WholeBut(q, {})
  BY <1>3, <1>6 DEF FineBut, WholeBut
<1>8. Settled(q)
  BY <1>3, <1>6 DEF FineBut, Settled, DefaultKnown
<1> QED BY <1>3, <1>5, <1>6, <1>7, <1>8 DEF Fine, FineBut, q

\* took_value: it goes on with a timer, unless nothing is missing and the load is over.
LEMMA TookFine ==
  ASSUME NEW p, Fine(p), NEW pair \in Pairs, NEW indexed \in BOOLEAN
  PROVE  /\ Fine(Took(p, pair, indexed, "now"))
         /\ Took(p, pair, indexed, "now") = p \/ Going(Took(p, pair, indexed, "now"))
         /\ indexed => Going(Took(p, pair, indexed, "now"))
<1> DEFINE c == pair[1]
           i == pair[2]
           heard == HeardFrom(p, c)
           fills == indexed /\ pair \in Gaps(heard)
           got == Got(heard, c, i)
           filled == IF ~fills THEN heard ELSE Filled(got)
           timed == IF StillWaits(p, filled) THEN Timed(filled, "waiting") ELSE filled
           taken == Known(timed, pair)
           q == Completed(taken)
<1>1. c \in Components /\ pair = <<c, i>>
  BY PairTyped
<1>2. Took(p, pair, indexed, "now") = IF ~indexed /\ p.listAwaited THEN p ELSE q
  <2>1. p \in Records
    BY FineIsRecord DEF Fine
  <2>2. heard = [Untimed(p, {"list", "waiting"}) EXCEPT !.listAwaited = FALSE,
                  !.waiting = IF c \in DOMAIN @ THEN @ ELSE With(@, c, [k \in Indices(c) |-> 0])]
    <3>1. Untimed(p, {"list", "waiting"}) \in Records /\ Untimed(p, {"list", "waiting"}).waiting = p.waiting
      BY <2>1, UntimedIs
    <3> QED BY <3>1 DEF HeardFrom, WaitingHeard, Records
  <2> HIDE DEF heard
  <2> QED BY <2>2 DEF Took, Got, Known
<1>3. Fine(heard) /\ FineBut(heard, {pair}) /\ heard.facts = p.facts /\ c \in DOMAIN heard.waiting
  BY <1>1, HeardFine, FineIsFineBut
<1> HIDE DEF heard
<1>4. FineBut(got, {pair}) /\ got.facts = p.facts /\ DOMAIN got.waiting = DOMAIN heard.waiting
  BY <1>1, <1>3, GotFine
<1> HIDE DEF got
<1>5. FineBut(Filled(got), {pair}) /\ SameBut(got, Filled(got))
  BY <1>4, FilledFine
<1>6. FineBut(filled, {pair}) /\ filled.facts = p.facts /\ DOMAIN filled.waiting # {}
  BY <1>3, <1>4, <1>5 DEF SameBut
<1> HIDE DEF fills, filled
<1>7. FineBut(Timed(filled, "waiting"), {pair}) /\ Timed(filled, "waiting").timers # {}
  BY <1>6, TimedFine DEF Timers
<1>8. /\ FineBut(timed, {pair})
      /\ timed.timers # {} \/ (timed = filled /\ Gaps(filled) = {} /\ DefaultKnown(p))
  BY <1>6, <1>7 DEF StillWaits
<1> HIDE DEF timed
<1>9. /\ Fine(taken) /\ taken.waiting = timed.waiting /\ taken.timers = timed.timers
      /\ DOMAIN taken.facts = DOMAIN timed.facts \cup {pair}
  BY <1>8, KnownFine
<1>10. taken.timers # {} \/ (Gaps(taken) = {} /\ DefaultKnown(taken))
  <2>1. CASE timed.timers # {}
    BY <1>9, <2>1
  <2>2. CASE timed = filled /\ Gaps(filled) = {} /\ DefaultKnown(p)
    <3>1. Gaps(taken) = {}
      BY <1>9, <2>2 DEF Gaps, Listed
    <3>2. DefaultKnown(taken)
      BY <1>6, <1>9, <2>2 DEF DefaultKnown
    <3> QED BY <3>1, <3>2
  <2> QED BY <1>8, <2>1, <2>2
<1> HIDE DEF taken
<1>11. Fine(q) /\ Going(q)
  BY <1>9, <1>10, CompletedFine DEF Fine, Going
<1> HIDE DEF q
<1> QED BY <1>2, <1>11

-----------------------------------------------------------------------------
(* A cache with the vehicle's hash, and ArduPilot's file.                  *)

HashStopped(p) == Untimed(p, {"hash"})
HashChecked(p) == [Untimed(HashStopped(p), {"list"}) EXCEPT !.checked = TRUE, !.listAwaited = FALSE]
TookNth(q, n) == Took(Answered(q, <<Default, n>>), <<Default, n>>, TRUE, IF cache = "same" THEN "now" ELSE "then")

\* What the recursive function of HashAnswered is chosen for.
IsTaking(taking, p, N) ==
  taking = [n \in 0 .. N |-> IF n = 0 THEN HashChecked(p) ELSE TookNth(taking[n - 1], n - 1)]

LEMMA HashAnsweredIs ==
  ASSUME NEW p
  PROVE  HashAnswered(p) =
           IF p.complete THEN HashStopped(p)
           ELSE IF cache = "same" THEN (CHOOSE taking : IsTaking(taking, p, Count[Default]))[Count[Default]]
           ELSE HashCheckFailed(HashStopped(p))
BY DEF HashAnswered, HashStopped, HashChecked, TookNth, IsTaking

\* There is such a function: there is no least number of values without one.
LEMMA TakingExists ==
  ASSUME NEW p, NEW N \in Nat
  PROVE  \E taking : IsTaking(taking, p, N)
<1> DEFINE S == {m \in Nat : ~\E taking : IsTaking(taking, p, m)}
<1>1. SUFFICES ASSUME S # {} PROVE FALSE
  OBVIOUS
<1>2. PICK m \in S : \A k \in S : m <= k
  <2>1. S \subseteq Nat
    OBVIOUS
  <2> HIDE DEF S
  <2> QED BY <1>1, <2>1, LeastOfSome
<1>3. m \in Nat /\ ~\E taking : IsTaking(taking, p, m)
  BY <1>2
<1>4. CASE m = 0
  <2> DEFINE t == [n \in 0 .. 0 |-> HashChecked(p)]
  <2>1. t = [n \in 0 .. 0 |-> IF n = 0 THEN HashChecked(p) ELSE TookNth(t[n - 1], n - 1)]
    OBVIOUS
  <2>2. IsTaking(t, p, m)
    BY <1>4, <2>1 DEF IsTaking
  <2> QED BY <1>3, <2>2
<1>5. CASE m # 0
  <2>1. m - 1 \in Nat /\ m - 1 \notin S
    <3> HIDE DEF S
    <3> QED BY <1>2, <1>3, <1>5
  <2>2. PICK t : IsTaking(t, p, m - 1)
    BY <2>1
  <2> DEFINE u == [n \in 0 .. m |-> IF n = m THEN TookNth(t[m - 1], m - 1) ELSE t[n]]
  <2>3. ASSUME NEW n \in 0 .. m PROVE u[n] = IF n = 0 THEN HashChecked(p) ELSE TookNth(u[n - 1], n - 1)
    <3>1. CASE n = m
      <4>1. n # 0 /\ n - 1 = m - 1 /\ n - 1 \in 0 .. m /\ n - 1 # m
        BY <1>3, <1>5, <3>1
      <4>2. u[n - 1] = t[m - 1] /\ u[n] = TookNth(t[m - 1], m - 1)
        BY <3>1, <4>1
      <4> QED BY <4>1, <4>2
    <3>2. CASE n # m
      <4>1. n \in 0 .. m - 1
        BY <1>3, <3>2
      <4>2. t[n] = IF n = 0 THEN HashChecked(p) ELSE TookNth(t[n - 1], n - 1)
        BY <2>2, <4>1 DEF IsTaking
      <4>3. u[n] = t[n]
        BY <3>2
      <4>4. n # 0 => n - 1 \in 0 .. m /\ n - 1 # m
        BY <1>3, <4>1
      <4>5. n # 0 => u[n - 1] = t[n - 1]
        BY <4>4
      <4> QED BY <4>2, <4>3, <4>5
    <3> QED BY <3>1, <3>2
  <2>4. u = [n \in 0 .. m |-> u[n]]
    OBVIOUS
  <2> HIDE DEF u
  <2>5. IsTaking(u, p, m)
    BY <2>3, <2>4 DEF IsTaking
  <2> QED BY <1>3, <2>5
<1> QED BY <1>4, <1>5

LEMMA HashCheckedFine ==
  ASSUME NEW p, Fine(p)
  PROVE  Fine(HashStopped(p)) /\ "hash" \notin HashStopped(p).timers /\ Fine(HashChecked(p))
<1>1. Fine(HashStopped(p)) /\ "hash" \notin HashStopped(p).timers
  BY UntimedFine, FineIsRecord, UntimedIs DEF Fine, HashStopped
<1> DEFINE u == Untimed(HashStopped(p), {"list"})
           r == [u EXCEPT !.listAwaited = FALSE]
<1>2. FineBut(u, {}) /\ u \in Records /\ "hash" \notin u.timers
  BY <1>1, UntimedFine, UntimedIs, FineIsRecord DEF Fine
<1>3. HashChecked(p) = [u EXCEPT !.checked = TRUE, !.listAwaited = FALSE]
  BY DEF HashChecked
<1> HIDE DEF u
<1>4. HashChecked(p) \in Records /\ Alike(u, HashChecked(p))
  BY <1>2, <1>3 DEF Records, Alike
<1>5. Fine(HashChecked(p))
  BY <1>2, <1>4, AlikeFine DEF Fine
<1> QED BY <1>1, <1>5

\* Whatever came of the cache before, the next value keeps the parameters fine.
LEMMA TookNthFine ==
  ASSUME cache = "same", NEW q, Fine(q), NEW n \in Indices(Default)
  PROVE  Fine(TookNth(q, n)) /\ Going(TookNth(q, n))
<1>1. <<Default, n>> \in Pairs
  BY LoadAssumption, IndicesAreNat
<1>2. Fine(Answered(q, <<Default, n>>))
  BY AnsweredFine
<1> QED BY <1>1, <1>2, TookFine DEF TookNth

LEMMA TakingFine ==
  ASSUME cache = "same", NEW p, Fine(p), NEW taking, IsTaking(taking, p, Count[Default])
  PROVE  Fine(taking[Count[Default]]) /\ Going(taking[Count[Default]])
<1> DEFINE N == Count[Default]
           S == {m \in 0 .. N : ~Fine(taking[m])}
<1>1. N \in Nat \ {0}
  BY LoadAssumption
<1>2. \A n \in 0 .. N : taking[n] = IF n = 0 THEN HashChecked(p) ELSE TookNth(taking[n - 1], n - 1)
  BY DEF IsTaking
<1>3. \A n \in 0 .. N : n # 0 => n - 1 \in Indices(Default) /\ n - 1 \in 0 .. N
  BY <1>1 DEF Indices
<1> HIDE DEF N
<1>4. S = {}
  <2> SUFFICES ASSUME S # {} PROVE FALSE
    OBVIOUS
  <2>1. PICK m \in S : \A k \in S : m <= k
    <3>1. S \subseteq Nat
      BY <1>1
    <3> HIDE DEF S
    <3> QED BY <3>1, LeastOfSome
  <2>2. m \in 0 .. N /\ ~Fine(taking[m])
    BY <2>1
  <2>3. m # 0
    BY <1>2, <2>2, HashCheckedFine
  <2>4. m - 1 \in Indices(Default) /\ m - 1 \in 0 .. N
    BY <1>3, <2>2, <2>3
  <2>5. m - 1 \notin S
    <3> HIDE DEF S
    <3> QED BY <1>1, <2>1, <2>2
  <2>6. Fine(taking[m - 1])
    BY <2>4, <2>5
  <2> QED BY <1>2, <2>2, <2>3, <2>4, <2>6, TookNthFine
<1>5. N \in 0 .. N /\ N # 0
  BY <1>1
<1>6. N - 1 \in Indices(Default) /\ Fine(taking[N - 1])
  BY <1>3, <1>4, <1>5
<1>7. taking[N] = TookNth(taking[N - 1], N - 1)
  BY <1>2, <1>5
<1>8. Fine(taking[N]) /\ Going(taking[N])
  BY <1>6, <1>7, TookNthFine
<1> QED BY <1>8 DEF N

\* hash_answered.
LEMMA HashAnsweredFine ==
  ASSUME NEW p, Fine(p), NEW file, CarriedOn(p, file)
  PROVE  Fine(HashAnswered(p)) /\ CarriedOn(HashAnswered(p), file)
<1> DEFINE stopped == HashStopped(p)
           taking == CHOOSE taking : IsTaking(taking, p, Count[Default])
<1>1. HashAnswered(p) = IF p.complete THEN stopped
                        ELSE IF cache = "same" THEN taking[Count[Default]] ELSE HashCheckFailed(stopped)
  BY HashAnsweredIs
<1>2. Fine(stopped) /\ "hash" \notin stopped.timers
  BY HashCheckedFine
<1>3. p \in Records /\ FineBut(p, {})
  BY FineIsRecord DEF Fine
<1>4. /\ stopped.timers = p.timers \ {"hash"} /\ stopped.checked = p.checked /\ stopped.ended = p.ended
      /\ stopped.waiting = p.waiting /\ stopped.facts = p.facts
  BY <1>3, UntimedIs DEF HashStopped
<1> HIDE DEF stopped
<1>5. CASE p.complete
  <2>1. Going(stopped)
    BY <1>3, <1>4, <1>5 DEF FineBut, Settled, Going
  <2> QED BY <1>1, <1>2, <1>5, <2>1, GoingIsCarried
<1>6. CASE ~p.complete /\ cache = "same"
  <2>1. \E t : IsTaking(t, p, Count[Default])
    BY LoadAssumption, TakingExists
  <2>2. IsTaking(taking, p, Count[Default])
    BY <2>1
  <2> HIDE DEF taking
  <2>3. Fine(taking[Count[Default]]) /\ Going(taking[Count[Default]])
    BY <1>6, <2>2, TakingFine
  <2> QED BY <1>1, <1>6, <2>3, GoingIsCarried
<1>7. CASE ~p.complete /\ cache # "same"
  <2>1. HashAnswered(p) = HashCheckFailed(stopped)
    BY <1>1, <1>7
  <2>2. Fine(HashCheckFailed(stopped)) /\ (~stopped.checked => Going(HashCheckFailed(stopped)))
    BY <1>2, HashCheckFailedFine
  <2>3. CASE ~stopped.checked
    BY <2>1, <2>2, <2>3, GoingIsCarried
  <2>4. CASE stopped.checked
    <3>1. HashCheckFailed(stopped) = stopped
      BY <2>4 DEF HashCheckFailed
    <3>2. "hash" \notin p.timers
      BY <1>3, <1>4, <2>4 DEF FineBut, Settled
    <3>3. stopped.timers = p.timers
      BY <1>4, <3>2
    <3>4. CarriedOn(stopped, file)
      BY <1>4, <3>3 DEF CarriedOn, Listed, DefaultKnown
    <3> QED BY <2>1, <2>2, <3>1, <3>4
  <2> QED BY <2>3, <2>4
<1> QED BY <1>5, <1>6, <1>7

\* load_pack: all of the autopilot's is known.
LEMMA PackLoadedFine ==
  ASSUME NEW p, Fine(p)
  PROVE  Fine(PackLoaded(p))
<1> DEFINE all == {<<Default, i>> : i \in Indices(Default)}
           u == Untimed(p, {"list"})
           f == [pair \in DOMAIN u.facts \cup all |-> IF pair \in all THEN "now" ELSE u.facts[pair]]
           w == With(u.waiting, Default, None)
           q == [u EXCEPT !.facts = f, !.waiting = w, !.listAwaited = FALSE]
<1>1. FineBut(u, {}) /\ u \in Records
  BY UntimedFine, FineIsRecord DEF Fine
<1>2. PackLoaded(p) = Completed(q)
  <2>1. PackLoaded(p) = Completed([u EXCEPT
            !.facts = [pair \in DOMAIN @ \cup all |-> IF pair \in all THEN "now" ELSE @[pair]],
            !.waiting = With(@, Default, None), !.listAwaited = FALSE])
    BY DEF PackLoaded
  <2> HIDE DEF u
  <2> QED BY <1>1, <2>1 DEF Records
<1>3. u.facts \in Facts /\ u.waiting \in Waits
  BY <1>1 DEF Records
<1>4. Default \in Components /\ all \subseteq Pairs /\ \A i \in Indices(Default) : <<Default, i>> \in all
  BY LoadAssumption, IndicesAreNat
<1>5. /\ f = [x \in DOMAIN f |-> f[x]] /\ DOMAIN f = DOMAIN u.facts \cup all
      /\ \A x \in DOMAIN f : f[x] = "now"
  BY <1>3, FactsTyped
<1>6. w = [x \in DOMAIN w |-> w[x]] /\ DOMAIN w = DOMAIN u.waiting \cup {Default}
      /\ \A x \in DOMAIN u.waiting : x # Default => w[x] = u.waiting[x]
  BY DEF With
<1> HIDE DEF all, u, f, w, q
<1>7. f \in Facts
  <2>1. DOMAIN f \subseteq Pairs
    BY <1>3, <1>4, <1>5, FactsTyped
  <2> QED BY <1>5, <2>1, IsFacts
<1>8. None \in Gapped /\ DOMAIN None \subseteq Indices(Default)
  <2>1. None = [i \in DOMAIN None |-> None[i]] /\ DOMAIN None = {}
    BY DEF None
  <2> QED BY <2>1, IsGapped
<1>9. w \in Waits
  BY <1>3, <1>4, <1>8, WithWaiting DEF w
<1>10. q \in Records
  BY <1>1, <1>7, <1>9 DEF Records, q
<1>11. /\ q.waiting = w /\ q.facts = f /\ q.failed = u.failed /\ q.timers = u.timers
       /\ q.complete = u.complete /\ q.ended = u.ended /\ q.checked = u.checked
  BY <1>1 DEF Records, q
<1>12. ASSUME NEW c \in DOMAIN w, NEW i \in Indices(c)
       PROVE  i \in DOMAIN w[c] \/ <<c, i>> \in DOMAIN f \/ <<c, i>> \in u.failed
  <2>1. CASE c = Default
    BY <1>4, <1>5, <2>1
  <2>2. CASE c # Default
    BY <1>1, <1>5, <1>6, <2>2 DEF FineBut, WholeBut
  <2> QED BY <2>1, <2>2
<1>13. WholeBut(q, {})
  BY <1>11, <1>12 DEF WholeBut
<1>14. Settled(q)
  BY <1>1, <1>5, <1>6, <1>11 DEF FineBut, Settled, DefaultKnown
<1> QED BY <1>2, <1>10, <1>13, <1>14, CompletedFine DEF Fine, FineBut

-----------------------------------------------------------------------------
(* The invariant of the load.                                              *)

LEMMA SentOffFine ==
  ASSUME NEW p, Fine(p), NEW file, CarriedOn(p, file)
  PROVE  /\ Fine(SentOff(p)) /\ CarriedOn(SentOff(p), file)
         /\ ~SentOff(p).asksList /\ ~SentOff(p).asksHash /\ SentOff(p).asks = {}
<1> DEFINE q == SentOff(p)
<1>1. p \in Records /\ FineBut(p, {})
  BY FineIsRecord DEF Fine
<1>2. q \in Records /\ LeftAlone(p, q) /\ ~q.asksList /\ ~q.asksHash /\ q.asks = {}
  BY <1>1 DEF SentOff, Records, LeftAlone, Alike
<1> HIDE DEF q
<1>3. FineBut(q, {})
  BY <1>1, <1>2, AlikeFine DEF LeftAlone
<1>4. CarriedOn(q, file)
  BY <1>2, LeftAloneIsCarried
<1> QED BY <1>2, <1>3, <1>4 DEF Fine, q

LEMMA AnswersTyped ==
  ASSUME NEW p
  PROVE  Answers(p) \subseteq Pairs
BY DEF Answers

LEMMA AnswersHashTyped ==
  ASSUME NEW p \in Records, px4 \in BOOLEAN
  PROVE  AnswersHash(p) \in BOOLEAN
BY DEF AnswersHash, Records

\* However a handler ends, when what it made of the parameters is fine.
LEMMA FollowInv ==
  ASSUME LoadInv, NEW next, Fine(next), NEW left \in SUBSET Pairs, NEW hashLeft \in BOOLEAN,
         Follow(next, left, hashLeft), UNCHANGED nature, byFile' \in BOOLEAN, turns' \in 0 .. MaxTurns,
         CarriedOn(next, byFile')
  PROVE  LoadInv'
<1>1. /\ params' = SentOff(next) /\ coming' = left \cup Answers(next)
      /\ hashing' = (hashLeft \/ AnswersHash(next))
  BY DEF Follow
<1>2. /\ Fine(params') /\ CarriedOn(params', byFile')
      /\ ~params'.asksList /\ ~params'.asksHash /\ params'.asks = {}
  BY <1>1, SentOffFine
<1>3. coming' \subseteq Pairs
  BY <1>1, AnswersTyped
<1>4. hashing' \in BOOLEAN
  BY <1>1
<1>5. px4' = px4 /\ silent' = silent /\ cache' = cache
  BY DEF nature
<1>6. Fine(params)'
  BY <1>2 DEF Fine, FineBut, WholeBut, Settled, DefaultKnown, Records, Waits, Facts, Reads, Queues, Gapped, Tries, Timers,
              Indices, Pairs
<1>7. CarriedOn(params, byFile)'
  BY <1>2 DEF CarriedOn, Listed, DefaultKnown, Indices
<1> QED BY <1>2, <1>3, <1>4, <1>5, <1>6, <1>7 DEF LoadInv

LEMMA InitInv == LoadInit => LoadInv
<1> SUFFICES ASSUME LoadInit PROVE LoadInv
  OBVIOUS
<1>1. Fine(NewParams)
  <2>1. None = [x \in DOMAIN None |-> None[x]] /\ DOMAIN None = {}
    BY DEF None
  <2>2. None \in Facts /\ None \in Reads
    BY <2>1, IsFacts, IsReads
  <2> DEFINE w == [c \in {} |-> None]
  <2>3. w \in Waits
    <3>1. w = [c \in DOMAIN w |-> w[c]] /\ DOMAIN w = {}
      OBVIOUS
    <3> HIDE DEF w
    <3> QED BY <3>1, IsWaits
  <2>4. {} \in Queues
    <3>1. IsFiniteSet({}) /\ Cardinality({}) = 0 /\ MaxBatch \in Nat
      BY FS_EmptySet, LoadAssumption
    <3>2. Cardinality({}) <= MaxBatch + 1
      BY <3>1
    <3> QED BY <3>1, <3>2 DEF Queues
  <2>5. MaxListRetry \in Nat /\ 0 \in 0 .. MaxListRetry + 1
    BY LoadAssumption
  <2>6. NewParams.waiting = w /\ ~NewParams.complete /\ NewParams.timers = {} /\ ~NewParams.checked
    BY DEF NewParams
  <2>7. DOMAIN NewParams.waiting = {}
    BY <2>6
  <2> HIDE DEF w
  <2>8. NewParams \in Records
    BY <2>2, <2>3, <2>4, <2>5 DEF NewParams, Records, w
  <2> QED BY <2>6, <2>7, <2>8 DEF Fine, FineBut, WholeBut, Settled
<1>2. PICK p \in {IF byFile THEN NewParams ELSE Refreshed(NewParams)}
                 \cup IF px4 THEN {StartedCacheOnly(NewParams)} ELSE {} :
        params = SentOff(p) /\ coming = Answers(p) /\ hashing = AnswersHash(p)
  BY DEF LoadInit
<1>3. px4 \in BOOLEAN /\ silent \in Silences /\ cache \in {"same", "other"} /\ byFile \in BOOLEAN /\ turns = 0
  BY DEF LoadInit
<1>4. /\ Fine(Refreshed(NewParams)) /\ CarriedOn(Refreshed(NewParams), byFile)
      /\ Fine(StartedCacheOnly(NewParams)) /\ CarriedOn(StartedCacheOnly(NewParams), byFile)
  BY <1>1, RefreshedFine, StartedCacheOnlyFine, GoingIsCarried
<1>5. byFile => CarriedOn(NewParams, byFile)
  BY DEF CarriedOn
<1>6. Fine(p) /\ CarriedOn(p, byFile)
  BY <1>1, <1>2, <1>4, <1>5
<1>7. coming \subseteq Pairs
  BY <1>2, AnswersTyped
<1>8. hashing \in BOOLEAN
  BY <1>2, <1>3, <1>6, AnswersHashTyped, FineIsRecord DEF Fine
<1>9. turns \in 0 .. MaxTurns
  BY <1>3, LoadAssumption
<1>10. /\ Fine(params) /\ CarriedOn(params, byFile)
       /\ ~params.asksList /\ ~params.asksHash /\ params.asks = {}
  BY <1>2, <1>6, SentOffFine
<1> QED BY <1>3, <1>7, <1>8, <1>9, <1>10 DEF LoadInv

\* on_param_value keeps the load carried on: a value that is taken has its own timer, and
\* one that is not leaves things as they are.
LEMMA TakenFine ==
  ASSUME LoadInv, NEW pair \in Pairs, NEW indexed \in BOOLEAN
  PROVE  Fine(Taken(pair, indexed)) /\ CarriedOn(Taken(pair, indexed), byFile)
<1> DEFINE p == IF indexed THEN Answered(params, pair) ELSE params
           q == Took(p, pair, indexed, "now")
<1>1. Fine(params) /\ CarriedOn(params, byFile)
  BY DEF LoadInv
<1>2. Fine(Answered(params, pair)) /\ CarriedOn(Answered(params, pair), byFile)
  BY <1>1, AnsweredFine, LeftAloneIsCarried
<1>3. Taken(pair, indexed) \in {p, q}
  BY DEF Taken
<1>4. Fine(p) /\ CarriedOn(p, byFile)
  BY <1>1, <1>2
<1> HIDE DEF p
<1>5. Fine(q) /\ (q = p \/ Going(q))
  BY <1>4, TookFine
<1> HIDE DEF q
<1>6. CarriedOn(q, byFile)
  BY <1>4, <1>5, GoingIsCarried
<1> QED BY <1>3, <1>4, <1>5, <1>6

LEMMA StepInv ==
  LoadInv /\ [LoadNext]_loadVars => LoadInv'
<1> SUFFICES ASSUME LoadInv, [LoadNext]_loadVars PROVE LoadInv'
  OBVIOUS
<1>1. /\ Fine(params) /\ CarriedOn(params, byFile) /\ coming \in SUBSET Pairs /\ byFile \in BOOLEAN
      /\ hashing \in BOOLEAN /\ turns \in 0 .. MaxTurns
  BY DEF LoadInv
<1>2. Turn => turns' \in 0 .. MaxTurns
  BY <1>1, LoadAssumption DEF Turn
<1>3. Same => UNCHANGED nature /\ byFile' = byFile /\ byFile' \in BOOLEAN /\ turns' \in 0 .. MaxTurns
  BY <1>1 DEF Same
<1>4. CASE HashArrives
  <2>1. Follow(HashAnswered(params), coming, FALSE) /\ Same
    BY <1>4 DEF HashArrives
  <2>2. Fine(HashAnswered(params)) /\ CarriedOn(HashAnswered(params), byFile)
    BY <1>1, HashAnsweredFine
  <2> QED BY <1>1, <1>3, <2>1, <2>2, FollowInv
<1>5. CASE ListTimer
  <2>1. Follow(ListTimedOut(params), coming, hashing) /\ Same
    BY <1>5 DEF ListTimer
  <2>2. Fine(ListTimedOut(params)) /\ CarriedOn(ListTimedOut(params), byFile)
    BY <1>1, ListTimedOutFine, GoingIsCarried
  <2> QED BY <1>1, <1>3, <2>1, <2>2, FollowInv
<1>6. CASE HashTimer
  <2>1. Follow(HashTimedOut(params), coming, hashing) /\ Same
    BY <1>6 DEF HashTimer
  <2>2. Fine(HashTimedOut(params)) /\ CarriedOn(HashTimedOut(params), byFile)
    BY <1>1, HashTimedOutFine, GoingIsCarried
  <2> QED BY <1>1, <1>3, <2>1, <2>2, FollowInv
<1>7. CASE WaitingTimer
  <2>1. "waiting" \in params.timers /\ Follow(WaitingTimedOut(params), coming, hashing) /\ Same
    BY <1>7 DEF WaitingTimer
  <2>2. Fine(WaitingTimedOut(params)) /\ CarriedOn(WaitingTimedOut(params), byFile)
    BY <1>1, <2>1, WaitingTimedOutFine
  <2> QED BY <1>1, <1>3, <2>1, <2>2, FollowInv
<1>8. CASE FileEnds
  <2>1. UNCHANGED nature /\ turns' \in 0 .. MaxTurns
    BY <1>1, <1>8 DEF FileEnds
  <2>2. CASE byFile' = TRUE /\ \E p \in {PackLoaded(params), NoResponse(params)} : Follow(p, coming, hashing)
    <3>1. PICK p \in {PackLoaded(params), NoResponse(params)} : Follow(p, coming, hashing)
      BY <2>2
    <3>2. Fine(PackLoaded(params)) /\ Fine(NoResponse(params))
      BY <1>1, PackLoadedFine, NoResponseFine
    <3>3. CarriedOn(p, byFile') /\ byFile' \in BOOLEAN
      BY <2>2 DEF CarriedOn
    <3> QED BY <1>1, <2>1, <3>1, <3>2, <3>3, FollowInv
  <2>3. CASE byFile' = FALSE /\ \E p \in {ListTimedOut(params), Timed(params, "file")} : Follow(p, coming, hashing)
    <3>1. PICK p \in {ListTimedOut(params), Timed(params, "file")} : Follow(p, coming, hashing)
      BY <2>3
    <3>2. Fine(ListTimedOut(params)) /\ Going(ListTimedOut(params))
      BY <1>1, ListTimedOutFine
    <3>3. Fine(Timed(params, "file")) /\ Going(Timed(params, "file"))
      BY <1>1, TimedFine DEF Fine, Going, Timers
    <3>4. CarriedOn(p, byFile') /\ byFile' \in BOOLEAN /\ Fine(p)
      BY <2>3, <3>1, <3>2, <3>3, GoingIsCarried
    <3> QED BY <1>1, <2>1, <3>1, <3>4, FollowInv
  <2> QED BY <1>8, <2>2, <2>3 DEF FileEnds
<1>9. CASE FileTimer
  <2>1. Follow(ListTimedOut(Untimed(params, {"file"})), coming, hashing) /\ Same
    BY <1>9 DEF FileTimer
  <2> DEFINE p == Untimed(params, {"file"})
  <2>2. Fine(p)
    BY <1>1, UntimedFine DEF Fine
  <2> HIDE DEF p
  <2>3. Fine(ListTimedOut(p)) /\ CarriedOn(ListTimedOut(p), byFile)
    BY <2>2, ListTimedOutFine, GoingIsCarried
  <2> QED BY <1>1, <1>3, <2>1, <2>3, FollowInv DEF p
<1>10. CASE Reload
  <2>1. Turn /\ Follow(Refreshed(params), coming, hashing) /\ UNCHANGED nature /\ byFile' = byFile
    BY <1>10 DEF Reload
  <2>2. Fine(Refreshed(params)) /\ CarriedOn(Refreshed(params), byFile)
    BY <1>1, RefreshedFine, GoingIsCarried
  <2> QED BY <1>1, <1>2, <2>1, <2>2, FollowInv
<1>11. CASE HashLost
  <2>1. Turn /\ Follow(params, coming, FALSE) /\ UNCHANGED nature /\ byFile' = byFile
    BY <1>11 DEF HashLost
  <2> QED BY <1>1, <1>2, <2>1, FollowInv
<1>12. ASSUME NEW pair \in Pairs, ValueArrives(pair) PROVE LoadInv'
  <2>1. Follow(Taken(pair, TRUE), coming \ {pair}, hashing) /\ Same
    BY <1>12 DEF ValueArrives
  <2>2. Fine(Taken(pair, TRUE)) /\ CarriedOn(Taken(pair, TRUE), byFile)
    BY TakenFine
  <2>3. coming \ {pair} \in SUBSET Pairs
    BY <1>1
  <2> QED BY <1>1, <1>3, <2>1, <2>2, <2>3, FollowInv
<1>13. ASSUME NEW pair \in Pairs, ReadTimer(pair) PROVE LoadInv'
  <2>1. pair \in DOMAIN params.reads /\ Follow(ReadTimedOut(params, pair), coming, hashing) /\ Same
    BY <1>13 DEF ReadTimer
  <2>2. Fine(ReadTimedOut(params, pair)) /\ CarriedOn(ReadTimedOut(params, pair), byFile)
    BY <1>1, <2>1, ReadTimedOutFine, LeftAloneIsCarried
  <2> QED BY <1>1, <1>3, <2>1, <2>2, FollowInv
<1>14. ASSUME NEW pair \in Pairs, ValueLost(pair) PROVE LoadInv'
  <2>1. /\ Turn /\ UNCHANGED nature /\ byFile' = byFile
        /\ \E p \in {params, Answered(params, pair)} : Follow(p, coming \ {pair}, hashing)
    BY <1>14 DEF ValueLost
  <2>2. PICK p \in {params, Answered(params, pair)} : Follow(p, coming \ {pair}, hashing)
    BY <2>1
  <2>3. Fine(p) /\ CarriedOn(p, byFile)
    BY <1>1, <2>2, AnsweredFine, LeftAloneIsCarried
  <2>4. coming \ {pair} \in SUBSET Pairs
    BY <1>1
  <2> QED BY <1>1, <1>2, <2>1, <2>2, <2>3, <2>4, FollowInv
<1>15. ASSUME NEW pair \in Pairs, Repeated(pair) PROVE LoadInv'
  <2>1. Turn /\ Follow(Taken(pair, TRUE), coming, hashing) /\ UNCHANGED nature /\ byFile' = byFile
    BY <1>15 DEF Repeated
  <2>2. Fine(Taken(pair, TRUE)) /\ CarriedOn(Taken(pair, TRUE), byFile)
    BY TakenFine
  <2> QED BY <1>1, <1>2, <2>1, <2>2, FollowInv
<1>16. ASSUME NEW pair \in Pairs, Unasked(pair) PROVE LoadInv'
  <2>1. Turn /\ Follow(Taken(pair, FALSE), coming, hashing) /\ UNCHANGED nature /\ byFile' = byFile
    BY <1>16 DEF Unasked
  <2>2. Fine(Taken(pair, FALSE)) /\ CarriedOn(Taken(pair, FALSE), byFile)
    BY TakenFine
  <2> QED BY <1>1, <1>2, <2>1, <2>2, FollowInv
<1>17. CASE UNCHANGED loadVars
  <2>1. /\ px4' = px4 /\ silent' = silent /\ cache' = cache /\ params' = params /\ byFile' = byFile
        /\ coming' = coming /\ hashing' = hashing /\ turns' = turns
    BY <1>17 DEF loadVars, nature
  <2> QED BY <2>1 DEF LoadInv, Fine, FineBut, WholeBut, Settled, CarriedOn, Listed, DefaultKnown
<1> QED BY <1>4, <1>5, <1>6, <1>7, <1>8, <1>9, <1>10, <1>11, <1>12, <1>13, <1>14, <1>15, <1>16, <1>17 DEF LoadNext

LEMMA LoadAlwaysInv == LoadSpec => []LoadInv
BY InitInv, StepInv, PTL DEF LoadSpec

LEMMA InvIsWhole == LoadInv => LoadIsWhole
<1> SUFFICES ASSUME LoadInv PROVE LoadIsWhole
  OBVIOUS
<1>1. Fine(params) /\ CarriedOn(params, byFile)
  BY DEF LoadInv
<1>2. params \in Records /\ WholeBut(params, {}) /\ Settled(params)
  BY <1>1 DEF Fine, FineBut
<1>3. \A x \in DOMAIN params.facts : params.facts[x] = "now"
  BY <1>2, FactsTyped DEF Records
<1>4. \A c \in Listed(params) : \A i \in Indices(c) :
        \/ i \in DOMAIN params.waiting[c]
        \/ <<c, i>> \in DOMAIN params.facts /\ params.facts[<<c, i>>] = "now"
        \/ <<c, i>> \in params.failed
  BY <1>2, <1>3 DEF WholeBut, Listed
<1>5. params.complete => DefaultKnown(params) /\ params.ended
  BY <1>2 DEF Settled
<1>6. ~params.ended => UnderWay \/ (Listed(params) # {} /\ ~DefaultKnown(params))
  BY <1>1 DEF CarriedOn, UnderWay
<1> QED BY <1>4, <1>5, <1>6 DEF LoadIsWhole

LEMMA InvIsTyped == LoadInv => LoadTypeOK
<1> SUFFICES ASSUME LoadInv PROVE LoadTypeOK
  OBVIOUS
<1>1. params \in Records
  BY FineIsRecord DEF LoadInv, Fine
<1>2. /\ params.waiting \in Waits /\ params.facts \in Facts /\ params.reads \in Reads /\ params.queue \in Queues
      /\ params.failed \subseteq Pairs /\ params.timers \subseteq {"list", "hash", "waiting", "file"}
      /\ params.listRetry \in 0 .. MaxListRetry + 1
  BY <1>1 DEF Records, Timers
<1>3. Listed(params) \subseteq Components /\ DOMAIN params.facts \subseteq Pairs /\ DOMAIN params.reads \subseteq Pairs
  BY <1>2, WaitsTyped, FactsTyped, ReadsTyped DEF Listed
<1>4. ASSUME NEW c \in Listed(params), NEW i \in DOMAIN params.waiting[c]
      PROVE  i \in Indices(c) /\ params.waiting[c][i] \in 0 .. MaxGapRetry
  <2>1. params.waiting[c] \in Gapped /\ DOMAIN params.waiting[c] \subseteq Indices(c)
    BY <1>2, WaitsTyped DEF Listed
  <2> QED BY <2>1, GappedTyped DEF Tries
<1>5. \A pair \in DOMAIN params.reads : params.reads[pair] \in 1 .. MaxReread + 1
  BY <1>2, ReadsTyped
<1>6. Cardinality(params.queue) <= MaxBatch + 1
  BY <1>2 DEF Queues
<1> QED BY <1>2, <1>3, <1>4, <1>5, <1>6 DEF LoadInv, LoadTypeOK

\* The load never leaves its types: the queue of params.rs holds at most one index more than
\* a batch, and no gap is asked for more often than its retries allow.
THEOREM LoadTypeCorrect == LoadSpec => []LoadTypeOK
BY LoadAlwaysInv, InvIsTyped, PTL

\* Whatever is lost, refused, late, repeated or refreshed, and in whatever order it comes, each
\* parameter of a component that was heard is waited for, known as the vehicle has it or given
\* up, ready parameters have the autopilot's, and a load that is not over is carried on
\* (took_value, fill_batch_queue, on_waiting_timeout, hash_answered, load_pack).
THEOREM LoadsAreWhole == LoadSpec => []LoadIsWhole
BY LoadAlwaysInv, InvIsWhole, PTL

-----------------------------------------------------------------------------
(* The links of a vehicle (VehicleLinks).                                  *)

Places == UNION {[S -> Nat] : S \in SUBSET Carriers}
Vehicles ==
  [present : {TRUE}, heard : Places, lost : SUBSET Carriers,
   primary : Carriers \cup {NoLink}, sendsOn : Carriers,
   lostAll : BOOLEAN, watching : BOOLEAN, auto : BOOLEAN, pending : BOOLEAN,
   control : [Carriers -> {"none", "start", "stop"}]]

\* A vehicle between two choices of its primary link.
Whole(v) ==
  /\ v \in Vehicles
  /\ v.lost \cap {l \in Carriers : "high latency" \in kind[l]} = {}
  /\ v.primary # NoLink => v.sendsOn = v.primary

\* A vehicle whose primary link has been chosen.
Chosen(v) ==
  /\ v.primary \in DOMAIN v.heard \cup {NoLink}
  /\ Live(v) # {} => v.primary \in Live(v)

Sound(v) == Whole(v) /\ Chosen(v) /\ v.sendsOn \in DOMAIN v.heard

KindsKnown == kind \in [Carriers -> SUBSET {"cloud", "usb", "high latency"}]

LinksIInv ==
  /\ KindsKnown
  /\ known \subseteq Carriers /\ seen.open \subseteq Carriers
  /\ vehicle = NoVehicle \/ Sound(vehicle)

-----------------------------------------------------------------------------
(* The links of a vehicle and their order.                                 *)

LEMMA HeardIsTyped ==
  ASSUME NEW v \in Vehicles
  PROVE  /\ DOMAIN v.heard \subseteq Carriers
         /\ v.heard \in [DOMAIN v.heard -> Nat]
         /\ IsFiniteSet(DOMAIN v.heard) /\ Cardinality(DOMAIN v.heard) \in Nat
<1>1. PICK S \in SUBSET Carriers : v.heard \in [S -> Nat]
  BY DEF Vehicles, Places
<1>2. S = DOMAIN v.heard
  BY <1>1
<1>3. IsFiniteSet(S)
  BY FS_Subset, LinksAssumption
<1> QED BY <1>1, <1>2, <1>3, FS_CardinalityType

LEMMA AfterIsTyped ==
  ASSUME NEW v \in Vehicles, NEW l \in Carriers
  PROVE  After(v.heard, l) \in Places /\ DOMAIN After(v.heard, l) = DOMAIN v.heard \cup {l}
<1>1. After(v.heard, l) \in [DOMAIN v.heard \cup {l} -> Nat]
  BY HeardIsTyped DEF After
<1> QED BY <1>1, HeardIsTyped DEF Places

LEMMA KeptIsTyped ==
  ASSUME NEW v \in Vehicles, NEW links
  PROVE  Kept(v.heard, links) \in Places /\ DOMAIN Kept(v.heard, links) = DOMAIN v.heard \cap links
<1> DEFINE Precedes(m) == {k \in DOMAIN v.heard \cap links : v.heard[k] < v.heard[m]}
<1>1. ASSUME NEW m \in DOMAIN v.heard \cap links
      PROVE  Cardinality(Precedes(m)) \in Nat
  <2>1. Precedes(m) \in SUBSET DOMAIN v.heard
    OBVIOUS
  <2>2. IsFiniteSet(Precedes(m))
    BY <2>1, HeardIsTyped, FS_Subset
  <2> QED BY <2>2, FS_CardinalityType
<1>2. Kept(v.heard, links) = [m \in DOMAIN v.heard \cap links |-> Cardinality(Precedes(m))]
  BY DEF Kept
<1>3. Kept(v.heard, links) \in [DOMAIN v.heard \cap links -> Nat]
  BY <1>1, <1>2
<1> QED BY <1>3, HeardIsTyped DEF Places

\* The places are numbers, so among some links one is the first.
LEMMA FirstOfIsOne ==
  ASSUME NEW v \in Vehicles, NEW links
  PROVE  IF links \cap DOMAIN v.heard = {}
         THEN FirstOf(v, links) = NoLink
         ELSE FirstOf(v, links) \in links \cap DOMAIN v.heard
<1>1. CASE links \cap DOMAIN v.heard = {}
  BY <1>1 DEF FirstOf
<1>2. CASE links \cap DOMAIN v.heard # {}
  <2> DEFINE theirs == {v.heard[l] : l \in links \cap DOMAIN v.heard}
  <2>1. theirs \subseteq Nat /\ theirs # {}
    BY <1>2, HeardIsTyped
  <2>2. PICK x \in theirs : \A y \in theirs : <<y, x>> \notin OpToRel(<, Nat)
    BY <2>1, NatLessThanWellFounded, WFMin
  <2>3. ASSUME NEW y \in theirs PROVE x <= y
    <3>1. y \in Nat /\ x \in Nat /\ <<y, x>> \in Nat \X Nat
      BY <2>1
    <3>2. ~(y < x)
      BY <2>2, <3>1, Zenon DEF OpToRel
    <3> QED BY <3>1, <3>2
  <2>4. \E l \in links \cap DOMAIN v.heard :
          \A m \in links \cap DOMAIN v.heard : v.heard[l] <= v.heard[m]
    BY <2>3
  <2> QED BY <1>2, <2>4 DEF FirstOf
<1> QED BY <1>1, <1>2

-----------------------------------------------------------------------------
(* The choice of a primary link.                                           *)

\* What best_primary_link gives is live, and there is one if any link is live.
LEMMA BestIsLive ==
  ASSUME KindsKnown, NEW v, Whole(v), NEW knows \in SUBSET Carriers
  PROVE  /\ BestPrimary(v, knows) \in Live(v) \cup {NoLink}
         /\ BestPrimary(v, knows) = NoLink => Live(v) = {}
<1> DEFINE direct == Live(v) \cap OfKind("usb", knows)
           normal == Live(v) \ HighLatency(knows)
           cloud == OfKind("cloud", knows)
           held == {v.primary} \cap HighLatency(knows)
           slow == Live(v) \cap HighLatency(knows)
<1> DEFINE chosen == OrElse(FirstOf(v, direct), OrElse(FirstOf(v, normal \ cloud),
             OrElse(FirstOf(v, normal \cap cloud), OrElse(FirstOf(v, held), FirstOf(v, slow)))))
<1>1. BestPrimary(v, knows) = chosen
  BY DEF BestPrimary
<1>2. v \in Vehicles /\ DOMAIN v.heard \subseteq Carriers /\ NoLink \notin Carriers
  BY HeardIsTyped, LinksAssumption DEF Whole
<1>3. held \cap DOMAIN v.heard \subseteq Live(v)
  BY <1>2 DEF Live, Whole, HighLatency, OfKind
<1>4. Live(v) = (normal \ cloud) \cup (normal \cap cloud) \cup slow
  OBVIOUS
<1>5. Live(v) \subseteq DOMAIN v.heard
  BY DEF Live
<1> HIDE DEF direct, normal, cloud, held, slow
<1>6. \A links \in {direct, normal \ cloud, normal \cap cloud, held, slow} :
        /\ FirstOf(v, links) \in Live(v) \cup {NoLink}
        /\ FirstOf(v, links) = NoLink => links \cap DOMAIN v.heard = {}
  <2>1. TAKE links \in {direct, normal \ cloud, normal \cap cloud, held, slow}
  <2>2. links \cap DOMAIN v.heard \subseteq Live(v)
    BY <1>3, <1>4 DEF direct
  <2> QED BY <1>2, <2>2, FirstOfIsOne
<1>7. chosen \in Live(v) \cup {NoLink}
  BY <1>6 DEF OrElse
<1>8. chosen = NoLink => Live(v) = {}
  <2>1. HAVE chosen = NoLink
  <2>2. /\ FirstOf(v, normal \ cloud) = NoLink /\ FirstOf(v, normal \cap cloud) = NoLink
        /\ FirstOf(v, slow) = NoLink
    BY <2>1 DEF OrElse
  <2> QED BY <1>4, <1>5, <1>6, <2>2
<1> QED BY <1>1, <1>7, <1>8

\* A command to a high latency link changes nothing else of the vehicle.
LEMMA ControlledKeeps ==
  ASSUME NEW v \in Vehicles, NEW knows \in SUBSET Carriers, NEW next
  PROVE  /\ Controlled(v, next, knows) \in Vehicles
         /\ Controlled(v, next, knows).heard = v.heard
         /\ Controlled(v, next, knows).lost = v.lost
         /\ Controlled(v, next, knows).sendsOn = v.sendsOn
         /\ Controlled(v, next, knows).primary = v.primary
<1>1. CASE v.pending \/ HighLatency(knows) \cap {v.primary, next} = {}
  <2>1. Controlled(v, next, knows) = v
    BY <1>1 DEF Controlled
  <2> QED BY <2>1
<1>2. CASE ~v.pending /\ v.primary \in HighLatency(knows)
  <2>1. v.primary \in Carriers
    BY <1>2 DEF HighLatency, OfKind
  <2>2. Controlled(v, next, knows) = [v EXCEPT !.pending = TRUE, !.control[v.primary] = "stop"]
    BY <1>2 DEF Controlled
  <2>3. [v.control EXCEPT ![v.primary] = "stop"] \in [Carriers -> {"none", "start", "stop"}]
    BY <2>1 DEF Vehicles
  <2> QED BY <2>2, <2>3 DEF Vehicles
<1>3. CASE /\ ~(v.pending \/ HighLatency(knows) \cap {v.primary, next} = {})
           /\ ~(~v.pending /\ v.primary \in HighLatency(knows))
  <2>1. next \in Carriers
    BY <1>3 DEF HighLatency, OfKind
  <2>2. Controlled(v, next, knows) = [v EXCEPT !.pending = TRUE, !.control[next] = "start"]
    BY <1>3 DEF Controlled
  <2>3. [v.control EXCEPT ![next] = "start"] \in [Carriers -> {"none", "start", "stop"}]
    BY <2>1 DEF Vehicles
  <2> QED BY <2>2, <2>3 DEF Vehicles
<1> QED BY <1>1, <1>2, <1>3

\* update_primary_link chooses a live link if there is one, and sends on it.
LEMMA UpdatedIsChosen ==
  ASSUME KindsKnown, NEW v, Whole(v), NEW knows \in SUBSET Carriers
  PROVE  LET w == Updated(v, knows) IN
         /\ Whole(w) /\ Chosen(w)
         /\ w.heard = v.heard /\ w.lost = v.lost
         /\ w.sendsOn \in DOMAIN v.heard \cup {v.sendsOn}
<1> DEFINE best == BestPrimary(v, knows)
           stays == \/ Keeps(v, knows)
                    \/ v.primary \in DOMAIN v.heard /\ best = NoLink
                    \/ best = v.primary
           asTold == Controlled(v, best, knows)
           w == Updated(v, knows)
<1>1. best \in Live(v) \cup {NoLink} /\ (best = NoLink => Live(v) = {})
  BY BestIsLive
<1>2. v \in Vehicles /\ Live(v) \subseteq DOMAIN v.heard /\ DOMAIN v.heard \subseteq Carriers
  BY HeardIsTyped DEF Whole, Live
<1>3. CASE stays
  <2>1. w = v
    BY <1>3 DEF Updated
  <2>2. Chosen(v)
    BY <1>1, <1>2, <1>3 DEF Chosen, Keeps
  <2> QED BY <2>1, <2>2
<1>4. CASE ~stays
  <2>1. w = [asTold EXCEPT !.primary = best, !.sendsOn = IF best = NoLink THEN @ ELSE best]
    BY <1>4 DEF Updated
  <2>2. /\ asTold \in Vehicles /\ asTold.heard = v.heard /\ asTold.lost = v.lost
        /\ asTold.sendsOn = v.sendsOn
    BY <1>2, ControlledKeeps
  <2> HIDE DEF asTold, best
  <2>3. /\ w \in Vehicles /\ w.heard = v.heard /\ w.lost = v.lost /\ w.primary = best
        /\ w.sendsOn = IF best = NoLink THEN v.sendsOn ELSE best
    BY <1>1, <1>2, <2>1, <2>2 DEF Vehicles
  <2>4. Live(w) = Live(v)
    BY <2>3 DEF Live
  <2>5. Whole(w)
    BY <2>3 DEF Whole
  <2>6. Chosen(w)
    BY <1>1, <1>2, <2>3, <2>4 DEF Chosen
  <2> QED BY <1>1, <1>2, <2>3, <2>5, <2>6
<1> QED BY <1>3, <1>4

-----------------------------------------------------------------------------
(* The vehicle stays fine.                                                 *)

LEMMA NewIsWhole ==
  ASSUME NEW l \in Carriers
  PROVE  Whole(NewVehicle(l)) /\ NewVehicle(l).sendsOn = l /\ DOMAIN NewVehicle(l).heard = {}
<1>1. [k \in {} |-> 0] \in Places
  BY DEF Places
<1>2. NewVehicle(l) \in Vehicles
  BY <1>1 DEF NewVehicle, Vehicles
<1> QED BY <1>2 DEF Whole, NewVehicle

\* A link is heard: a new one, a lost one, or another.
LEMMA NotedIsFine ==
  ASSUME KindsKnown, known \subseteq Carriers, NEW l \in Carriers,
         NEW v, Sound(v) \/ v = NewVehicle(l)
  PROVE  Sound(Noted(v, l))
<1>1. Whole(v) /\ v \in Vehicles /\ v.sendsOn \in DOMAIN v.heard \cup {l}
  BY NewIsWhole DEF Sound, Whole
<1>2. CASE l \notin DOMAIN v.heard
  <2> DEFINE x == [v EXCEPT !.heard = After(@, l)]
  <2>1. After(v.heard, l) \in Places /\ DOMAIN After(v.heard, l) = DOMAIN v.heard \cup {l}
    BY <1>1, AfterIsTyped
  <2>2. x \in Vehicles /\ x.heard = After(v.heard, l) /\ x.sendsOn = v.sendsOn
    BY <1>1, <2>1 DEF Vehicles
  <2>3. Whole(x)
    BY <1>1, <2>2 DEF Whole, Vehicles
  <2>4. Noted(v, l) = Updated(x, known)
    BY <1>2 DEF Noted
  <2> HIDE DEF x
  <2>5. /\ Whole(Updated(x, known)) /\ Chosen(Updated(x, known))
        /\ Updated(x, known).heard = x.heard
        /\ Updated(x, known).sendsOn \in DOMAIN x.heard \cup {x.sendsOn}
    BY <2>3, UpdatedIsChosen
  <2> QED BY <1>1, <2>1, <2>2, <2>4, <2>5 DEF Sound
<1>3. CASE l \in DOMAIN v.heard /\ l \in v.lost
  <2> DEFINE x == [v EXCEPT !.lost = @ \ {l}, !.lostAll = FALSE]
  <2>1. x \in Vehicles /\ x.heard = v.heard /\ x.sendsOn = v.sendsOn
    BY <1>1 DEF Vehicles
  <2>2. Whole(x)
    BY <1>1, <2>1 DEF Whole, Vehicles
  <2>3. Noted(v, l) = Updated(x, known)
    BY <1>3 DEF Noted
  <2> HIDE DEF x
  <2>4. /\ Whole(Updated(x, known)) /\ Chosen(Updated(x, known))
        /\ Updated(x, known).heard = x.heard
        /\ Updated(x, known).sendsOn \in DOMAIN x.heard \cup {x.sendsOn}
    BY <2>2, UpdatedIsChosen
  <2> QED BY <1>1, <1>3, <2>1, <2>3, <2>4 DEF Sound
<1>4. CASE l \in DOMAIN v.heard /\ l \notin v.lost
  <2>1. Noted(v, l) = v
    BY <1>4 DEF Noted
  <2> QED BY <1>4, <2>1, NewIsWhole DEF Sound
<1> QED BY <1>2, <1>3, <1>4

\* Links go: the vehicle goes with the last, or sends on one that is left.
LEMMA RetainedIsFine ==
  ASSUME KindsKnown, known \subseteq Carriers, NEW links \in SUBSET Carriers,
         vehicle = NoVehicle \/ Sound(vehicle)
  PROVE  LET w == Retained(vehicle, links) IN
         w = NoVehicle \/ (Sound(w) /\ DOMAIN w.heard \subseteq links)
<1>1. CASE vehicle = NoVehicle
  BY <1>1 DEF Retained, NoVehicle
<1>2. CASE Sound(vehicle)
  <2> DEFINE x == [vehicle EXCEPT !.heard = Kept(@, links), !.lost = @ \cap links]
             w == Updated(x, known)
             instead == OrElse(w.primary, FirstOf(w, Carriers))
  <2>1. vehicle \in Vehicles /\ vehicle.present /\ vehicle.sendsOn \in DOMAIN vehicle.heard
    BY <1>2 DEF Sound, Whole, Vehicles
  <2>2. /\ Kept(vehicle.heard, links) \in Places
        /\ DOMAIN Kept(vehicle.heard, links) = DOMAIN vehicle.heard \cap links
    BY <2>1, KeptIsTyped
  <2>3. /\ x \in Vehicles /\ x.heard = Kept(vehicle.heard, links)
        /\ x.lost = vehicle.lost \cap links /\ x.sendsOn = vehicle.sendsOn
        /\ x.primary = vehicle.primary
    BY <2>1, <2>2 DEF Vehicles
  <2>4. Whole(x)
    BY <1>2, <2>3 DEF Sound, Whole
  <2> HIDE DEF x
  <2>5. /\ Whole(w) /\ Chosen(w) /\ w.heard = x.heard
        /\ w.sendsOn \in DOMAIN x.heard \cup {x.sendsOn}
    BY <2>4, UpdatedIsChosen
  <2>6. Retained(vehicle, links) =
          IF w.sendsOn \in links THEN w
          ELSE IF instead = NoLink THEN NoVehicle ELSE [w EXCEPT !.sendsOn = instead]
    BY <2>1 DEF Retained, x
  <2>7. DOMAIN w.heard = DOMAIN vehicle.heard \cap links
    BY <2>2, <2>3, <2>5
  <2>8. CASE w.sendsOn \in links
    BY <2>1, <2>2, <2>3, <2>5, <2>6, <2>7, <2>8 DEF Sound
  <2>9. CASE w.sendsOn \notin links
    <3>1. w.primary = NoLink
      BY <2>5, <2>7, <2>9 DEF Whole, Chosen
    <3>2. instead = FirstOf(w, Carriers) /\ w \in Vehicles
      BY <2>5, <3>1 DEF OrElse, Whole
    <3>3. DOMAIN w.heard \subseteq Carriers
      BY <3>2, HeardIsTyped
    <3>4. instead = NoLink \/ instead \in DOMAIN w.heard
      BY <3>2, FirstOfIsOne
    <3>5. CASE instead = NoLink
      BY <2>6, <2>9, <3>5
    <3>6. CASE instead # NoLink
      <4> DEFINE u == [w EXCEPT !.sendsOn = instead]
      <4>1. Retained(vehicle, links) = u
        BY <2>6, <2>9, <3>6
      <4>2. /\ u \in Vehicles /\ u.heard = w.heard /\ u.lost = w.lost
            /\ u.primary = NoLink /\ u.sendsOn = instead
        BY <3>1, <3>2, <3>3, <3>4, <3>6 DEF Vehicles
      <4>3. Whole(u) /\ Chosen(u)
        BY <2>5, <3>1, <4>2 DEF Whole, Chosen, Live
      <4> QED BY <2>7, <3>4, <3>6, <4>1, <4>2, <4>3 DEF Sound
    <3> QED BY <3>5, <3>6
  <2> QED BY <2>8, <2>9
<1> QED BY <1>1, <1>2

\* The pump knows the kinds of all links left, so none that is silenced is of high latency.
LEMMA CheckedIsFine ==
  ASSUME KindsKnown, seen.open \subseteq Carriers,
         NEW v, Sound(v), DOMAIN v.heard \subseteq seen.open
  PROVE  Sound(Checked(v))
<1> DEFINE lost == v.lost \cup Silenced(v)
           all == DOMAIN v.heard # {} /\ DOMAIN v.heard \subseteq lost
           x == [v EXCEPT !.lost = lost, !.lostAll = all]
<1>1. v \in Vehicles /\ v.sendsOn \in DOMAIN v.heard /\ DOMAIN v.heard \subseteq Carriers
  BY HeardIsTyped DEF Sound, Whole
<1>2. Silenced(v) \subseteq Carriers /\ Silenced(v) \cap {l \in Carriers : "high latency" \in kind[l]} = {}
  BY <1>1 DEF Silenced, Live, HighLatency, OfKind
<1>3. CASE ~v.watching
  BY <1>3 DEF Checked
<1>4. CASE v.watching
  <2>1. Checked(v) = Updated(x, seen.open)
    BY <1>4 DEF Checked
  <2>2. /\ x \in Vehicles /\ x.heard = v.heard /\ x.lost = lost
        /\ x.sendsOn = v.sendsOn /\ x.primary = v.primary
    BY <1>1, <1>2 DEF Vehicles
  <2>3. Whole(x)
    BY <1>2, <2>2 DEF Sound, Whole
  <2> HIDE DEF x
  <2> QED BY <1>1, <2>1, <2>2, <2>3, UpdatedIsChosen DEF Sound
<1> QED BY <1>3, <1>4

-----------------------------------------------------------------------------
(* The invariant.                                                          *)

LEMMA LinksInitInv == LinksInit => LinksIInv
<1> SUFFICES ASSUME LinksInit PROVE LinksIInv
  OBVIOUS
<1>1. KindsKnown
  BY LinksAssumption DEF LinksInit, KindsKnown
<1>2. seen.open = {} /\ known = {} /\ vehicle = NoVehicle
  BY DEF LinksInit, NotSeen
<1> QED BY <1>1, <1>2 DEF LinksIInv

LEMMA StillFine ==
  ASSUME LinksIInv, kind' = kind, known' \subseteq Carriers, (seen.open)' \subseteq Carriers,
         vehicle' = NoVehicle \/ Sound(vehicle')
  PROVE  LinksIInv'
BY DEF LinksIInv, KindsKnown, Sound, Whole, Chosen

LEMMA FrameInv ==
  ASSUME LinksIInv, NEW l \in Carriers, NEW heartbeat \in BOOLEAN, Frame(l, heartbeat)
  PROVE  LinksIInv'
<1> DEFINE v == Noted(IF vehicle.present THEN vehicle ELSE NewVehicle(l), l)
<1>1. kind' = kind /\ seen' = seen /\ known' = known
  BY DEF Frame, pump
<1>2. vehicle' = CASE ~vehicle.present /\ ~heartbeat -> vehicle
                   [] heartbeat /\ ~Standby(v, l) -> [v EXCEPT !.lostAll = FALSE]
                   [] OTHER -> v
  BY DEF Frame
<1>3. Sound(v)
  BY NotedIsFine DEF LinksIInv, NoVehicle
<1> HIDE DEF v
<1>4. Sound([v EXCEPT !.lostAll = FALSE])
  BY <1>3 DEF Sound, Whole, Chosen, Live, Vehicles
<1>5. vehicle' = NoVehicle \/ Sound(vehicle')
  BY <1>2, <1>3, <1>4 DEF LinksIInv, NoVehicle
<1> QED BY <1>1, <1>5, StillFine DEF LinksIInv

LEMMA PumpTellsInv ==
  ASSUME LinksIInv, PumpTells
  PROVE  LinksIInv'
<1> DEFINE retained == Retained(vehicle, seen.open)
<1>1. kind' = kind /\ known' = seen.open /\ seen' = NotSeen
  BY DEF PumpTells, PumpTurns
<1>2. PICK v : /\ v = retained \/ (retained.present /\ v = Checked(retained))
               /\ vehicle' = NoVehicle \/ vehicle' = v
  BY DEF PumpTells
<1>3. retained = NoVehicle \/ (Sound(retained) /\ DOMAIN retained.heard \subseteq seen.open)
  BY RetainedIsFine DEF LinksIInv
<1> HIDE DEF retained
<1>4. v = NoVehicle \/ Sound(v)
  <2>1. CASE retained = NoVehicle
    BY <1>2, <2>1 DEF NoVehicle
  <2>2. CASE Sound(retained) /\ DOMAIN retained.heard \subseteq seen.open
    BY <1>2, <2>2, CheckedIsFine DEF LinksIInv
  <2> QED BY <1>3, <2>1, <2>2
<1>5. vehicle' = NoVehicle \/ Sound(vehicle')
  BY <1>2, <1>4
<1> QED BY <1>1, <1>5, StillFine DEF LinksIInv, NotSeen

\* The hub hears that a link closed.
LEMMA HubHearsOfCloseInv ==
  ASSUME LinksIInv, NEW l \in Carriers, HubHearsOfClose(l)
  PROVE  LinksIInv'
<1>1. kind' = kind /\ seen' = seen /\ known' = known /\ vehicle' = Retained(vehicle, Carriers \ {l})
  BY DEF HubHearsOfClose, pump
<1>2. vehicle' = NoVehicle \/ Sound(vehicle')
  BY <1>1, RetainedIsFine DEF LinksIInv
<1> QED BY <1>1, <1>2, StillFine DEF LinksIInv

\* A setting changes, or the ack of a command comes: the links stay as they are.
LEMMA SettingInv ==
  ASSUME LinksIInv, ControlAnswered \/ \E flag \in {"watching", "auto"} : SetFlag(flag)
  PROVE  LinksIInv'
<1>1. kind' = kind /\ seen' = seen /\ known' = known /\ vehicle.present
  BY DEF ControlAnswered, SetFlag, pump
<1>2. Sound(vehicle)
  BY <1>1 DEF LinksIInv, NoVehicle
<1>3. \/ vehicle' = [vehicle EXCEPT !.pending = FALSE]
      \/ vehicle' = [vehicle EXCEPT !.watching = ~@]
      \/ vehicle' = [vehicle EXCEPT !.auto = ~@]
  BY DEF ControlAnswered, SetFlag
<1>4. Sound(vehicle')
  BY <1>2, <1>3 DEF Sound, Whole, Chosen, Live, Vehicles
<1> QED BY <1>1, <1>4, StillFine DEF LinksIInv

\* What the readers, the registry and the pump's look do leaves the vehicle alone.
LEMMA ElsewhereInv ==
  ASSUME LinksIInv, UNCHANGED <<kind, known, vehicle>>, (seen.open)' \subseteq Carriers
  PROVE  LinksIInv'
BY StillFine DEF LinksIInv

LEMMA LinksStepInv ==
  ASSUME LinksIInv, [LinksNext]_linksVars
  PROVE  LinksIInv'
<1>1. CASE UNCHANGED linksVars
  BY <1>1, ElsewhereInv DEF linksVars, pump, LinksIInv
<1>2. ASSUME NEW l \in Carriers,
             \/ LinkOpens(l) \/ RelayState(l) \/ Decode(l) \/ FallsQuiet(l) \/ LinkCloses(l)
      PROVE  LinksIInv'
  BY <1>2, ElsewhereInv
     DEF LinkOpens, RelayState, Decode, FallsQuiet, LinkCloses, pump, wires, LinksIInv
<1>3. CASE CloseDiscarded
  BY <1>3, ElsewhereInv DEF CloseDiscarded, LinksIInv
<1>4. CASE PumpSees
  BY <1>4, ElsewhereInv DEF PumpSees, PumpTurns, NotSeen
<1>5. CASE LinksNext
  BY <1>2, <1>3, <1>4, <1>5, FrameInv, HubHearsOfCloseInv, SettingInv, PumpTellsInv DEF LinksNext
<1> QED BY <1>1, <1>5

\* For any number of links of any kinds, and whatever closes, falls silent, is heard
\* again or becomes known between the steps of readers, pump and operator: while a link
\* of the vehicle is live the primary is a live one, and commands go out on it.
THEOREM CommandsGoOutOnALiveLink == LinksSpec => []PrimaryIsLive
<1>1. LinksIInv => PrimaryIsLive
  <2>1. CASE vehicle = NoVehicle
    BY <2>1 DEF PrimaryIsLive, NoVehicle
  <2>2. CASE Sound(vehicle)
    <3>1. vehicle.present
      BY <2>2 DEF Sound, Whole, Vehicles
    <3> QED BY <2>2, <3>1 DEF Sound, Whole, Chosen, PrimaryIsLive, Links
  <2> QED BY <2>1, <2>2 DEF LinksIInv
<1> QED BY <1>1, LinksInitInv, LinksStepInv, PTL DEF LinksSpec

-----------------------------------------------------------------------------
(* The events.  What is on the wire is a number modulo Modulus; the        *)
(* invariant says of each message which events it can be about.  There are *)
(* the last boot that the station heard of (heard), the newest event that  *)
(* there was when it heard of boot 0 first (base), the event that latest   *)
(* is the number of, if it counts in that boot (count), and the newest     *)
(* event when each message on its way was sent (level).  An old event      *)
(* taken for a restart sets count back to it: what was delivered may then  *)
(* be after count, but from the new basis on nothing is passed over.       *)

Numbers == 0 .. Modulus - 1
EventMessages == [what : {"event"}, n : Nat, boot : Nat, reset : {FALSE}]
Messages ==
  EventMessages
    \cup [what : {"current"}, n : Nat, boot : Nat, reset : BOOLEAN]
    \cup [what : {"error"}, n : Nat, boot : Nat, reset : {FALSE}, of : Numbers]

Stamps == [boot : Nat, n : Nat] \cup {Unstamped}

EventTyped ==
  /\ latest \in Numbers \cup {Unknown} /\ stamp \in Stamps /\ setBacks \in Nat
  /\ boot \in Nat /\ newest \in Nat /\ happened \in 0 .. MaxEvents
  /\ asked \in Seq(Numbers) /\ arriving \in Seq(Messages)
  /\ delivered \in Seq(EventMessages) /\ basis \in [boot : Int, from : Nat]

\* Of the events a vehicle keeps, and those still to happen, no two have one number.
KeepsFew == Depth + MaxEvents < Modulus

\* The event before the first one of a boot that the station may hear of.
Floor(b, base) == IF b = 0 THEN base ELSE 0

VehicleCounts(base) ==
  /\ Floor(boot, base) <= newest /\ newest <= Floor(boot, base) + happened
  /\ boot = 0 => \A i \in DOMAIN asked : \E k \in base + 1 .. base + MaxEvents + 1 : asked[i] = Number(k)

\* What a message says, sent when the newest event was top.
Tells(m, top, base) ==
  /\ m.what = "event" => Floor(m.boot, base) < m.n /\ m.n <= top
  /\ m.what = "current" => m.n = top
  /\ m.what = "error" =>
       /\ m.n <= top + 1
       /\ \A k \in Floor(m.boot, base) + 1 .. top + 1 : Number(k) = m.of =>
            k <= m.n /\ (m.boot = boot /\ k < m.n => m.n <= newest - Depth + 1)

Coming(heard, base, level) ==
  /\ \A i \in DOMAIN arriving :
       /\ heard <= arriving[i].boot /\ arriving[i].boot <= boot
       /\ Floor(arriving[i].boot, base) <= level[i] /\ level[i] <= Floor(arriving[i].boot, base) + MaxEvents
       /\ arriving[i].boot = boot => level[i] <= newest
       /\ Tells(arriving[i], level[i], base)
  /\ \A i, j \in DOMAIN arriving : i < j =>
       /\ arriving[i].boot <= arriving[j].boot
       /\ arriving[i].boot = arriving[j].boot => level[i] <= level[j]

\* The station counts in boot b.
CountsIn(b) == basis.boot = b \/ \E i \in DOMAIN delivered : delivered[i].boot = b

Counted(heard, base, count) ==
  /\ latest = Number(count)
  /\ Floor(heard, base) <= count /\ count <= Floor(heard, base) + MaxEvents
  /\ heard = boot => count <= newest
  /\ setBacks = 0 => \A i \in DOMAIN delivered : delivered[i].boot = heard => delivered[i].n <= count
  /\ basis.boot = boot => \A n \in Available :
       basis.from <= n /\ n <= count => Event(n) \in {delivered[i] : i \in DOMAIN delivered}

StationCounts(heard, base, count, level) ==
  /\ latest # Unknown => basis.boot >= 0
  /\ basis.boot <= heard /\ stamp.boot <= heard /\ heard <= boot
  /\ \A i \in DOMAIN delivered : delivered[i].boot <= stamp.boot
  /\ CountsIn(heard) =>
       /\ Counted(heard, base, count)
       /\ \A i \in DOMAIN arriving : arriving[i].boot = heard => count <= level[i]

InOrder ==
  setBacks = 0 => \A i, j \in DOMAIN delivered : i < j =>
    \/ delivered[i].boot < delivered[j].boot
    \/ delivered[i].boot = delivered[j].boot /\ delivered[i].n < delivered[j].n

EventStory ==
  \E heard \in Nat, base \in Nat, count \in Nat, level \in [Nat -> Nat] :
    VehicleCounts(base) /\ Coming(heard, base, level) /\ StationCounts(heard, base, count, level)

EventInv == EventTyped /\ InOrder /\ EventStory

-----------------------------------------------------------------------------
(* Numbers on the wire.                                                    *)

LEMMA Distribute ==
  ASSUME NEW m \in Int, NEW q \in Int, NEW t \in Int
  PROVE  m * (q - t) = m * q - m * t /\ m * (q + t) = m * q + m * t
OBVIOUS

LEMMA DivMod ==
  ASSUME NEW a \in Int
  PROVE  /\ Number(a) \in Numbers /\ Number(a) \in Int /\ a \div Modulus \in Int
         /\ a = Modulus * (a \div Modulus) + Number(a)
<1>1. Modulus \in Nat /\ Modulus >= 1
  BY EventsAssumption
<1> QED BY <1>1 DEF Numbers, Number

\* The number is the only remainder.
LEMMA Remainder ==
  ASSUME NEW a \in Int, NEW r \in Numbers, NEW q \in Int, a = Modulus * q + r
  PROVE  Number(a) = r
<1>0. Modulus \in Nat /\ Modulus >= 1
  BY EventsAssumption
<1>1. PICK s \in Int, t \in Int : s = Number(a) /\ s \in Numbers /\ a = Modulus * t + s
  BY DivMod
<1>2. r \in Int /\ 0 <= r /\ r < Modulus /\ 0 <= s /\ s < Modulus
  BY <1>0, <1>1 DEF Numbers
<1>3. Modulus * (q - t) = s - r
  <2>1. Modulus * q + r = Modulus * t + s
    BY <1>1
  <2>2. Modulus * q \in Int /\ Modulus * t \in Int
    BY <1>0
  <2>3. Modulus * (q - t) = Modulus * q - Modulus * t
    BY <1>0, Distribute
  <2> QED BY <1>2, <2>1, <2>2, <2>3
<1>4. q - t = 0
  <2>1. PICK p \in Int : p = q - t
    OBVIOUS
  <2>2. Modulus * p < Modulus /\ -Modulus < Modulus * p
    BY <1>0, <1>2, <1>3, <2>1
  <2>3. CASE p >= 1
    <3>1. Modulus * p >= Modulus
      BY <1>0, <2>3
    <3> QED BY <1>0, <2>2, <3>1
  <2>4. CASE p <= -1
    <3>1. Modulus * p <= -Modulus
      BY <1>0, <2>4
    <3> QED BY <1>0, <2>2, <3>1
  <2> QED BY <2>1, <2>3, <2>4
<1>5. q = t
  BY <1>4
<1>6. Modulus * q + r = Modulus * q + s /\ Modulus * q \in Int
  BY <1>0, <1>1, <1>5
<1> QED BY <1>1, <1>2, <1>6

\* A number further on.
LEMMA NumberAdd ==
  ASSUME NEW a \in Int, NEW b \in Int
  PROVE  Number(Number(a) + b) = Number(a + b)
<1>0. Modulus \in Nat /\ Modulus >= 1
  BY EventsAssumption
<1>1. PICK r \in Int, q \in Int : r = Number(a) /\ a = Modulus * q + r
  BY DivMod
<1>2. PICK s \in Int, t \in Int : s = Number(a + b) /\ s \in Numbers /\ a + b = Modulus * t + s
  BY DivMod
<1>3. r + b = Modulus * (t - q) + s
  <2>1. Modulus * (t - q) = Modulus * t - Modulus * q
    BY <1>0, Distribute
  <2>2. Modulus * q \in Int /\ Modulus * t \in Int
    BY <1>0
  <2> QED BY <1>1, <1>2, <2>1, <2>2
<1>4. Number(r + b) = s
  BY <1>2, <1>3, Remainder
<1> QED BY <1>1, <1>2, <1>4

\* Events less than Modulus apart have different numbers.
LEMMA SameNumber ==
  ASSUME NEW a \in Int, NEW b \in Int, Number(a) = Number(b), a - b < Modulus, b - a < Modulus
  PROVE  a = b
<1>0. Modulus \in Nat /\ Modulus >= 1
  BY EventsAssumption
<1>1. Number(a - b) = 0
  <2>0. PICK c \in Int : c = -b
    OBVIOUS
  <2>1. Number(Number(a) + c) = Number(a + c) /\ Number(Number(b) + c) = Number(b + c)
    BY NumberAdd
  <2>2. a + c = a - b /\ b + c = 0
    BY <2>0
  <2>3. 0 \in Numbers /\ 0 = Modulus * 0 + 0
    BY <1>0 DEF Numbers
  <2>4. Number(0) = 0
    BY <2>3, Remainder
  <2> QED BY <2>1, <2>2, <2>4
<1>2. PICK d \in Int : d = a - b
  OBVIOUS
<1>3. PICK p \in Int : d = Modulus * p
  <2>1. d = Modulus * (d \div Modulus) + 0 /\ d \div Modulus \in Int
    BY <1>1, <1>2, DivMod
  <2>2. Modulus * (d \div Modulus) \in Int
    BY <1>0, <2>1
  <2> QED BY <2>1, <2>2
<1>4. CASE p >= 1
  <2>1. Modulus * p >= Modulus
    BY <1>0, <1>4
  <2> QED BY <1>0, <1>2, <1>3, <2>1
<1>5. CASE p <= -1
  <2>1. Modulus * p <= -Modulus
    BY <1>0, <1>5
  <2> QED BY <1>0, <1>2, <1>3, <2>1
<1>6. CASE p = 0
  BY <1>0, <1>2, <1>3, <1>6
<1> QED BY <1>4, <1>5, <1>6

LEMMA NextNumber ==
  ASSUME NEW a \in Int
  PROVE  Successor(Number(a)) = Number(a + 1)
BY NumberAdd DEF Successor, Number

LEMMA NumberBefore ==
  ASSUME NEW a \in Int
  PROVE  Predecessor(Number(a)) = Number(a - 1)
<1>0. Modulus \in Nat /\ Modulus >= 1
  BY EventsAssumption
<1>1. Number(Number(a) + (Modulus - 1)) = Number(a + (Modulus - 1))
  BY <1>0, NumberAdd
<1>2. Number(a) + Modulus - 1 = Number(a) + (Modulus - 1)
  BY <1>0, DivMod
<1>3. PICK r \in Int, q \in Int : r = Number(a - 1) /\ r \in Numbers /\ a - 1 = Modulus * q + r
  BY DivMod
<1>4. a + (Modulus - 1) = Modulus * (q + 1) + r
  <2>1. Modulus * (q + 1) = Modulus * q + Modulus * 1 /\ Modulus * 1 = Modulus /\ Modulus * q \in Int
    BY <1>0, Distribute
  <2> QED BY <1>0, <1>3, <2>1
<1>5. Number(a + (Modulus - 1)) = r
  <2>1. q + 1 \in Int /\ a + (Modulus - 1) \in Int
    BY <1>0
  <2> QED BY <1>3, <1>4, <2>1, Remainder
<1> QED BY <1>1, <1>2, <1>3, <1>5 DEF Predecessor, Number

\* How far b is ahead of a, on the wire.
LEMMA Distance ==
  ASSUME NEW a \in Int, NEW b \in Int
  PROVE  (Number(b) - Number(a)) % Modulus = Number(b - a)
<1>0. Modulus \in Nat /\ Modulus >= 1
  BY EventsAssumption
<1>1. PICK r \in Int, q \in Int : r = Number(a) /\ a = Modulus * q + r
  BY DivMod
<1>2. Number(Number(b) + (-r)) = Number(b + (-r))
  BY NumberAdd
<1>3. PICK s \in Int, t \in Int : s = Number(b - a) /\ s \in Numbers /\ b - a = Modulus * t + s
  BY DivMod
<1>4. b + (-r) = Modulus * (t + q) + s
  <2>1. Modulus * (t + q) = Modulus * t + Modulus * q
    BY <1>0, Distribute
  <2>2. Modulus * q \in Int /\ Modulus * t \in Int
    BY <1>0
  <2> QED BY <1>1, <1>3, <2>1, <2>2
<1>5. Number(b + (-r)) = s
  BY <1>3, <1>4, Remainder
<1>6. Number(b) + (-r) = Number(b) - Number(a)
  BY <1>1, DivMod
<1> QED BY <1>2, <1>3, <1>5, <1>6 DEF Number

\* compare is right while the events are near.
LEMMA NewerAhead ==
  ASSUME NEW a \in Int, NEW b \in Int, a < b, b - a <= MaxEvents + 1
  PROVE  Newer(Number(a), Number(b))
<1>0. Modulus \in Nat /\ MaxEvents \in Nat /\ Modulus > 2 * MaxEvents + 2
  BY EventsAssumption
<1>1. PICK d \in Int : d = b - a
  OBVIOUS
<1>2. d \in Numbers /\ d = Modulus * 0 + d
  BY <1>0, <1>1 DEF Numbers
<1>3. Number(d) = d
  BY <1>2, Remainder
<1>4. d \in 1 .. (Modulus - 1) \div 2
  BY <1>0, <1>1
<1> QED BY <1>1, <1>3, <1>4, Distance DEF Newer

LEMMA NotNewerBehind ==
  ASSUME NEW a \in Int, NEW b \in Int, b <= a, a - b <= MaxEvents
  PROVE  ~Newer(Number(a), Number(b))
<1>0. Modulus \in Nat /\ MaxEvents \in Nat /\ Modulus > 2 * MaxEvents + 2
  BY EventsAssumption
<1>1. PICK d \in Int : d = b - a
  OBVIOUS
<1>2. CASE d = 0
  <2>1. 0 \in Numbers /\ 0 = Modulus * 0 + 0
    BY <1>0 DEF Numbers
  <2>2. Number(0) = 0
    BY <2>1, Remainder
  <2> QED BY <1>1, <1>2, <2>2, Distance DEF Newer
<1>3. CASE d < 0
  <2>1. d + Modulus \in Numbers /\ d = Modulus * (-1) + (d + Modulus)
    BY <1>0, <1>1, <1>3 DEF Numbers
  <2>2. Number(d) = d + Modulus
    BY <2>1, Remainder
  <2>3. ~(d + Modulus \in 1 .. (Modulus - 1) \div 2)
    BY <1>0, <1>1
  <2> QED BY <1>1, <2>2, <2>3, Distance DEF Newer
<1> QED BY <1>1, <1>2, <1>3

-----------------------------------------------------------------------------
(* Messages and requests on their way.                                     *)

LEMMA SeqElement ==
  ASSUME NEW S, NEW c \in Seq(S), NEW i \in DOMAIN c
  PROVE  c[i] \in S /\ i \in Nat /\ i >= 1 /\ i <= Len(c) /\ Len(c) \in Nat
<1>1. DOMAIN c = 1 .. Len(c) /\ Len(c) \in Nat
  BY LenProperties
<1> QED BY <1>1, ElementOfSeq

LEMMA SeqTail ==
  ASSUME NEW S, NEW c \in Seq(S), c # <<>>
  PROVE  /\ Tail(c) \in Seq(S) /\ Len(c) \in Nat /\ Len(c) >= 1
         /\ DOMAIN c = 1 .. Len(c) /\ DOMAIN Tail(c) = 1 .. Len(c) - 1
         /\ \A i \in DOMAIN Tail(c) : i \in Nat /\ i + 1 \in DOMAIN c /\ Tail(c)[i] = c[i + 1]
         /\ Head(c) = c[1] /\ 1 \in DOMAIN c /\ Head(c) \in S
<1>1. /\ Head(c) \in S /\ Tail(c) \in Seq(S) /\ Len(Tail(c)) = Len(c) - 1
      /\ \A i \in 1 .. Len(Tail(c)) : Tail(c)[i] = c[i + 1]
  BY HeadTailProperties
<1>2. Len(c) \in Nat /\ Len(c) # 0 /\ DOMAIN c = 1 .. Len(c)
  BY EmptySeq, LenProperties
<1>3. DOMAIN Tail(c) = 1 .. Len(Tail(c))
  BY <1>1, LenProperties
<1>4. Head(c) = c[1]
  OBVIOUS
<1> QED BY <1>1, <1>2, <1>3, <1>4

LEMMA SeqAppend ==
  ASSUME NEW S, NEW c \in Seq(S), NEW m \in S
  PROVE  /\ Append(c, m) \in Seq(S) /\ Len(c) \in Nat
         /\ DOMAIN c = 1 .. Len(c) /\ DOMAIN Append(c, m) = 1 .. Len(c) + 1
         /\ \A i \in DOMAIN c : Append(c, m)[i] = c[i]
         /\ Append(c, m)[Len(c) + 1] = m
<1>1. /\ Append(c, m) \in Seq(S) /\ Len(Append(c, m)) = Len(c) + 1
      /\ \A i \in 1 .. Len(c) : Append(c, m)[i] = c[i]
      /\ Append(c, m)[Len(c) + 1] = m
  BY AppendProperties
<1>2. Len(c) \in Nat /\ DOMAIN c = 1 .. Len(c)
  BY LenProperties
<1>3. DOMAIN Append(c, m) = 1 .. Len(Append(c, m))
  BY <1>1, LenProperties
<1> QED BY <1>1, <1>2, <1>3

LEMMA MessageTyped ==
  ASSUME NEW m \in Messages
  PROVE  /\ m.what \in {"event", "current", "error"} /\ m.n \in Nat /\ m.boot \in Nat
         /\ m.what = "event" => m \in EventMessages
         /\ m.what = "error" => m.of \in Numbers
BY DEF Messages, EventMessages

LEMMA FloorTyped == ASSUME NEW b \in Nat, NEW base \in Nat PROVE Floor(b, base) \in Nat
BY DEF Floor

LEMMA NewestIsNear ==
  ASSUME EventTyped, NEW base \in Nat, VehicleCounts(base)
  PROVE  /\ newest \in Nat /\ Floor(boot, base) \in Nat /\ Floor(boot, base) <= newest
         /\ newest <= Floor(boot, base) + MaxEvents
<1>1. boot \in Nat /\ newest \in Nat /\ happened \in 0 .. MaxEvents
  BY DEF EventTyped
<1>2. MaxEvents \in Nat
  BY EventsAssumption
<1>3. Floor(boot, base) \in Nat
  BY <1>1, FloorTyped
<1>4. Floor(boot, base) <= newest /\ newest <= Floor(boot, base) + happened
  BY DEF VehicleCounts
<1> QED BY <1>1, <1>2, <1>3, <1>4

\* What a message says stays so when more events happen in its boot.
LEMMA SaysStill ==
  ASSUME NEW m \in Messages, NEW top \in Nat, NEW base \in Nat, Tells(m, top, base),
         newest \in Nat, newest' \in Nat, newest <= newest', boot' = boot
  PROVE  Tells(m, top, base)'
<1>1. Depth \in Nat /\ m.n \in Nat
  BY MessageTyped, EventsAssumption
<1>2. m.n <= newest - Depth + 1 => m.n <= newest' - Depth + 1
  BY <1>1
<1> QED BY <1>2 DEF Tells, Floor, Number

LEMMA ArrivingAppend ==
  ASSUME arriving \in Seq(Messages), NEW m \in Messages
  PROVE  /\ Append(arriving, m) \in Seq(Messages) /\ Len(arriving) \in Nat
         /\ DOMAIN arriving = 1 .. Len(arriving) /\ DOMAIN Append(arriving, m) = 1 .. Len(arriving) + 1
         /\ \A i \in DOMAIN arriving : Append(arriving, m)[i] = arriving[i]
         /\ Append(arriving, m)[Len(arriving) + 1] = m
BY SeqAppend

LEMMA UpTo ==
  ASSUME NEW n \in Nat, NEW i \in 1 .. n
  PROVE  i \in Nat /\ (i = n \/ (i \in 1 .. n - 1 /\ i # n))
OBVIOUS

\* The messages on their way with one more, m, sent when the newest event was top.
ComesAlso(heard, base, level, m, top) ==
  \E more \in [Nat -> Nat] :
    /\ Coming(heard, base, more)'
    /\ \A i \in DOMAIN arriving' :
         \/ i \in DOMAIN arriving /\ arriving'[i] = arriving[i] /\ more[i] = level[i]
         \/ more[i] = top /\ arriving'[i] = m

\* A message of the present boot is sent.
LEMMA ComingMore ==
  ASSUME EventTyped, NEW heard \in Nat, NEW base \in Nat, NEW level \in [Nat -> Nat],
         Coming(heard, base, level), heard <= boot,
         NEW m \in Messages, m.boot = boot, arriving' = Append(arriving, m),
         NEW top \in Nat, newest' = top, newest <= top, boot' = boot,
         Floor(boot, base) <= top, top <= Floor(boot, base) + MaxEvents,
         Tells(m, top, base)'
  PROVE  arriving' \in Seq(Messages) /\ ComesAlso(heard, base, level, m, top)
<1>0. PICK last \in Nat : last = Len(arriving) + 1
  BY LenProperties DEF EventTyped
<1>1. /\ arriving' \in Seq(Messages) /\ arriving \in Seq(Messages) /\ newest \in Nat /\ boot \in Nat
      /\ DOMAIN arriving = 1 .. last - 1 /\ DOMAIN arriving' = 1 .. last
      /\ \A i \in DOMAIN arriving : arriving'[i] = arriving[i]
      /\ arriving'[last] = m
  <2>1. arriving \in Seq(Messages) /\ newest \in Nat /\ boot \in Nat
    BY DEF EventTyped
  <2>2. /\ Append(arriving, m) \in Seq(Messages) /\ Len(arriving) \in Nat
        /\ DOMAIN arriving = 1 .. Len(arriving) /\ DOMAIN Append(arriving, m) = 1 .. Len(arriving) + 1
        /\ \A i \in DOMAIN arriving : Append(arriving, m)[i] = arriving[i]
        /\ Append(arriving, m)[Len(arriving) + 1] = m
    BY <2>1, ArrivingAppend
  <2>3. arriving' = Append(arriving, m)
    OBVIOUS
  <2> QED BY <1>0, <2>1, <2>2, <2>3
<1>2. PICK more \in [Nat -> Nat] : more = [level EXCEPT ![last] = top]
  BY <1>0
<1>3. ASSUME NEW i \in DOMAIN arriving'
      PROVE  /\ i \in Nat
             /\ \/ i \in DOMAIN arriving /\ i # last /\ arriving'[i] = arriving[i] /\ more[i] = level[i]
                \/ i = last /\ more[i] = top /\ arriving'[i] = m
  <2>1. i \in Nat /\ (i = last \/ (i \in DOMAIN arriving /\ i # last))
    <3>1. i \in 1 .. last
      BY <1>1
    <3>2. i \in Nat /\ (i = last \/ (i \in 1 .. last - 1 /\ i # last))
      BY <3>1, UpTo
    <3> QED BY <1>1, <3>2
  <2> QED BY <1>1, <1>2, <2>1
<1>4. ASSUME NEW i \in DOMAIN arriving'
      PROVE  /\ heard <= arriving'[i].boot /\ arriving'[i].boot <= boot'
             /\ Floor(arriving'[i].boot, base) <= more[i]
             /\ more[i] <= Floor(arriving'[i].boot, base) + MaxEvents
             /\ arriving'[i].boot = boot' => more[i] <= newest'
             /\ Tells(arriving[i], more[i], base)'
  <2>1. CASE i \in DOMAIN arriving /\ arriving'[i] = arriving[i] /\ more[i] = level[i]
    <3>1. /\ heard <= arriving[i].boot /\ arriving[i].boot <= boot
          /\ Floor(arriving[i].boot, base) <= level[i]
          /\ level[i] <= Floor(arriving[i].boot, base) + MaxEvents
          /\ arriving[i].boot = boot => level[i] <= newest
          /\ Tells(arriving[i], level[i], base)
      BY <2>1 DEF Coming
    <3>2. arriving[i] \in Messages /\ i \in Nat /\ level[i] \in Nat
      <4>1. arriving \in Seq(Messages) /\ i \in DOMAIN arriving
        BY <1>1, <2>1
      <4>2. arriving[i] \in Messages
        BY <4>1, SeqElement
      <4> QED BY <1>3, <4>2
    <3>3. PICK x \in Messages : x = arriving[i]
      BY <3>2
    <3>4. Tells(x, level[i], base)'
      <4>1. Tells(x, level[i], base)
        BY <3>1, <3>3
      <4>2. newest \in Nat /\ newest' \in Nat /\ newest <= newest' /\ boot' = boot /\ level[i] \in Nat
        BY <1>1, <3>2
      <4> QED BY <4>1, <4>2, SaysStill
    <3>5. Tells(arriving[i], more[i], base)'
      BY <2>1, <3>3, <3>4 DEF Tells
    <3>6. arriving'[i].boot = boot' => more[i] <= newest'
      BY <1>1, <2>1, <3>1, <3>2
    <3> QED BY <2>1, <3>1, <3>5, <3>6
  <2>2. CASE i = last /\ more[i] = top /\ arriving'[i] = m
    <3>1. Tells(arriving[i], more[i], base)'
      BY <2>2 DEF Tells
    <3>2. arriving'[i].boot = boot /\ boot' = boot /\ more[i] = top
      BY <2>2
    <3>3. heard <= boot /\ boot <= boot /\ top <= newest'
      BY <1>1
    <3> QED BY <3>1, <3>2, <3>3
  <2> QED BY <1>3, <2>1, <2>2
<1>5. ASSUME NEW i \in DOMAIN arriving', NEW j \in DOMAIN arriving', i < j
      PROVE  /\ arriving'[i].boot <= arriving'[j].boot
             /\ arriving'[i].boot = arriving'[j].boot => more[i] <= more[j]
  <2>1. i \in Nat /\ j \in Nat /\ j <= last
    BY <1>1, <1>3
  <2>2. i # last
    BY <1>0, <1>5, <2>1
  <2>3. i \in DOMAIN arriving /\ arriving'[i] = arriving[i] /\ more[i] = level[i]
    BY <1>3, <2>2
  <2>4. CASE j \in DOMAIN arriving /\ arriving'[j] = arriving[j] /\ more[j] = level[j]
    BY <1>5, <2>3, <2>4 DEF Coming
  <2>5. CASE more[j] = top /\ arriving'[j] = m
    BY <1>4, <2>5
  <2> QED BY <1>3, <2>4, <2>5
<1>6. Coming(heard, base, more)'
  BY <1>4, <1>5 DEF Coming
<1>7. \A i \in DOMAIN arriving' :
        \/ i \in DOMAIN arriving /\ arriving'[i] = arriving[i] /\ more[i] = level[i]
        \/ more[i] = top /\ arriving'[i] = m
  BY <1>3
<1> QED BY <1>1, <1>6, <1>7 DEF ComesAlso

\* The messages on their way but the first, with what was sent when.
ComesLess(heard, base, level) ==
  \E less \in [Nat -> Nat] :
    /\ Coming(heard, base, less)'
    /\ \A i \in DOMAIN arriving' :
         i + 1 \in DOMAIN arriving /\ 1 < i + 1 /\ arriving'[i] = arriving[i + 1] /\ less[i] = level[i + 1]

\* The first message is gone; a message of boot h, not before it, is the last heard.
LEMMA ComingLess ==
  ASSUME EventTyped, NEW heard \in Nat, NEW base \in Nat, NEW level \in [Nat -> Nat],
         Coming(heard, base, level), arriving # <<>>, arriving' = Tail(arriving),
         boot' = boot, newest' = newest,
         NEW h \in Nat, h = heard \/ h = arriving[1].boot
  PROVE  arriving' \in Seq(Messages) /\ ComesLess(h, base, level)
<1>0. PICK less \in [Nat -> Nat] : less = [i \in Nat |-> level[i + 1]]
  <2>1. \A i \in Nat : level[i + 1] \in Nat
    <3>1. \A i \in Nat : i + 1 \in Nat
      OBVIOUS
    <3> QED BY <3>1
  <2> QED BY <2>1
<1>1. arriving \in Seq(Messages) /\ arriving' \in Seq(Messages) /\ 1 \in DOMAIN arriving
  BY SeqTail DEF EventTyped
<1>2. ASSUME NEW i \in DOMAIN arriving'
      PROVE  /\ i \in Nat /\ i + 1 \in DOMAIN arriving /\ 1 < i + 1
             /\ arriving'[i] = arriving[i + 1] /\ less[i] = level[i + 1]
  <2>1. i \in Nat /\ i \in 1 .. Len(arriving) - 1 /\ i + 1 \in DOMAIN arriving /\ arriving'[i] = arriving[i + 1]
        /\ Len(arriving) \in Nat
    BY <1>1, SeqTail
  <2>2. less[i] = level[i + 1]
    BY <1>0, <2>1
  <2>3. i >= 1 /\ i \in Int
    BY <2>1
  <2> QED BY <2>1, <2>2, <2>3
<1>4. ASSUME NEW i \in DOMAIN arriving'
      PROVE  /\ h <= arriving'[i].boot /\ arriving'[i].boot <= boot'
             /\ Floor(arriving'[i].boot, base) <= less[i]
             /\ less[i] <= Floor(arriving'[i].boot, base) + MaxEvents
             /\ arriving'[i].boot = boot' => less[i] <= newest'
             /\ Tells(arriving[i], less[i], base)'
  <2>1. PICK j \in DOMAIN arriving : j = i + 1 /\ 1 < j /\ arriving'[i] = arriving[j] /\ less[i] = level[j]
    BY <1>2
  <2>2. Tells(arriving[i], less[i], base)'
    <3>1. Tells(arriving[j], level[j], base)
      BY DEF Coming
    <3> QED BY <2>1, <3>1 DEF Tells, Floor
  <2>3. h <= arriving'[i].boot
    BY <1>1, <2>1 DEF Coming
  <2> QED BY <2>1, <2>2, <2>3 DEF Coming
<1>5. ASSUME NEW i \in DOMAIN arriving', NEW j \in DOMAIN arriving', i < j
      PROVE  /\ arriving'[i].boot <= arriving'[j].boot
             /\ arriving'[i].boot = arriving'[j].boot => less[i] <= less[j]
  <2>1. i + 1 < j + 1
    BY <1>2, <1>5
  <2> QED BY <1>2, <2>1 DEF Coming
<1>6. Coming(h, base, less)'
  BY <1>4, <1>5 DEF Coming
<1>7. \A i \in DOMAIN arriving' :
        i + 1 \in DOMAIN arriving /\ 1 < i + 1 /\ arriving'[i] = arriving[i + 1] /\ less[i] = level[i + 1]
  BY <1>2
<1> QED BY <1>1, <1>6, <1>7 DEF ComesLess

LEMMA StillKept ==
  ASSUME NEW a \in Nat, NEW b \in Nat, a <= b, NEW d \in Nat, NEW n \in 1 .. b, n > b - d, n <= a
  PROVE  n \in 1 .. a /\ n > a - d
OBVIOUS

\* The station counts as before when only what is on its way, or the newest event, changes.
LEMMA StationStays ==
  ASSUME EventTyped, NEW heard \in Nat, NEW base \in Nat, NEW count \in Nat, NEW level \in [Nat -> Nat],
         StationCounts(heard, base, count, level),
         UNCHANGED <<latest, stamp, setBacks, delivered, basis, boot>>, newest <= newest', newest' \in Nat,
         NEW more \in [Nat -> Nat],
         CountsIn(heard) => \A i \in DOMAIN arriving' : arriving'[i].boot = heard => count <= more[i]
  PROVE  StationCounts(heard, base, count, more)'
<1>1. CountsIn(heard)' <=> CountsIn(heard)
  BY DEF CountsIn
<1>2. ASSUME CountsIn(heard) PROVE Counted(heard, base, count)'
  <2>1. Counted(heard, base, count)
    BY <1>2 DEF StationCounts
  <2>2. heard = boot' => count <= newest'
    <3>1. heard = boot => count <= newest
      BY <2>1 DEF Counted
    <3>2. newest \in Nat /\ boot' = boot
      BY DEF EventTyped
    <3> QED BY <3>1, <3>2
  <2>3. ASSUME basis'.boot = boot', NEW n \in Available', basis'.from <= n, n <= count
        PROVE  Event(n)' \in {delivered'[i] : i \in DOMAIN delivered'}
    <3>1. basis.boot \in Int /\ boot \in Nat /\ newest \in Nat /\ Depth \in Nat
      BY EventsAssumption DEF EventTyped
    <3>2. basis.boot <= heard /\ heard <= boot
      BY DEF StationCounts
    <3>3. heard = boot
      BY <2>3, <3>1, <3>2
    <3>4. count <= newest
      BY <2>1, <3>3 DEF Counted
    <3>5. n \in 1 .. newest' /\ n > newest' - Depth
      BY <2>3 DEF Available
    <3>6. n \in 1 .. newest /\ n > newest - Depth
      <4>1. newest' \in Nat /\ newest <= newest'
        OBVIOUS
      <4>2. PICK a \in Nat, b \in Nat, d \in Nat : a = newest /\ b = newest' /\ d = Depth
        BY <3>1, <4>1
      <4>3. a <= b /\ n \in 1 .. b /\ n > b - d
        BY <3>5, <4>1, <4>2
      <4>4. n <= a
        <5>1. count <= a /\ n <= count /\ n \in Int
          BY <2>3, <3>4, <4>2, <4>3
        <5> QED BY <5>1
      <4>5. n \in 1 .. a /\ n > a - d
        BY <4>3, <4>4, StillKept
      <4> QED BY <4>2, <4>5
    <3>7. n \in Available
      BY <3>6 DEF Available
    <3>8. basis.boot = boot /\ basis.from <= n
      BY <2>3
    <3>9. Event(n) \in {delivered[i] : i \in DOMAIN delivered}
      BY <2>1, <2>3, <3>7, <3>8 DEF Counted
    <3> QED BY <3>9 DEF Event
  <2>4. setBacks' = 0 =>
          \A i \in DOMAIN delivered' : delivered'[i].boot = heard => delivered'[i].n <= count
    BY <2>1 DEF Counted
  <2>5. latest' = Number(count) /\ Floor(heard, base) <= count /\ count <= Floor(heard, base) + MaxEvents
    BY <2>1 DEF Counted
  <2> QED BY <2>2, <2>3, <2>4, <2>5 DEF Counted
<1>3. /\ latest' # Unknown => basis'.boot >= 0
      /\ basis'.boot <= heard /\ stamp'.boot <= heard /\ heard <= boot'
      /\ \A i \in DOMAIN delivered' : delivered'[i].boot <= stamp'.boot
  BY DEF StationCounts
<1>4. CountsIn(heard)' =>
        /\ Counted(heard, base, count)'
        /\ \A i \in DOMAIN arriving' : arriving'[i].boot = heard => count <= more[i]
  BY <1>1, <1>2
<1> QED BY <1>3, <1>4 DEF StationCounts

LEMMA OrderStays ==
  ASSUME InOrder, UNCHANGED <<delivered, setBacks>>
  PROVE  InOrder'
BY DEF InOrder

\* A vehicle sends a message of its present boot.
LEMMA Sends ==
  ASSUME EventTyped, InOrder,
         NEW heard \in Nat, NEW base \in Nat, NEW count \in Nat, NEW level \in [Nat -> Nat],
         Coming(heard, base, level), StationCounts(heard, base, count, level),
         NEW m \in Messages, m.boot = boot, arriving' = Append(arriving, m),
         UNCHANGED <<latest, stamp, setBacks, delivered, basis, boot>>,
         NEW top \in Nat, newest' = top, newest <= top,
         happened' \in 0 .. MaxEvents, asked' \in Seq(Numbers),
         VehicleCounts(base)', Tells(m, top, base)'
  PROVE  EventInv'
<1>1. boot \in Nat /\ newest \in Nat /\ heard <= boot /\ MaxEvents \in Nat
  BY EventsAssumption DEF EventTyped, StationCounts
<1>2. Floor(boot, base) <= top /\ top <= Floor(boot, base) + MaxEvents
  <2>1. Floor(boot, base) \in Nat
    BY <1>1, FloorTyped
  <2>2. Floor(boot, base) <= top /\ top <= Floor(boot, base) + happened'
    BY DEF VehicleCounts, Floor
  <2>3. PICK h \in 0 .. MaxEvents : h = happened'
    OBVIOUS
  <2>4. PICK f \in Nat : f = Floor(boot, base)
    BY <2>1
  <2>5. f <= top /\ top <= f + h
    BY <2>2, <2>3, <2>4
  <2>6. top <= f + MaxEvents
    BY <1>1, <2>5
  <2> QED BY <2>4, <2>5, <2>6
<1>3. arriving' \in Seq(Messages) /\ ComesAlso(heard, base, level, m, top)
  <2>1. boot' = boot /\ newest <= top
    OBVIOUS
  <2> QED BY <1>1, <1>2, <2>1, ComingMore
<1>4. PICK more \in [Nat -> Nat] :
        /\ Coming(heard, base, more)'
        /\ \A i \in DOMAIN arriving' :
             \/ i \in DOMAIN arriving /\ arriving'[i] = arriving[i] /\ more[i] = level[i]
             \/ more[i] = top /\ arriving'[i] = m
  BY <1>3 DEF ComesAlso
<1>5. ASSUME CountsIn(heard), NEW i \in DOMAIN arriving', arriving'[i].boot = heard
      PROVE  count <= more[i]
  <2>1. CASE i \in DOMAIN arriving /\ arriving'[i] = arriving[i] /\ more[i] = level[i]
    BY <1>5, <2>1 DEF StationCounts
  <2>2. CASE more[i] = top /\ arriving'[i] = m
    <3>1. heard = boot
      BY <1>5, <2>2
    <3>2. count <= newest
      BY <1>5, <3>1 DEF StationCounts, Counted
    <3>3. PICK n \in Nat : n = newest
      BY <1>1
    <3>4. count <= n /\ n <= top
      BY <3>2, <3>3
    <3>5. count <= top
      BY <3>4
    <3> QED BY <2>2, <3>5
  <2> QED BY <1>4, <2>1, <2>2
<1>6. StationCounts(heard, base, count, more)'
  <2>1. newest <= newest' /\ newest' \in Nat
    OBVIOUS
  <2>2. CountsIn(heard) => \A i \in DOMAIN arriving' : arriving'[i].boot = heard => count <= more[i]
    BY <1>5
  <2> QED BY <2>1, <2>2, StationStays
<1>7. EventStory'
  BY <1>4, <1>6 DEF EventStory
<1>8. EventTyped'
  BY <1>3 DEF EventTyped
<1>9. InOrder'
  BY OrderStays
<1> QED BY <1>7, <1>8, <1>9 DEF EventInv

LEMMA EventHappensInv ==
  ASSUME EventInv, EventHappens
  PROVE  EventInv'
<1>1. EventTyped /\ InOrder
  BY DEF EventInv
<1>2. PICK heard \in Nat, base \in Nat, count \in Nat, level \in [Nat -> Nat] :
        VehicleCounts(base) /\ Coming(heard, base, level) /\ StationCounts(heard, base, count, level)
  BY DEF EventInv, EventStory
<1>3. newest \in Nat /\ boot \in Nat /\ happened \in Nat /\ MaxEvents \in Nat /\ asked \in Seq(Numbers)
  BY <1>1, EventsAssumption DEF EventTyped
<1>4. PICK top \in Nat : top = newest + 1
  BY <1>3
<1>5. newest' = top /\ newest <= top
  BY <1>3, <1>4 DEF EventHappens
<1>6. PICK m \in Messages : m = Event(top)
  <2>1. Event(top) \in Messages
    BY <1>3 DEF Event, Messages, EventMessages
  <2> QED BY <2>1
<1>7. arriving' = Append(arriving, m) /\ m.boot = boot /\ m.what = "event" /\ m.n = top
  <2>1. arriving' = Append(arriving, Event(newest'))
    BY DEF EventHappens, Say
  <2> QED BY <1>5, <1>6, <2>1 DEF Event
<1>8. UNCHANGED <<latest, stamp, setBacks, delivered, basis, boot, asked>>
  BY DEF EventHappens, station
<1>9. happened' = happened + 1 /\ happened' \in 0 .. MaxEvents
  <2>1. happened < MaxEvents /\ happened' = happened + 1
    BY DEF EventHappens
  <2> QED BY <1>3, <2>1
<1>10. Floor(boot, base) \in Nat /\ Floor(boot, base) <= newest /\ newest <= Floor(boot, base) + happened
  BY <1>2, <1>3, FloorTyped DEF VehicleCounts
<1>11. VehicleCounts(base)'
  <2>1. Floor(boot, base) <= newest' /\ newest' <= Floor(boot, base) + happened'
    <3>1. PICK f \in Nat, n \in Nat, k \in Nat : f = Floor(boot, base) /\ n = newest /\ k = happened
      BY <1>3, <1>10
    <3>2. f <= n + 1 /\ n + 1 <= f + (k + 1)
      BY <1>10, <3>1
    <3> QED BY <1>4, <1>5, <1>9, <3>1, <3>2
  <2> QED BY <1>2, <1>8, <2>1 DEF VehicleCounts
<1>12. Tells(m, top, base)'
  <2>1. Floor(boot, base) < top
    BY <1>3, <1>4, <1>10
  <2> QED BY <1>7, <2>1 DEF Tells
<1> QED BY <1>1, <1>2, <1>3, <1>5, <1>7, <1>8, <1>9, <1>11, <1>12, Sends

LEMMA CurrentSentInv ==
  ASSUME EventInv, CurrentSent
  PROVE  EventInv'
<1>1. EventTyped /\ InOrder
  BY DEF EventInv
<1>2. PICK heard \in Nat, base \in Nat, count \in Nat, level \in [Nat -> Nat] :
        VehicleCounts(base) /\ Coming(heard, base, level) /\ StationCounts(heard, base, count, level)
  BY DEF EventInv, EventStory
<1>3. newest \in Nat /\ boot \in Nat /\ happened \in 0 .. MaxEvents /\ asked \in Seq(Numbers)
  BY <1>1 DEF EventTyped
<1>4. PICK top \in Nat : top = newest
  BY <1>3
<1>5. newest' = top /\ newest <= top
  BY <1>3, <1>4 DEF CurrentSent
<1>6. PICK m \in Messages : m = Current
  <2>1. Current \in Messages
    BY <1>3 DEF Current, Messages
  <2> QED BY <2>1
<1>7. arriving' = Append(arriving, m) /\ m.boot = boot /\ m.what = "current" /\ m.n = top
  BY <1>4, <1>6 DEF CurrentSent, Say, Current
<1>8. UNCHANGED <<latest, stamp, setBacks, delivered, basis, boot, asked, happened>>
  BY DEF CurrentSent, station
<1>9. VehicleCounts(base)'
  BY <1>2, <1>4, <1>5, <1>8 DEF VehicleCounts
<1>10. Tells(m, top, base)'
  BY <1>7 DEF Tells
<1> QED BY <1>1, <1>2, <1>3, <1>5, <1>7, <1>8, <1>9, <1>10, Sends

\* A request answered with an event is answered with the event asked for.
LEMMA FoundIsAsked ==
  ASSUME NEW low \in Nat, NEW high \in Nat, low <= high, high <= low + MaxEvents,
         NEW n \in 1 .. high, n > high - Depth, KeepsFew,
         NEW k \in low + 1 .. low + MaxEvents + 1, Number(n) = Number(k)
  PROVE  n = k
<1>1. Modulus \in Nat /\ Depth \in Nat /\ MaxEvents \in Nat /\ Depth + MaxEvents < Modulus /\ Depth >= 1
  BY EventsAssumption DEF KeepsFew
<1>2. n \in Int /\ k \in Int /\ n - k < Modulus /\ k - n < Modulus
  BY <1>1
<1> QED BY <1>2, SameNumber

\* A request answered with an error: no event is skipped that the vehicle keeps.
LEMMA OldestSkipsNone ==
  ASSUME newest \in Nat, NEW low \in Nat, low <= newest, newest <= low + MaxEvents,
         NEW s, \A n \in Available : Number(n) # s
  PROVE  /\ OldestAfter(s) \in Nat /\ OldestAfter(s) <= newest + 1
         /\ \A k \in low + 1 .. newest + 1 : Number(k) = s =>
              k <= OldestAfter(s) /\ (k < OldestAfter(s) => OldestAfter(s) <= newest - Depth + 1)
<1>1. Depth \in Nat /\ Depth >= 1 /\ MaxEvents \in Nat
  BY EventsAssumption
<1>2. CASE Available = {} \/ Newer(Number(newest), s)
  <2>1. OldestAfter(s) = newest + 1
    BY <1>2 DEF OldestAfter
  <2>2. ASSUME NEW k \in low + 1 .. newest + 1, Number(k) = s, k <= newest PROVE FALSE
    <3>1. newest \in 1 .. newest /\ newest > newest - Depth
      BY <1>1, <2>2
    <3>2. newest \in Available
      BY <3>1 DEF Available
    <3>3. k \in Int /\ newest \in Int /\ newest - k <= MaxEvents
      <4>1. PICK n \in Nat, e \in Nat : n = newest /\ e = MaxEvents
        BY <1>1
      <4>2. n <= low + e
        BY <4>1
      <4>3. n - k <= e /\ k \in Int
        BY <4>2
      <4> QED BY <4>1, <4>3
    <3>4. ~Newer(Number(newest), Number(k))
      BY <2>2, <3>3, NotNewerBehind
    <3> QED BY <1>2, <2>2, <3>2, <3>4
  <2>3. ASSUME NEW k \in low + 1 .. newest + 1, Number(k) = s PROVE k = newest + 1
    BY <2>2, <2>3
  <2>4. newest + 1 \in Nat /\ newest + 1 <= newest + 1
    OBVIOUS
  <2> QED BY <2>1, <2>3, <2>4
<1>3. CASE Available # {} /\ ~Newer(Number(newest), s)
  <2>1. PICK lo \in Nat : lo = IF newest > Depth THEN newest - Depth + 1 ELSE 1
    <3>1. PICK n \in Nat, d \in Nat : n = newest /\ d = Depth
      BY <1>1
    <3>2. (IF n > d THEN n - d + 1 ELSE 1) \in Nat
      OBVIOUS
    <3> QED BY <3>1, <3>2
  <2>2. newest >= 1
    BY <1>3 DEF Available
  <2>3. lo \in 1 .. newest /\ lo > newest - Depth
    BY <1>1, <2>1, <2>2
  <2>4. \A n \in 1 .. newest : n > newest - Depth => lo <= n
    BY <1>1, <2>1
  <2>5. lo \in Available /\ \A n \in Available : lo <= n
    BY <2>3, <2>4 DEF Available
  <2>6. \A n \in Available : (\A m \in Available : n <= m) => n = lo
    <3>1. ASSUME NEW n \in Available, \A m \in Available : n <= m PROVE n = lo
      <4>1. n <= lo /\ lo <= n /\ n \in Nat
        BY <2>5, <3>1 DEF Available
      <4> QED BY <4>1
    <3> QED BY <3>1
  <2>7. OldestAfter(s) = lo
    <3>1. OldestAfter(s) = CHOOSE n \in Available : \A m \in Available : n <= m
      BY <1>3 DEF OldestAfter
    <3> QED BY <2>5, <2>6, <3>1
  <2>8. lo <= newest + 1
    BY <2>3
  <2>9. ASSUME NEW k \in low + 1 .. newest + 1, Number(k) = s
        PROVE  k <= lo /\ (k < lo => lo <= newest - Depth + 1)
    <3>1. k # newest + 1
      <4>1. ASSUME k = newest + 1 PROVE FALSE
        <5>1. newest \in Int /\ k \in Int /\ newest < k /\ k - newest <= MaxEvents + 1
          BY <1>1, <4>1
        <5>2. Newer(Number(newest), Number(k))
          BY <5>1, NewerAhead
        <5> QED BY <1>3, <2>9, <5>2
      <4> QED BY <4>1
    <3>2. k \in 1 .. newest
      BY <3>1
    <3>3. ~(k > newest - Depth)
      BY <2>9, <3>2 DEF Available
    <3> QED BY <1>1, <2>1, <3>2, <3>3
  <2> QED BY <2>7, <2>8, <2>9
<1> QED BY <1>2, <1>3

LEMMA ServeInv ==
  ASSUME EventInv, KeepsFew, Serve
  PROVE  EventInv'
<1>1. EventTyped /\ InOrder
  BY DEF EventInv
<1>2. PICK heard \in Nat, base \in Nat, count \in Nat, level \in [Nat -> Nat] :
        VehicleCounts(base) /\ Coming(heard, base, level) /\ StationCounts(heard, base, count, level)
  BY DEF EventInv, EventStory
<1>3. newest \in Nat /\ boot \in Nat /\ happened \in 0 .. MaxEvents /\ asked \in Seq(Numbers)
  BY <1>1 DEF EventTyped
<1>4. PICK top \in Nat, low \in Nat : top = newest /\ low = Floor(boot, base)
  BY <1>3, FloorTyped
<1>5. low <= top /\ top <= low + MaxEvents
  <2>1. Floor(boot, base) <= newest /\ newest <= Floor(boot, base) + MaxEvents
    BY <1>1, <1>2, NewestIsNear
  <2> QED BY <1>4, <2>1
<1>6. UNCHANGED <<latest, stamp, setBacks, delivered, basis, boot, newest, happened>> /\ newest <= top
  BY <1>3, <1>4 DEF Serve, station, board
<1>7. /\ asked # <<>> /\ asked' = Tail(asked)
  BY DEF Serve
<1>8. /\ asked' \in Seq(Numbers) /\ 1 \in DOMAIN asked /\ Head(asked) = asked[1] /\ Head(asked) \in Numbers
      /\ \A i \in DOMAIN asked' : i + 1 \in DOMAIN asked /\ asked'[i] = asked[i + 1]
  BY <1>3, <1>7, SeqTail
<1>9. PICK s \in Numbers : s = Head(asked)
  BY <1>8
<1>10. boot = 0 => low = base /\ \E k \in low + 1 .. low + MaxEvents + 1 : s = Number(k)
  BY <1>2, <1>4, <1>8, <1>9 DEF VehicleCounts, Floor
<1>11. VehicleCounts(base)'
  <2>1. boot = 0 => \A i \in DOMAIN asked' : \E k \in base + 1 .. base + MaxEvents + 1 : asked'[i] = Number(k)
    BY <1>2, <1>8 DEF VehicleCounts
  <2> QED BY <1>2, <1>6, <2>1 DEF VehicleCounts
<1>12. ASSUME NEW m \in Messages, m.boot = boot, arriving' = Append(arriving, m), Tells(m, top, base)'
       PROVE  EventInv'
  <2>1. newest' = top /\ newest <= top
    BY <1>4, <1>6
  <2>2. happened' \in 0 .. MaxEvents
    BY <1>3, <1>6
  <2> QED BY <1>1, <1>2, <1>6, <1>8, <1>11, <1>12, <2>1, <2>2, Sends
<1>13. ASSUME NEW n \in Available, Number(n) = s, arriving' = Append(arriving, Event(n))
       PROVE  EventInv'
  <2>1. n \in 1 .. top /\ n > top - Depth
    BY <1>4 DEF Available
  <2>2. Event(n) \in Messages
    <3>1. n \in Nat
      BY <2>1
    <3>2. Event(n) \in EventMessages
      BY <1>3, <3>1 DEF Event, EventMessages
    <3> QED BY <3>2 DEF Messages
  <2>3. low < n
    <3>1. CASE boot = 0
      <4>1. PICK k \in low + 1 .. low + MaxEvents + 1 : s = Number(k)
        BY <1>10, <3>1
      <4>2. n = k
        BY <1>5, <1>13, <2>1, <4>1, FoundIsAsked
      <4> QED BY <4>2
    <3>2. CASE boot # 0
      BY <1>4, <2>1, <3>2 DEF Floor
    <3> QED BY <3>1, <3>2
  <2>4. PICK m \in Messages : m = Event(n)
    BY <2>2
  <2>5. m.boot = boot /\ m.what = "event" /\ m.n = n
    BY <2>4 DEF Event
  <2>6. Tells(m, top, base)'
    BY <1>4, <1>6, <2>1, <2>3, <2>5 DEF Tells
  <2> QED BY <1>12, <1>13, <2>4, <2>5, <2>6
<1>14. ASSUME \A n \in Available : Number(n) # s, arriving' = Append(arriving, NotAvailable(s))
       PROVE  EventInv'
  <2>1. /\ OldestAfter(s) \in Nat /\ OldestAfter(s) <= newest + 1
        /\ \A k \in low + 1 .. newest + 1 : Number(k) = s =>
             k <= OldestAfter(s) /\ (k < OldestAfter(s) => OldestAfter(s) <= newest - Depth + 1)
    BY <1>3, <1>4, <1>5, <1>14, OldestSkipsNone
  <2>2. NotAvailable(s) \in Messages
    BY <1>3, <2>1 DEF NotAvailable, Messages
  <2>3. PICK m \in Messages : m = NotAvailable(s)
    BY <2>2
  <2>4. m.boot = boot /\ m.what = "error" /\ m.n = OldestAfter(s) /\ m.of = s
    BY <2>3 DEF NotAvailable
  <2>5. Tells(m, top, base)'
    BY <1>4, <1>6, <2>1, <2>4 DEF Tells, Number
  <2> QED BY <1>12, <1>14, <2>3, <2>4, <2>5
<1>15. \/ \E n \in Available : Number(n) = s /\ arriving' = Append(arriving, Event(n))
       \/ (\A n \in Available : Number(n) # s) /\ arriving' = Append(arriving, NotAvailable(s))
  BY <1>9 DEF Serve, Say
<1> QED BY <1>13, <1>14, <1>15

LEMMA RestartInv ==
  ASSUME EventInv, Restart
  PROVE  EventInv'
<1>1. EventTyped /\ InOrder
  BY DEF EventInv
<1>2. PICK heard \in Nat, base \in Nat, count \in Nat, level \in [Nat -> Nat] :
        VehicleCounts(base) /\ Coming(heard, base, level) /\ StationCounts(heard, base, count, level)
  BY DEF EventInv, EventStory
<1>3. /\ boot \in Nat /\ happened \in Nat /\ happened' = happened /\ boot' = boot + 1 /\ newest' = 0
      /\ UNCHANGED <<latest, stamp, setBacks, delivered, basis, asked, arriving>>
  BY <1>1 DEF Restart, station, EventTyped
<1>4. boot' # 0 /\ boot' \in Nat /\ boot < boot'
  BY <1>3
<1>5. VehicleCounts(base)'
  <2>1. Floor(boot', base) = 0
    BY <1>4 DEF Floor
  <2>2. 0 <= newest' /\ newest' <= 0 + happened'
    BY <1>3
  <2> QED BY <1>4, <2>1, <2>2 DEF VehicleCounts, Floor
<1>6. ASSUME NEW i \in DOMAIN arriving PROVE arriving[i].boot <= boot' /\ arriving[i].boot # boot'
  <2>1. arriving[i].boot \in Nat /\ arriving[i].boot <= boot
    BY <1>1, <1>2, SeqElement, MessageTyped DEF Coming, EventTyped
  <2> QED BY <1>3, <2>1
<1>7. ASSUME NEW i \in DOMAIN arriving PROVE Tells(arriving[i], level[i], base)'
  <2>1. Tells(arriving[i], level[i], base)
    BY <1>2 DEF Coming
  <2>2. arriving'[i] = arriving[i]
    BY <1>3
  <2> QED BY <1>6, <2>1, <2>2 DEF Tells
<1>8. Coming(heard, base, level)'
  BY <1>2, <1>3, <1>6, <1>7 DEF Coming
<1>9. StationCounts(heard, base, count, level)'
  <2>1. heard <= boot /\ basis.boot <= heard /\ basis.boot \in Int
    BY <1>1, <1>2 DEF StationCounts, EventTyped
  <2>2. heard # boot' /\ heard <= boot' /\ basis.boot # boot'
    BY <1>3, <2>1
  <2>3. CountsIn(heard)' <=> CountsIn(heard)
    BY <1>3 DEF CountsIn
  <2>4. CountsIn(heard) => Counted(heard, base, count)'
    BY <1>2, <1>3, <2>2 DEF StationCounts, Counted
  <2> QED BY <1>2, <1>3, <2>2, <2>3, <2>4 DEF StationCounts
<1>10. EventTyped'
  BY <1>1, <1>3 DEF EventTyped
<1>11. InOrder'
  BY <1>1, <1>3, OrderStays
<1>12. EventStory'
  BY <1>5, <1>8, <1>9 DEF EventStory
<1> QED BY <1>10, <1>11, <1>12 DEF EventInv

\* What the vehicle and the station hold stays; less or as much is on its way.
LEMMA ComesStill ==
  ASSUME EventTyped, InOrder,
         NEW heard \in Nat, NEW base \in Nat, NEW count \in Nat, NEW level \in [Nat -> Nat],
         VehicleCounts(base), StationCounts(heard, base, count, level),
         UNCHANGED <<latest, stamp, setBacks, delivered, basis, boot, newest, happened>>,
         asked' \in Seq(Numbers), arriving' \in Seq(Messages),
         boot = 0 => \A i \in DOMAIN asked' : \E k \in base + 1 .. base + MaxEvents + 1 : asked'[i] = Number(k),
         NEW more \in [Nat -> Nat], Coming(heard, base, more)',
         \A i \in DOMAIN arriving' : \E j \in DOMAIN arriving : arriving'[i] = arriving[j] /\ more[i] = level[j]
  PROVE  EventInv'
<1>1. newest \in Nat
  BY DEF EventTyped
<1>2. newest <= newest' /\ newest' \in Nat
  BY <1>1
<1>3. CountsIn(heard) => \A i \in DOMAIN arriving' : arriving'[i].boot = heard => count <= more[i]
  BY DEF StationCounts
<1>4. StationCounts(heard, base, count, more)'
  BY <1>2, <1>3, StationStays
<1>5. VehicleCounts(base)'
  BY DEF VehicleCounts
<1>6. EventTyped'
  BY DEF EventTyped
<1>7. InOrder'
  BY OrderStays
<1>8. EventStory'
  BY <1>4, <1>5 DEF EventStory
<1> QED BY <1>6, <1>7, <1>8 DEF EventInv

LEMMA DropInv ==
  ASSUME EventInv, Drop
  PROVE  EventInv'
<1>1. EventTyped /\ InOrder /\ asked \in Seq(Numbers) /\ arriving \in Seq(Messages)
  BY DEF EventInv, EventTyped
<1>2. PICK heard \in Nat, base \in Nat, count \in Nat, level \in [Nat -> Nat] :
        VehicleCounts(base) /\ Coming(heard, base, level) /\ StationCounts(heard, base, count, level)
  BY DEF EventInv, EventStory
<1>3. UNCHANGED <<latest, stamp, setBacks, delivered, basis, boot, newest, happened>>
  BY DEF Drop, station, board
<1>4. CASE asked # <<>> /\ asked' = Tail(asked) /\ arriving' = arriving
  <2>1. asked' \in Seq(Numbers) /\ \A i \in DOMAIN asked' : i + 1 \in DOMAIN asked /\ asked'[i] = asked[i + 1]
    BY <1>1, <1>4, SeqTail
  <2>2. boot = 0 => \A i \in DOMAIN asked' : \E k \in base + 1 .. base + MaxEvents + 1 : asked'[i] = Number(k)
    BY <1>2, <2>1 DEF VehicleCounts
  <2>3. Coming(heard, base, level)'
    BY <1>2, <1>3, <1>4 DEF Coming, Tells
  <2>4. \A i \in DOMAIN arriving' : \E j \in DOMAIN arriving : arriving'[i] = arriving[j] /\ level[i] = level[j]
    BY <1>4
  <2>5. arriving' \in Seq(Messages)
    BY <1>1, <1>4
  <2> QED BY <1>1, <1>2, <1>3, <2>1, <2>2, <2>3, <2>4, <2>5, ComesStill
<1>5. CASE arriving # <<>> /\ arriving' = Tail(arriving) /\ asked' = asked
  <2>1. boot' = boot /\ newest' = newest
    BY <1>3
  <2>2. arriving' \in Seq(Messages) /\ ComesLess(heard, base, level)
    BY <1>1, <1>2, <1>5, <2>1, ComingLess
  <2>3. PICK less \in [Nat -> Nat] :
          /\ Coming(heard, base, less)'
          /\ \A i \in DOMAIN arriving' :
               i + 1 \in DOMAIN arriving /\ 1 < i + 1 /\ arriving'[i] = arriving[i + 1] /\ less[i] = level[i + 1]
    BY <2>2 DEF ComesLess
  <2>4. \A i \in DOMAIN arriving' : \E j \in DOMAIN arriving : arriving'[i] = arriving[j] /\ less[i] = level[j]
    BY <2>3
  <2>5. boot = 0 => \A i \in DOMAIN asked' : \E k \in base + 1 .. base + MaxEvents + 1 : asked'[i] = Number(k)
    BY <1>2, <1>5 DEF VehicleCounts
  <2>6. asked' \in Seq(Numbers)
    BY <1>1, <1>5
  <2> QED BY <1>1, <1>2, <1>3, <2>2, <2>3, <2>4, <2>5, <2>6, ComesStill
<1> QED BY <1>4, <1>5 DEF Drop

\* A message that comes twice says the same twice.
LEMMA RepeatInv ==
  ASSUME EventInv, Repeat
  PROVE  EventInv'
<1>1. EventTyped /\ InOrder /\ asked \in Seq(Numbers) /\ arriving \in Seq(Messages)
  BY DEF EventInv, EventTyped
<1>2. PICK heard \in Nat, base \in Nat, count \in Nat, level \in [Nat -> Nat] :
        VehicleCounts(base) /\ Coming(heard, base, level) /\ StationCounts(heard, base, count, level)
  BY DEF EventInv, EventStory
<1>3. /\ UNCHANGED <<latest, stamp, setBacks, delivered, basis, boot, newest, happened, asked>>
      /\ Len(arriving) = 1 /\ arriving' = arriving \o arriving
  BY DEF Repeat, station, board
<1>4. PICK more \in [Nat -> Nat] : more = [i \in Nat |-> level[1]]
  OBVIOUS
<1>5. DOMAIN arriving = 1 .. 1
  BY <1>1, <1>3, LenProperties
<1>6. /\ arriving' \in Seq(Messages)
      /\ \A i \in DOMAIN arriving' : i \in Nat /\ arriving'[i] = arriving[1]
  <2>1. /\ arriving \o arriving \in Seq(Messages) /\ Len(arriving \o arriving) = 2
        /\ \A i \in 1 .. 2 : (arriving \o arriving)[i] = IF i <= 1 THEN arriving[i] ELSE arriving[i - 1]
    <3>1. /\ arriving \o arriving \in Seq(Messages) /\ Len(arriving \o arriving) = Len(arriving) + Len(arriving)
          /\ \A i \in 1 .. Len(arriving) + Len(arriving) :
               (arriving \o arriving)[i] =
                 IF i <= Len(arriving) THEN arriving[i] ELSE arriving[i - Len(arriving)]
      BY <1>1, ConcatProperties
    <3>2. Len(arriving) + Len(arriving) = 2
      BY <1>3
    <3> QED BY <1>3, <3>1, <3>2
  <2>2. DOMAIN (arriving \o arriving) = 1 .. 2
    BY <2>1, LenProperties
  <2>3. \A i \in 1 .. 2 : i \in Nat /\ (i = 1 \/ i = 2)
    OBVIOUS
  <2>4. (arriving \o arriving)[1] = arriving[1] /\ (arriving \o arriving)[2] = arriving[1]
    <3>1. 1 \in 1 .. 2 /\ 2 \in 1 .. 2 /\ 2 - 1 = 1 /\ 1 <= 1 /\ ~(2 <= 1)
      OBVIOUS
    <3>2. (arriving \o arriving)[1] = IF 1 <= 1 THEN arriving[1] ELSE arriving[1 - 1]
      BY <2>1, <3>1
    <3>3. (arriving \o arriving)[2] = IF 2 <= 1 THEN arriving[2] ELSE arriving[2 - 1]
      BY <2>1, <3>1
    <3> QED BY <3>1, <3>2, <3>3
  <2> QED BY <1>3, <2>1, <2>2, <2>3, <2>4
<1>7. 1 \in DOMAIN arriving /\ \A i \in DOMAIN arriving' : arriving'[i] = arriving[1] /\ more[i] = level[1]
  BY <1>4, <1>5, <1>6
<1>8. Coming(heard, base, more)'
  <2>1. /\ heard <= arriving[1].boot /\ arriving[1].boot <= boot
        /\ Floor(arriving[1].boot, base) <= level[1]
        /\ level[1] <= Floor(arriving[1].boot, base) + MaxEvents
        /\ arriving[1].boot = boot => level[1] <= newest
        /\ Tells(arriving[1], level[1], base)
    BY <1>2, <1>7 DEF Coming
  <2>2. ASSUME NEW i \in DOMAIN arriving' PROVE Tells(arriving[i], more[i], base)'
    BY <1>3, <1>7, <2>1 DEF Tells
  <2>3. arriving[1].boot <= arriving[1].boot /\ level[1] <= level[1]
    <3>1. arriving[1].boot \in Nat /\ level[1] \in Nat
      BY <1>1, <1>7, SeqElement, MessageTyped
    <3> QED BY <3>1
  <2> QED BY <1>3, <1>7, <2>1, <2>2, <2>3 DEF Coming
<1>9. boot = 0 => \A i \in DOMAIN asked' : \E k \in base + 1 .. base + MaxEvents + 1 : asked'[i] = Number(k)
  BY <1>2, <1>3 DEF VehicleCounts
<1>10. asked' \in Seq(Numbers)
  BY <1>1, <1>3
<1>11. \A i \in DOMAIN arriving' : \E j \in DOMAIN arriving : arriving'[i] = arriving[j] /\ more[i] = level[j]
  BY <1>7
<1> QED BY <1>1, <1>2, <1>3, <1>6, <1>8, <1>9, <1>10, <1>11, ComesStill

-----------------------------------------------------------------------------
(* The station.                                                            *)

\* While the vehicle has not restarted a station that has a number counts right.
LEMMA CountsFromTheFirst ==
  ASSUME EventTyped, NEW heard \in Nat, NEW base \in Nat, NEW count \in Nat, NEW level \in [Nat -> Nat],
         StationCounts(heard, base, count, level), boot = 0, latest # Unknown
  PROVE  /\ heard = 0 /\ CountsIn(heard) /\ Counted(heard, base, count)
         /\ latest = Number(count) /\ base <= count /\ count <= base + MaxEvents
<1>1. basis.boot \in Int
  BY DEF EventTyped
<1>2. basis.boot >= 0 /\ basis.boot <= heard /\ heard <= 0
  BY DEF StationCounts
<1>3. heard = 0 /\ basis.boot = heard
  BY <1>1, <1>2
<1>4. CountsIn(heard)
  BY <1>3 DEF CountsIn
<1>5. Counted(heard, base, count)
  BY <1>4 DEF StationCounts
<1> QED BY <1>3, <1>4, <1>5 DEF Counted, Floor

LEMMA NextIsNear ==
  ASSUME EventTyped, NEW heard \in Nat, NEW base \in Nat, NEW count \in Nat, NEW level \in [Nat -> Nat],
         StationCounts(heard, base, count, level), latest # Unknown
  PROVE  boot = 0 => \E k \in base + 1 .. base + MaxEvents + 1 : Successor(latest) = Number(k)
<1>1. SUFFICES ASSUME boot = 0 PROVE \E k \in base + 1 .. base + MaxEvents + 1 : Successor(latest) = Number(k)
  OBVIOUS
<1>2. latest = Number(count) /\ base <= count /\ count <= base + MaxEvents
  BY <1>1, CountsFromTheFirst
<1>3. Successor(latest) = Number(count + 1)
  BY <1>2, NextNumber
<1>4. MaxEvents \in Nat
  BY EventsAssumption
<1>5. count + 1 \in base + 1 .. base + MaxEvents + 1
  BY <1>2, <1>4
<1> QED BY <1>3, <1>5

\* A request is one more, or there is no room for it.
LEMMA Requested ==
  ASSUME asked \in Seq(Numbers), NEW s \in Numbers, NEW base \in Nat, VehicleCounts(base), Request(s),
         boot = 0 => \E k \in base + 1 .. base + MaxEvents + 1 : s = Number(k)
  PROVE  /\ asked' \in Seq(Numbers)
         /\ boot = 0 => \A i \in DOMAIN asked' : \E k \in base + 1 .. base + MaxEvents + 1 : asked'[i] = Number(k)
<1>1. asked' = asked \/ asked' = Append(asked, s)
  BY DEF Request
<1>2. /\ Append(asked, s) \in Seq(Numbers)
      /\ \A i \in DOMAIN Append(asked, s) :
           Append(asked, s)[i] = s \/ (i \in DOMAIN asked /\ Append(asked, s)[i] = asked[i])
  <2>1. /\ Append(asked, s) \in Seq(Numbers) /\ Len(asked) \in Nat
        /\ DOMAIN asked = 1 .. Len(asked) /\ DOMAIN Append(asked, s) = 1 .. Len(asked) + 1
        /\ \A i \in DOMAIN asked : Append(asked, s)[i] = asked[i]
        /\ Append(asked, s)[Len(asked) + 1] = s
    BY SeqAppend
  <2>2. \A i \in 1 .. Len(asked) + 1 : i = Len(asked) + 1 \/ i \in 1 .. Len(asked)
    BY <2>1
  <2> QED BY <2>1, <2>2
<1> QED BY <1>1, <1>2 DEF VehicleCounts

LEMMA TickInv ==
  ASSUME EventInv, Tick
  PROVE  EventInv'
<1>1. EventTyped /\ InOrder /\ asked \in Seq(Numbers) /\ arriving \in Seq(Messages)
  BY DEF EventInv, EventTyped
<1>2. PICK heard \in Nat, base \in Nat, count \in Nat, level \in [Nat -> Nat] :
        VehicleCounts(base) /\ Coming(heard, base, level) /\ StationCounts(heard, base, count, level)
  BY DEF EventInv, EventStory
<1>3. /\ UNCHANGED <<latest, stamp, setBacks, delivered, basis, boot, newest, happened, arriving>>
      /\ latest # Unknown /\ Request(Successor(latest))
  BY DEF Tick, board
<1>4. Successor(latest) \in Numbers
  <2>1. latest \in Int
    BY <1>1, <1>3, EventsAssumption DEF EventTyped, Numbers
  <2> QED BY <2>1, DivMod DEF Successor, Number
<1>5. boot = 0 => \E k \in base + 1 .. base + MaxEvents + 1 : Successor(latest) = Number(k)
  BY <1>1, <1>2, <1>3, NextIsNear
<1>6. /\ asked' \in Seq(Numbers)
      /\ boot = 0 => \A i \in DOMAIN asked' : \E k \in base + 1 .. base + MaxEvents + 1 : asked'[i] = Number(k)
  BY <1>1, <1>2, <1>3, <1>4, <1>5, Requested
<1>7. Coming(heard, base, level)'
  BY <1>2, <1>3 DEF Coming, Tells
<1>8. \A i \in DOMAIN arriving' : \E j \in DOMAIN arriving : arriving'[i] = arriving[j] /\ level[i] = level[j]
  BY <1>3
<1>9. arriving' \in Seq(Messages)
  BY <1>1, <1>3
<1> QED BY <1>1, <1>2, <1>3, <1>6, <1>7, <1>8, <1>9, ComesStill

\* What the station holds, apart from what it counts.
StationTyped ==
  /\ latest \in Numbers \cup {Unknown} /\ stamp \in Stamps /\ setBacks \in Nat
  /\ asked \in Seq(Numbers) /\ delivered \in Seq(EventMessages)
  /\ basis \in [boot : Int, from : Nat]

AsksNear(base) ==
  boot = 0 => \A i \in DOMAIN asked : \E k \in base + 1 .. base + MaxEvents + 1 : asked[i] = Number(k)

\* It has heard of no boot after b.
HeardOf(b) ==
  /\ latest # Unknown => basis.boot >= 0
  /\ basis.boot <= b /\ stamp.boot <= b
  /\ \A i \in DOMAIN delivered : delivered[i].boot <= stamp.boot

LEMMA StationIsTyped == ASSUME EventTyped PROVE StationTyped
BY DEF EventTyped, StationTyped

LEMMA StampTyped ==
  ASSUME EventTyped
  PROVE  stamp \in Stamps /\ stamp.boot \in Int
BY DEF EventTyped, Stamps, Unstamped

\* m is the message that arrives.
Accepted(m) == arriving # <<>> /\ m = Head(arriving) /\ arriving' = Tail(arriving)

\* The message that arrives, and what comes after it.
LEMMA FirstArrives ==
  ASSUME EventTyped, NEW heard \in Nat, NEW base \in Nat, NEW level \in [Nat -> Nat],
         Coming(heard, base, level), NEW m, Accepted(m)
  PROVE  /\ m \in Messages /\ m = arriving[1] /\ 1 \in DOMAIN arriving /\ m.boot \in Nat /\ m.n \in Nat
         /\ level[1] \in Nat /\ heard <= m.boot /\ m.boot <= boot
         /\ Floor(m.boot, base) <= level[1] /\ level[1] <= Floor(m.boot, base) + MaxEvents
         /\ m.boot = boot => level[1] <= newest
         /\ Tells(m, level[1], base)
<1>1. arriving \in Seq(Messages)
  BY DEF EventTyped
<1>2. m = arriving[1] /\ 1 \in DOMAIN arriving /\ m \in Messages
  BY <1>1, SeqTail DEF Accepted
<1>3. m.boot \in Nat /\ m.n \in Nat
  BY <1>2, MessageTyped
<1> QED BY <1>2, <1>3 DEF Coming

LEMMA LaterLevels ==
  ASSUME NEW heard \in Nat, NEW base \in Nat, NEW level \in [Nat -> Nat], Coming(heard, base, level),
         1 \in DOMAIN arriving, NEW i \in DOMAIN arriving, 1 < i, arriving[i].boot = arriving[1].boot
  PROVE  level[1] <= level[i]
BY DEF Coming

LEMMA Between ==
  ASSUME NEW a \in Int, NEW b \in Int, NEW c \in Int, a <= b, b <= c
  PROVE  a <= c
OBVIOUS

\* The station counts from event c, no later than top, if it counts in the message's boot.
CountsUpTo(m, base, c, top) == CountsIn(m.boot)' => Counted(m.boot, base, c)' /\ c <= top

VehicleRests == UNCHANGED <<boot, newest, happened>>

\* A message has been handled, and the station counts from it or not at all.
LEMMA Arrives ==
  ASSUME EventTyped,
         NEW heard \in Nat, NEW base \in Nat, NEW level \in [Nat -> Nat],
         VehicleCounts(base), Coming(heard, base, level),
         NEW m, Accepted(m),
         VehicleRests,
         StationTyped', AsksNear(base)', HeardOf(m.boot)', InOrder',
         NEW c \in Nat, CountsUpTo(m, base, c, level[1])
  PROVE  EventInv'
<1>1. m = arriving[1] /\ 1 \in DOMAIN arriving /\ m.boot \in Nat /\ m.boot <= boot
  BY FirstArrives
<1>2. boot' = boot /\ newest' = newest
  BY DEF VehicleRests
<1>3. PICK h \in Nat : h = m.boot
  BY <1>1
<1>4. arriving' \in Seq(Messages) /\ ComesLess(h, base, level)
  BY <1>1, <1>2, <1>3, ComingLess DEF Accepted
<1>5. PICK less \in [Nat -> Nat] :
        /\ Coming(h, base, less)'
        /\ \A i \in DOMAIN arriving' :
             i + 1 \in DOMAIN arriving /\ 1 < i + 1 /\ arriving'[i] = arriving[i + 1] /\ less[i] = level[i + 1]
  BY <1>4 DEF ComesLess
<1>6. ASSUME CountsIn(h)', NEW i \in DOMAIN arriving', arriving'[i].boot = h PROVE c <= less[i]
  <2>1. PICK j \in DOMAIN arriving : 1 < j /\ arriving'[i] = arriving[j] /\ less[i] = level[j] /\ j \in Nat
    <3>1. i + 1 \in Nat
      BY <1>5, SeqElement DEF EventTyped
    <3> QED BY <1>5, <3>1
  <2>2. level[1] <= level[j] /\ c <= level[1]
    <3>1. arriving[j].boot = arriving[1].boot
      BY <1>1, <1>3, <1>6, <2>1
    <3>2. level[1] <= level[j]
      BY <1>1, <2>1, <3>1, LaterLevels
    <3>3. CountsIn(m.boot)'
      BY <1>3, <1>6
    <3> QED BY <3>2, <3>3 DEF CountsUpTo
  <2>3. level[1] \in Nat /\ level[j] \in Nat
    BY <2>1
  <2> QED BY <2>1, <2>2, <2>3, Between
<1>7. StationCounts(h, base, c, less)'
  <2>1. HeardOf(h)' /\ h <= boot'
    BY <1>1, <1>2, <1>3
  <2>2. CountsIn(h)' => Counted(h, base, c)'
    BY <1>3 DEF CountsUpTo
  <2> QED BY <1>6, <2>1, <2>2 DEF StationCounts, HeardOf
<1>8. VehicleCounts(base)'
  BY DEF VehicleCounts, AsksNear, VehicleRests
<1>9. EventTyped'
  BY <1>4 DEF EventTyped, StationTyped, VehicleRests
<1>10. EventStory'
  BY <1>5, <1>7, <1>8 DEF EventStory
<1> QED BY <1>9, <1>10 DEF EventInv

\* What a station counts in the boot of the message that arrives.
LEMMA CountedBefore ==
  ASSUME EventTyped, NEW heard \in Nat, NEW base \in Nat, NEW count \in Nat, NEW level \in [Nat -> Nat],
         Coming(heard, base, level), StationCounts(heard, base, count, level),
         NEW m, Accepted(m), CountsIn(m.boot)
  PROVE  /\ heard = m.boot /\ Counted(m.boot, base, count) /\ count <= level[1]
         /\ latest = Number(count) /\ latest # Unknown
<1>1. m = arriving[1] /\ 1 \in DOMAIN arriving /\ m.boot \in Nat /\ heard <= m.boot
  BY FirstArrives
<1>2. m.boot <= heard
  <2>1. CASE basis.boot = m.boot
    BY <2>1 DEF StationCounts
  <2>2. ASSUME NEW i \in DOMAIN delivered, delivered[i].boot = m.boot PROVE m.boot <= heard
    <3>1. m.boot <= stamp.boot /\ stamp.boot <= heard
      BY <2>2 DEF StationCounts
    <3>2. stamp.boot \in Int
      BY StampTyped
    <3>3. heard \in Int /\ m.boot \in Int
      BY <1>1
    <3> QED BY <3>1, <3>2, <3>3, Between
  <2> QED BY <2>1, <2>2 DEF CountsIn
<1>3. heard = m.boot
  <2>1. PICK b \in Nat : b = m.boot
    BY <1>1
  <2> QED BY <1>1, <1>2, <2>1
<1>4. Counted(m.boot, base, count) /\ count <= level[1]
  BY <1>1, <1>3 DEF StationCounts
<1>5. latest = Number(count)
  BY <1>4 DEF Counted
<1>6. Number(count) # Unknown
  BY DivMod DEF Numbers, Unknown
<1> QED BY <1>3, <1>4, <1>5, <1>6

StampOf(m) == [boot |-> m.boot, n |-> m.n]

\* A message that does not move the station: it may ask, and note an event's time.
StaysPut(m) ==
  /\ UNCHANGED <<boot, newest, happened, latest, setBacks, delivered, basis>>
  /\ stamp' \in {stamp, StampOf(m)}

AsksWell(base) == asked \in Seq(Numbers) /\ AsksNear(base)

LEMMA StampMoves ==
  ASSUME NEW a \in Int, NEW b \in Int, a <= b, NEW c \in {a, b}
  PROVE  a <= c /\ c <= b /\ c \in Int
OBVIOUS

LEMMA Unmoved ==
  ASSUME EventTyped, InOrder,
         NEW heard \in Nat, NEW base \in Nat, NEW count \in Nat, NEW level \in [Nat -> Nat],
         VehicleCounts(base), Coming(heard, base, level), StationCounts(heard, base, count, level),
         NEW m, Accepted(m),
         StaysPut(m),
         AsksWell(base)'
  PROVE  EventInv'
<1>1. m.boot \in Nat /\ m.n \in Nat /\ heard <= m.boot
  BY FirstArrives
<1>2. stamp.boot \in Int /\ stamp \in Stamps /\ basis.boot \in Int
  BY StampTyped DEF EventTyped
<1>3. StationTyped'
  <2>1. StampOf(m) \in Stamps
    BY <1>1 DEF Stamps, StampOf
  <2> QED BY <1>2, <2>1 DEF EventTyped, StationTyped, StaysPut, AsksWell
<1>4. basis.boot <= heard /\ stamp.boot <= heard /\ (latest # Unknown => basis.boot >= 0)
      /\ \A i \in DOMAIN delivered : delivered[i].boot <= stamp.boot
  BY DEF StationCounts
<1>5. basis.boot <= m.boot /\ stamp.boot <= m.boot
  <2>1. heard \in Int /\ m.boot \in Int
    BY <1>1
  <2>2. basis.boot <= m.boot
    BY <1>1, <1>2, <1>4, <2>1, Between
  <2>3. stamp.boot <= m.boot
    BY <1>1, <1>2, <1>4, <2>1, Between
  <2> QED BY <2>2, <2>3
<1>6. stamp.boot <= stamp'.boot /\ stamp'.boot <= m.boot /\ stamp'.boot \in Int
  <2>1. stamp'.boot \in {stamp.boot, m.boot}
    BY DEF StaysPut, StampOf
  <2>2. m.boot \in Int
    BY <1>1
  <2> QED BY <1>2, <1>5, <2>1, <2>2, StampMoves
<1>7. ASSUME NEW i \in DOMAIN delivered' PROVE delivered'[i].boot <= stamp'.boot
  <2>0. delivered' = delivered
    BY DEF StaysPut
  <2>1. delivered[i].boot <= stamp.boot /\ delivered[i].boot \in Nat
    <3>1. delivered \in Seq(EventMessages) /\ i \in DOMAIN delivered
      BY DEF EventTyped, StaysPut
    <3>2. delivered[i] \in EventMessages
      BY <3>1, SeqElement
    <3> QED BY <1>4, <3>1, <3>2 DEF EventMessages
  <2>2. delivered[i].boot \in Int
    BY <2>1
  <2>3. delivered[i].boot <= stamp'.boot
    BY <1>2, <1>6, <2>1, <2>2, Between
  <2> QED BY <2>0, <2>3
<1>8. HeardOf(m.boot)'
  BY <1>4, <1>5, <1>6, <1>7 DEF HeardOf, StaysPut
<1>9. InOrder'
  BY OrderStays DEF StaysPut
<1>10. CountsIn(m.boot)' => Counted(m.boot, base, count)' /\ count <= level[1]
  <2>1. SUFFICES ASSUME CountsIn(m.boot)' PROVE Counted(m.boot, base, count)' /\ count <= level[1]
    OBVIOUS
  <2>2. CountsIn(m.boot)
    BY <2>1 DEF CountsIn, StaysPut
  <2>3. Counted(m.boot, base, count) /\ count <= level[1]
    BY <2>2, CountedBefore
  <2> QED BY <2>3 DEF Counted, Available, Event, StaysPut
<1> QED BY <1>3, <1>8, <1>9, <1>10, Arrives DEF StaysPut, AsksWell, CountsUpTo, VehicleRests

-----------------------------------------------------------------------------
(* An event arrives.                                                       *)

LEMMA UpToLevel ==
  ASSUME NEW f \in Nat, NEW n \in Nat, NEW top \in Nat, NEW most \in Nat, f < n, n <= top, top <= f + most
  PROVE  f <= n /\ n <= f + most /\ \A b \in Nat : top <= b => n <= b
OBVIOUS

LEMMA EventArrives ==
  ASSUME EventTyped, NEW heard \in Nat, NEW base \in Nat, NEW level \in [Nat -> Nat],
         Coming(heard, base, level), NEW m, Accepted(m), m.what = "event"
  PROVE  /\ m \in EventMessages /\ m.n \in Nat /\ m.boot \in Nat /\ m.boot <= boot
         /\ Floor(m.boot, base) \in Nat /\ Floor(m.boot, base) < m.n /\ m.n <= Floor(m.boot, base) + MaxEvents
         /\ Floor(m.boot, base) <= m.n
         /\ m.n <= level[1]
         /\ m.boot = boot => m.n <= newest
<1>1. /\ m \in Messages /\ m.boot \in Nat /\ m.n \in Nat /\ level[1] \in Nat /\ m.boot <= boot
      /\ level[1] <= Floor(m.boot, base) + MaxEvents
      /\ m.boot = boot => level[1] <= newest
      /\ Tells(m, level[1], base)
  BY FirstArrives
<1>2. m \in EventMessages
  BY <1>1, MessageTyped
<1>3. Floor(m.boot, base) < m.n /\ m.n <= level[1]
  BY <1>1 DEF Tells
<1>4. PICK f \in Nat, n \in Nat, top \in Nat : f = Floor(m.boot, base) /\ n = m.n /\ top = level[1]
  BY <1>1, FloorTyped
<1>5. MaxEvents \in Nat /\ newest \in Nat
  BY EventsAssumption DEF EventTyped
<1>6. f <= n /\ n <= f + MaxEvents /\ \A b \in Nat : top <= b => n <= b
  BY <1>1, <1>3, <1>4, <1>5, UpToLevel
<1> QED BY <1>1, <1>2, <1>3, <1>4, <1>5, <1>6

LEMMA OneAhead ==
  ASSUME NEW f \in Nat, NEW a \in Nat, NEW b \in Nat, f <= a, a <= f + MaxEvents, f < b, b <= f + MaxEvents,
         Number(b) = Number(a + 1)
  PROVE  b = a + 1
<1>1. MaxEvents \in Nat /\ Modulus \in Nat /\ Modulus > 2 * MaxEvents + 2
  BY EventsAssumption
<1>2. b \in Int /\ a + 1 \in Int /\ b - (a + 1) < Modulus /\ (a + 1) - b < Modulus
  BY <1>1
<1> QED BY <1>2, SameNumber

\* It is the next one after latest.
Follows(m) == basis' = basis /\ latest # Unknown /\ Number(m.n) = Successor(latest)

\* It is the first one of its boot, if none was set back.
StartsAnew(m) ==
  /\ basis' = [boot |-> m.boot, from |-> m.n]
  /\ setBacks' = 0 => \A i \in DOMAIN delivered : delivered[i].boot < m.boot

Delivers(m) ==
  /\ latest' = Number(m.n) /\ delivered' = Append(delivered, m) /\ stamp' = StampOf(m)
  /\ setBacks' \in Nat /\ (setBacks' = 0 => setBacks = 0)
  /\ UNCHANGED <<boot, newest, happened>>

\* The next number is the next event, if the station counts in the boot of the event.
LEMMA FollowsCount ==
  ASSUME EventTyped, NEW heard \in Nat, NEW base \in Nat, NEW count \in Nat, NEW level \in [Nat -> Nat],
         Coming(heard, base, level), StationCounts(heard, base, count, level),
         NEW m, Accepted(m), m.what = "event", Follows(m), CountsIn(m.boot)
  PROVE  m.n = count + 1 /\ Counted(m.boot, base, count)
<1>1. /\ m.n \in Nat /\ Floor(m.boot, base) \in Nat
      /\ Floor(m.boot, base) < m.n /\ m.n <= Floor(m.boot, base) + MaxEvents
  BY EventArrives
<1>2. Counted(m.boot, base, count) /\ latest = Number(count)
  BY CountedBefore
<1>3. Number(m.n) = Number(count + 1)
  BY <1>2, NextNumber DEF Follows
<1>4. Floor(m.boot, base) <= count /\ count <= Floor(m.boot, base) + MaxEvents
  BY <1>2 DEF Counted
<1> QED BY <1>1, <1>2, <1>3, <1>4, OneAhead

Precedes(a, b) == a.boot < b.boot \/ (a.boot = b.boot /\ a.n < b.n)

\* It comes after all that have been delivered, if none was set back.
LEMMA IsLater ==
  ASSUME EventTyped, NEW heard \in Nat, NEW base \in Nat, NEW count \in Nat, NEW level \in [Nat -> Nat],
         Coming(heard, base, level), StationCounts(heard, base, count, level),
         NEW m, Accepted(m), m.what = "event", StartsAnew(m) \/ Follows(m),
         setBacks' = 0, setBacks = 0, NEW i \in DOMAIN delivered
  PROVE  Precedes(delivered[i], m)
<1>1. m.n \in Nat /\ m.boot \in Nat
  BY EventArrives
<1>2. delivered[i].n \in Nat /\ delivered[i].boot \in Nat
  <2>1. delivered \in Seq(EventMessages)
    BY DEF EventTyped
  <2>2. delivered[i] \in EventMessages
    BY <2>1, SeqElement
  <2> QED BY <2>2 DEF EventMessages
<1>3. CASE StartsAnew(m)
  BY <1>3 DEF StartsAnew, Precedes
<1>4. CASE Follows(m) /\ delivered[i].boot = m.boot
  <2>1. CountsIn(m.boot)
    BY <1>4 DEF CountsIn
  <2>2. m.n = count + 1 /\ Counted(m.boot, base, count)
    BY <1>4, <2>1, FollowsCount
  <2>3. delivered[i].n <= count
    BY <1>4, <2>2 DEF Counted
  <2>4. delivered[i].n < count + 1
    BY <1>2, <2>3
  <2> QED BY <1>4, <2>2, <2>4 DEF Precedes
<1>5. CASE Follows(m) /\ delivered[i].boot # m.boot
  <2>1. delivered[i].boot <= m.boot
    <3>1. delivered[i].boot <= stamp.boot /\ stamp.boot <= heard /\ heard <= m.boot
      BY FirstArrives DEF StationCounts
    <3>2. stamp.boot \in Int
      BY StampTyped
    <3>3. PICK a \in Int, b \in Int : a = delivered[i].boot /\ b = m.boot
      BY <1>1, <1>2
    <3>4. a <= heard
      BY <3>1, <3>2, <3>3, Between
    <3> QED BY <3>1, <3>3, <3>4, Between
  <2>2. PICK a \in Nat, b \in Nat : a = delivered[i].boot /\ b = m.boot
    BY <1>1, <1>2
  <2>3. a < b
    BY <1>5, <2>1, <2>2
  <2> QED BY <2>2, <2>3 DEF Precedes
<1> QED BY <1>3, <1>4, <1>5

\* What has been delivered, with m at the end.
Longer(m, last) ==
  /\ \A i \in DOMAIN delivered' : i \in Nat
  /\ \A i \in DOMAIN delivered' :
       \/ i \in DOMAIN delivered /\ delivered'[i] = delivered[i] /\ i < last
       \/ i = last /\ delivered'[i] = m
  /\ \A i \in DOMAIN delivered : i \in DOMAIN delivered' /\ delivered'[i] = delivered[i]
  /\ last \in DOMAIN delivered' /\ delivered'[last] = m

LEMMA OneMore ==
  ASSUME NEW n \in Nat, NEW i \in 1 .. n + 1
  PROVE  i \in Nat /\ ((i \in 1 .. n /\ i < n + 1) \/ i = n + 1)
OBVIOUS

LEMMA OneLess ==
  ASSUME NEW n \in Nat
  PROVE  1 .. n \subseteq 1 .. n + 1 /\ n + 1 \in 1 .. n + 1 /\ n + 1 \in Nat
OBVIOUS

LEMMA DeliversMore ==
  ASSUME delivered \in Seq(EventMessages), NEW m \in EventMessages, delivered' = Append(delivered, m)
  PROVE  delivered' \in Seq(EventMessages) /\ \E last \in Nat : Longer(m, last)
<1>1. /\ Append(delivered, m) \in Seq(EventMessages) /\ Len(delivered) \in Nat
      /\ DOMAIN delivered = 1 .. Len(delivered)
      /\ DOMAIN Append(delivered, m) = 1 .. Len(delivered) + 1
      /\ \A i \in DOMAIN delivered : Append(delivered, m)[i] = delivered[i]
      /\ Append(delivered, m)[Len(delivered) + 1] = m
  BY SeqAppend
<1>2. PICK n \in Nat : n = Len(delivered)
  BY <1>1
<1>3. /\ DOMAIN delivered = 1 .. n /\ DOMAIN delivered' = 1 .. n + 1
      /\ \A i \in DOMAIN delivered : delivered'[i] = delivered[i]
      /\ delivered'[n + 1] = m
  BY <1>1, <1>2
<1>4. Longer(m, n + 1)
  BY <1>3, OneMore, OneLess DEF Longer
<1> QED BY <1>1, <1>4, OneLess

LEMMA StaysInOrder ==
  ASSUME InOrder, NEW m, NEW last \in Nat, Longer(m, last),
         setBacks' = 0 => setBacks = 0 /\ \A i \in DOMAIN delivered : Precedes(delivered[i], m)
  PROVE  InOrder'
<1>1. SUFFICES ASSUME setBacks' = 0, NEW i \in DOMAIN delivered', NEW j \in DOMAIN delivered', i < j
               PROVE  Precedes(delivered'[i], delivered'[j])
  BY DEF InOrder, Precedes
<1>2. i \in Nat /\ j \in Nat
  BY DEF Longer
<1>3. CASE j \in DOMAIN delivered /\ delivered'[j] = delivered[j] /\ j < last
  <2>1. i # last
    BY <1>1, <1>2, <1>3
  <2>2. i \in DOMAIN delivered /\ delivered'[i] = delivered[i]
    BY <2>1 DEF Longer
  <2> QED BY <1>1, <1>3, <2>2 DEF InOrder, Precedes
<1>4. CASE j = last /\ delivered'[j] = m
  <2>1. i # last
    BY <1>1, <1>2, <1>4
  <2>2. i \in DOMAIN delivered /\ delivered'[i] = delivered[i]
    BY <2>1 DEF Longer
  <2> QED BY <1>1, <1>4, <2>2
<1> QED BY <1>3, <1>4 DEF Longer

\* An event delivered that counts in its boot.
LEMMA CountsAfter ==
  ASSUME EventTyped, NEW heard \in Nat, NEW base \in Nat, NEW count \in Nat, NEW level \in [Nat -> Nat],
         VehicleCounts(base), Coming(heard, base, level), StationCounts(heard, base, count, level),
         NEW m, Accepted(m), m.what = "event", Delivers(m), StartsAnew(m) \/ Follows(m)
  PROVE  Counted(m.boot, base, m.n)'
<1>1. /\ m \in EventMessages /\ m.n \in Nat /\ m.boot \in Nat /\ m.boot <= boot
      /\ Floor(m.boot, base) <= m.n /\ m.n <= Floor(m.boot, base) + MaxEvents
      /\ m.boot = boot => m.n <= newest
  BY EventArrives
<1>2. latest' = Number(m.n) /\ boot' = boot /\ newest' = newest
  BY DEF Delivers
<1>3. PICK last \in Nat : Longer(m, last)
  BY <1>1, DeliversMore DEF EventTyped, Delivers
<1>4. ASSUME setBacks' = 0, NEW i \in DOMAIN delivered', delivered'[i].boot = m.boot PROVE delivered'[i].n <= m.n
  <2>1. CASE i = last /\ delivered'[i] = m
    BY <1>1, <2>1
  <2>2. CASE i \in DOMAIN delivered /\ delivered'[i] = delivered[i]
    <3>1. Precedes(delivered[i], m)
      BY <1>4, <2>2, IsLater DEF Delivers
    <3>2. delivered[i] \in EventMessages
      BY <2>2, SeqElement DEF EventTyped
    <3>3. PICK a \in Nat, b \in Nat, n \in Nat : a = delivered[i].n /\ b = m.n /\ n = m.boot
      BY <1>1, <3>2 DEF EventMessages
    <3>4. a < b
      BY <1>4, <2>2, <3>1, <3>3 DEF Precedes
    <3>5. a <= b
      BY <3>4
    <3> QED BY <2>2, <3>3, <3>5
  <2> QED BY <1>3, <2>1, <2>2 DEF Longer
<1>5. ASSUME basis'.boot = boot', NEW n \in Available', basis'.from <= n, n <= m.n
      PROVE  Event(n)' \in {delivered'[i] : i \in DOMAIN delivered'}
  <2>0. n \in Available /\ n \in Int /\ Event(n)' = Event(n)
    BY <1>2, <1>5 DEF Available, Event
  <2>1. ASSUME m.boot = boot, n = m.n PROVE Event(n)' \in {delivered'[i] : i \in DOMAIN delivered'}
    <3>1. m = Event(n)
      BY <1>1, <2>1 DEF EventMessages, Event
    <3> QED BY <1>3, <2>0, <3>1 DEF Longer
  <2>2. CASE StartsAnew(m)
    <3>1. basis'.boot = m.boot /\ basis'.from = m.n
      BY <2>2 DEF StartsAnew
    <3>2. m.boot = boot
      BY <1>2, <1>5, <3>1
    <3>3. PICK k \in Nat : k = m.n
      BY <1>1
    <3>4. n = k
      BY <1>5, <2>0, <3>1, <3>3
    <3> QED BY <2>1, <3>2, <3>3, <3>4
  <2>3. CASE Follows(m)
    <3>1. basis' = basis /\ basis.boot = boot
      BY <1>2, <1>5, <2>3 DEF Follows
    <3>2. m.boot = boot
      <4>1. boot <= heard /\ heard <= m.boot
        BY <3>1, FirstArrives DEF StationCounts
      <4>2. PICK a \in Nat, b \in Nat : a = boot /\ b = m.boot
        BY <1>1 DEF EventTyped
      <4> QED BY <1>1, <4>1, <4>2
    <3>3. CountsIn(m.boot)
      BY <3>1, <3>2 DEF CountsIn
    <3>4. m.n = count + 1 /\ Counted(m.boot, base, count)
      BY <2>3, <3>3, FollowsCount
    <3>5. CASE n = m.n
      BY <2>1, <3>2, <3>5
    <3>6. CASE n <= count
      <4>1. Event(n) \in {delivered[i] : i \in DOMAIN delivered}
        BY <1>5, <2>0, <3>1, <3>4, <3>6 DEF Counted
      <4> QED BY <1>3, <2>0, <4>1 DEF Longer
    <3> QED BY <1>5, <2>0, <3>4, <3>5, <3>6
  <2> QED BY <2>2, <2>3
<1> QED BY <1>1, <1>2, <1>4, <1>5 DEF Counted, Floor

\* The numbers that a station which has n in boot b may ask for.
LEMMA AsksForNext ==
  ASSUME NEW base \in Nat, NEW b \in Nat, b <= boot, boot \in Nat, NEW n \in Nat,
         Floor(b, base) <= n, n <= Floor(b, base) + MaxEvents
  PROVE  /\ Successor(Number(n)) = Number(n + 1) /\ Successor(Number(n)) \in Numbers
         /\ boot = 0 => \E k \in base + 1 .. base + MaxEvents + 1 : Successor(Number(n)) = Number(k)
<1>1. n \in Int /\ n + 1 \in Int /\ MaxEvents \in Nat
  BY EventsAssumption
<1>2. Successor(Number(n)) = Number(n + 1) /\ Number(n + 1) \in Numbers
  BY <1>1, NextNumber, DivMod
<1>3. ASSUME boot = 0 PROVE n + 1 \in base + 1 .. base + MaxEvents + 1
  <2>1. b = 0
    BY <1>3
  <2>2. base <= n /\ n <= base + MaxEvents
    BY <2>1 DEF Floor
  <2> QED BY <1>1, <2>2
<1> QED BY <1>2, <1>3

\* What has been heard of when a message of boot b counts.
LEMMA HearsMore ==
  ASSUME EventTyped, NEW heard \in Nat, NEW base \in Nat, NEW count \in Nat, NEW level \in [Nat -> Nat],
         Coming(heard, base, level), StationCounts(heard, base, count, level),
         NEW m, Accepted(m)
  PROVE  HeardOf(m.boot) /\ HeardOf(heard)
<1>1. heard <= m.boot /\ m.boot \in Nat
  BY FirstArrives
<1>2. /\ basis.boot <= heard /\ stamp.boot <= heard
      /\ latest # Unknown => basis.boot >= 0
      /\ \A i \in DOMAIN delivered : delivered[i].boot <= stamp.boot
  BY DEF StationCounts
<1>3. basis.boot \in Int /\ stamp.boot \in Int
  BY StampTyped DEF EventTyped
<1>4. basis.boot <= m.boot /\ stamp.boot <= m.boot
  <2>1. PICK b \in Nat : b = m.boot
    BY <1>1
  <2>2. basis.boot <= b /\ stamp.boot <= b
    BY <1>1, <1>2, <1>3, <2>1, Between
  <2> QED BY <2>1, <2>2
<1> QED BY <1>2, <1>4 DEF HeardOf

\* Nothing delivered is of a later boot than the message that arrives.
LEMMA HeardBefore ==
  ASSUME EventTyped, NEW heard \in Nat, NEW base \in Nat, NEW count \in Nat, NEW level \in [Nat -> Nat],
         Coming(heard, base, level), StationCounts(heard, base, count, level),
         NEW m, Accepted(m), NEW i \in DOMAIN delivered
  PROVE  delivered[i].boot <= m.boot /\ delivered[i].boot \in Int /\ m.boot \in Int
<1>1. delivered[i].boot <= stamp.boot /\ stamp.boot <= m.boot
  BY HearsMore DEF HeardOf
<1>2. delivered[i] \in EventMessages
  BY SeqElement DEF EventTyped
<1>3. PICK a \in Int, b \in Int, c \in Int : a = delivered[i].boot /\ b = stamp.boot /\ c = m.boot
  BY <1>2, StampTyped, FirstArrives DEF EventMessages
<1>4. a <= c
  BY <1>1, <1>3, Between
<1> QED BY <1>3, <1>4

\* The station takes the event that arrives.
LEMMA DeliversInv ==
  ASSUME EventTyped, InOrder,
         NEW heard \in Nat, NEW base \in Nat, NEW count \in Nat, NEW level \in [Nat -> Nat],
         VehicleCounts(base), Coming(heard, base, level), StationCounts(heard, base, count, level),
         NEW m, Accepted(m), m.what = "event", Delivers(m), StartsAnew(m) \/ Follows(m),
         AsksWell(base)'
  PROVE  EventInv'
<1>1. m \in EventMessages /\ m.n \in Nat /\ m.boot \in Nat /\ m.boot <= boot /\ m.n <= level[1]
  BY EventArrives
<1>2. PICK last \in Nat : Longer(m, last)
  BY <1>1, DeliversMore DEF EventTyped, Delivers
<1>3. InOrder'
  <2>1. ASSUME setBacks' = 0, NEW i \in DOMAIN delivered PROVE setBacks = 0 /\ Precedes(delivered[i], m)
    <3>1. setBacks = 0
      BY <2>1 DEF Delivers
    <3> QED BY <2>1, <3>1, IsLater
  <2>2. setBacks' = 0 => setBacks = 0
    BY DEF Delivers
  <2> QED BY <1>2, <2>1, <2>2, StaysInOrder
<1>4. Counted(m.boot, base, m.n)'
  BY CountsAfter
<1>5. delivered' \in Seq(EventMessages)
  BY <1>1, DeliversMore DEF EventTyped, Delivers
<1>6. Number(m.n) \in Numbers
  BY <1>1, DivMod
<1>7. basis' \in [boot : Int, from : Nat] /\ basis'.boot <= m.boot /\ basis'.boot >= 0
  <2>1. CASE StartsAnew(m)
    BY <1>1, <2>1 DEF StartsAnew
  <2>2. CASE Follows(m)
    BY <2>2, HearsMore DEF Follows, HeardOf, EventTyped
  <2> QED BY <2>1, <2>2
<1>8. StationTyped'
  <2>1. StampOf(m) \in Stamps
    BY <1>1 DEF Stamps, StampOf
  <2> QED BY <1>5, <1>6, <1>7, <2>1 DEF StationTyped, Delivers, AsksWell
<1>9. ASSUME NEW i \in DOMAIN delivered' PROVE delivered'[i].boot <= m.boot
  <2>1. CASE i = last /\ delivered'[i] = m
    BY <1>1, <2>1
  <2>2. CASE i \in DOMAIN delivered /\ delivered'[i] = delivered[i]
    <3> QED BY <2>2, HeardBefore
  <2> QED BY <1>2, <2>1, <2>2 DEF Longer
<1>10. HeardOf(m.boot)'
  <2>1. stamp'.boot = m.boot
    BY DEF Delivers, StampOf
  <2>2. m.boot <= m.boot
    BY <1>1
  <2> QED BY <1>7, <1>9, <2>1, <2>2 DEF HeardOf
<1>11. UNCHANGED <<boot, newest, happened>>
  BY DEF Delivers
<1> QED BY <1>1, <1>3, <1>4, <1>8, <1>10, <1>11, Arrives DEF AsksWell, CountsUpTo, VehicleRests

LEMMA AsksStill ==
  ASSUME EventTyped, NEW base \in Nat, VehicleCounts(base), boot' = boot, asked' = asked
  PROVE  AsksWell(base)'
BY DEF AsksWell, AsksNear, VehicleCounts, EventTyped

LEMMA AsksMore ==
  ASSUME EventTyped, NEW base \in Nat, VehicleCounts(base), boot' = boot, NEW s \in Numbers, Request(s),
         boot = 0 => \E k \in base + 1 .. base + MaxEvents + 1 : s = Number(k)
  PROVE  AsksWell(base)'
<1>1. asked \in Seq(Numbers)
  BY DEF EventTyped
<1>2. /\ asked' \in Seq(Numbers)
      /\ boot = 0 => \A i \in DOMAIN asked' : \E k \in base + 1 .. base + MaxEvents + 1 : asked'[i] = Number(k)
  BY <1>1, Requested
<1> QED BY <1>2 DEF AsksWell, AsksNear

LEMMA OnEventInv ==
  ASSUME EventInv, NEW m, Accepted(m), m.what = "event", UNCHANGED board,
         NEW restarted \in BOOLEAN, OnEvent(m, restarted)
  PROVE  EventInv'
<1>1. EventTyped /\ InOrder /\ UNCHANGED <<boot, newest, happened>>
  BY DEF EventInv, board
<1>2. PICK heard \in Nat, base \in Nat, count \in Nat, level \in [Nat -> Nat] :
        VehicleCounts(base) /\ Coming(heard, base, level) /\ StationCounts(heard, base, count, level)
  BY DEF EventInv, EventStory
<1>3. /\ m.n \in Nat /\ m.boot \in Nat /\ m.boot <= boot
      /\ Floor(m.boot, base) <= m.n /\ m.n <= Floor(m.boot, base) + MaxEvents
  BY <1>1, <1>2, EventArrives
<1>4. boot \in Nat
  BY <1>1 DEF EventTyped
<1>5. PICK anew \in BOOLEAN : anew = (restarted \/ latest = Unknown)
  OBVIOUS
<1>6. PICK expected : expected = IF anew THEN Number(m.n) ELSE Successor(latest)
  OBVIOUS
<1>7. /\ setBacks' \in Nat /\ (setBacks' = 0 => setBacks = 0)
      /\ restarted /\ setBacks' = 0 => stamp.boot < m.boot
      /\ ~restarted => setBacks' = setBacks
  <2>1. setBacks \in Nat /\ setBacks + 1 # 0 /\ setBacks + 1 \in Nat
    BY <1>1 DEF EventTyped
  <2>2. /\ setBacks' = IF restarted /\ stamp.boot = m.boot THEN setBacks + 1 ELSE setBacks
        /\ restarted => stamp.boot < m.boot \/ stamp.boot = m.boot
    BY DEF OnEvent, TenSecondsLater
  <2> QED BY <2>1, <2>2
<1>8. CASE Number(m.n) = expected
  <2>1. /\ stamp' = StampOf(m) /\ latest' = Number(m.n) /\ delivered' = Append(delivered, m)
        /\ IF anew THEN From(m, m.n) ELSE UNCHANGED basis
        /\ asked' = asked \/ Request(Successor(Number(m.n)))
    BY <1>5, <1>6, <1>8 DEF OnEvent, OnNext, StampOf
  <2>2. Delivers(m)
    BY <1>1, <1>7, <2>1 DEF Delivers
  <2>3. AsksWell(base)'
    <3>1. /\ Successor(Number(m.n)) \in Numbers
          /\ boot = 0 => \E k \in base + 1 .. base + MaxEvents + 1 : Successor(Number(m.n)) = Number(k)
      BY <1>3, <1>4, AsksForNext
    <3> QED BY <1>1, <1>2, <2>1, <3>1, AsksStill, AsksMore
  <2>4. StartsAnew(m) \/ Follows(m)
    <3>1. CASE ~anew
      BY <1>5, <1>6, <1>8, <2>1, <3>1 DEF Follows
    <3>2. ASSUME anew, setBacks' = 0, NEW i \in DOMAIN delivered PROVE delivered[i].boot < m.boot
      <4>1. delivered[i].boot <= m.boot /\ delivered[i].boot \in Int /\ m.boot \in Int
        BY <1>1, <1>2, HeardBefore
      <4>2. CASE restarted
        <5>1. stamp.boot < m.boot /\ stamp.boot \in Int
          BY <1>1, <1>7, <3>2, <4>2, StampTyped
        <5>2. delivered[i].boot <= stamp.boot
          BY <1>2 DEF StationCounts
        <5> QED BY <4>1, <5>1, <5>2
      <4>3. CASE latest = Unknown
        <5>1. delivered[i].boot # m.boot
          <6>1. SUFFICES ASSUME delivered[i].boot = m.boot PROVE FALSE
            OBVIOUS
          <6>2. CountsIn(m.boot)
            BY <6>1 DEF CountsIn
          <6> QED BY <1>1, <1>2, <4>3, <6>2, CountedBefore
        <5> QED BY <4>1, <5>1
      <4> QED BY <1>5, <3>2, <4>2, <4>3
    <3>3. CASE anew
      BY <2>1, <3>2, <3>3 DEF StartsAnew, From
    <3> QED BY <3>1, <3>3
  <2> QED BY <1>1, <1>2, <2>2, <2>3, <2>4, DeliversInv
<1>9. CASE Number(m.n) # expected
  <2>1. ~anew /\ latest # Unknown /\ expected = Successor(latest)
    BY <1>5, <1>6, <1>9
  <2>2. /\ stamp' \in {stamp, StampOf(m)} /\ UNCHANGED <<latest, setBacks, delivered, basis>>
        /\ asked' = asked \/ Request(Successor(latest))
    BY <1>5, <1>6, <1>9, <1>7, <2>1 DEF OnEvent, OnNewer, NoRequest, StampOf
  <2>3. StaysPut(m)
    BY <1>1, <2>2 DEF StaysPut
  <2>4. Successor(latest) \in Numbers
    <3>1. latest \in Int
      BY <1>1, <2>1, EventsAssumption DEF EventTyped, Numbers
    <3> QED BY <3>1, DivMod DEF Successor, Number
  <2>5. boot = 0 => \E k \in base + 1 .. base + MaxEvents + 1 : Successor(latest) = Number(k)
    BY <1>1, <1>2, <2>1, NextIsNear
  <2>6. AsksWell(base)'
    BY <1>1, <1>2, <2>2, <2>4, <2>5, AsksStill, AsksMore
  <2> QED BY <1>1, <1>2, <2>3, <2>6, Unmoved
<1> QED BY <1>8, <1>9

-----------------------------------------------------------------------------
(* The current number arrives.                                             *)

LEMMA CurrentArrives ==
  ASSUME EventTyped, NEW heard \in Nat, NEW base \in Nat, NEW level \in [Nat -> Nat],
         Coming(heard, base, level), NEW m, Accepted(m), m.what = "current"
  PROVE  /\ m.n \in Nat /\ m.boot \in Nat /\ m.boot <= boot /\ m.n = level[1]
         /\ Floor(m.boot, base) <= m.n /\ m.n <= Floor(m.boot, base) + MaxEvents
         /\ m.boot = boot => m.n <= newest
<1>1. m.n = level[1]
  <2>1. Tells(m, level[1], base)
    BY FirstArrives
  <2> QED BY <2>1 DEF Tells
<1> QED BY <1>1, FirstArrives

\* The station counts from the message's event on.
CountsAnew(m) ==
  /\ latest' = Number(m.n) /\ basis' = [boot |-> m.boot, from |-> m.n + 1]
  /\ UNCHANGED <<stamp, setBacks, delivered, boot, newest, happened>>

LEMMA NoneBetween ==
  ASSUME NEW k \in Nat, NEW n \in Int, k + 1 <= n, n <= k
  PROVE  FALSE
OBVIOUS

LEMMA CountsAnewInv ==
  ASSUME EventTyped, InOrder,
         NEW heard \in Nat, NEW base \in Nat, NEW count \in Nat, NEW level \in [Nat -> Nat],
         VehicleCounts(base), Coming(heard, base, level), StationCounts(heard, base, count, level),
         NEW m, Accepted(m), m.what = "current", CountsAnew(m), AsksWell(base)'
  PROVE  EventInv'
<1>1. /\ m.n \in Nat /\ m.boot \in Nat /\ m.boot <= boot /\ m.n = level[1]
      /\ Floor(m.boot, base) <= m.n /\ m.n <= Floor(m.boot, base) + MaxEvents
      /\ m.boot = boot => m.n <= newest
  BY CurrentArrives
<1>2. UNCHANGED <<stamp, setBacks, delivered, boot, newest, happened>>
  BY DEF CountsAnew
<1>3. latest' = Number(m.n) /\ latest' \in Numbers
  BY <1>1, DivMod DEF CountsAnew
<1>4. basis' \in [boot : Int, from : Nat] /\ basis'.boot = m.boot /\ basis'.from = m.n + 1
      /\ basis'.boot <= m.boot /\ basis'.boot >= 0
  BY <1>1 DEF CountsAnew
<1>5. StationTyped'
  BY <1>2, <1>3, <1>4 DEF StationTyped, AsksWell, EventTyped
<1>6. HeardOf(m.boot)'
  BY <1>2, <1>4, HearsMore DEF HeardOf
<1>7. InOrder'
  BY <1>2, OrderStays
<1>8. ASSUME setBacks = 0, NEW i \in DOMAIN delivered, delivered[i].boot = m.boot PROVE delivered[i].n <= m.n
  <2>1. CountsIn(m.boot)
    BY <1>8 DEF CountsIn
  <2>2. Counted(m.boot, base, count) /\ count <= level[1]
    BY <2>1, CountedBefore
  <2>3. delivered[i].n <= count /\ count <= m.n
    BY <1>1, <1>8, <2>2 DEF Counted
  <2>4. delivered[i] \in EventMessages
    BY SeqElement DEF EventTyped
  <2>5. PICK a \in Nat, b \in Nat : a = delivered[i].n /\ b = m.n
    BY <1>1, <2>4 DEF EventMessages
  <2>6. a <= b
    BY <2>3, <2>5, Between
  <2> QED BY <2>5, <2>6
<1>9. ASSUME NEW n \in Available', basis'.from <= n, n <= m.n PROVE FALSE
  <2>1. n \in Int
    BY <1>9 DEF Available
  <2> QED BY <1>1, <1>4, <1>9, <2>1, NoneBetween
<1>10. Counted(m.boot, base, m.n)'
  BY <1>1, <1>2, <1>3, <1>8, <1>9 DEF Counted, Floor
<1>11. m.n <= level[1]
  BY <1>1
<1> QED BY <1>1, <1>2, <1>5, <1>6, <1>7, <1>10, <1>11, Arrives DEF AsksWell, CountsUpTo, VehicleRests

LEMMA OnCurrentInv ==
  ASSUME EventInv, NEW m, Accepted(m), m.what = "current", UNCHANGED <<board, stamp, setBacks>>, OnCurrent(m)
  PROVE  EventInv'
<1>1. EventTyped /\ InOrder /\ UNCHANGED <<boot, newest, happened, stamp, setBacks, delivered>>
  BY DEF EventInv, board, OnCurrent
<1>2. PICK heard \in Nat, base \in Nat, count \in Nat, level \in [Nat -> Nat] :
        VehicleCounts(base) /\ Coming(heard, base, level) /\ StationCounts(heard, base, count, level)
  BY DEF EventInv, EventStory
<1>3. PICK anew \in BOOLEAN : anew = (m.reset \/ latest = Unknown)
  OBVIOUS
<1>4. PICK from : from = IF anew THEN Number(m.n) ELSE latest
  OBVIOUS
<1>5. /\ latest' = from /\ (IF anew THEN From(m, m.n + 1) ELSE UNCHANGED basis)
      /\ asked' = asked \/ Request(Successor(from))
  BY <1>3, <1>4 DEF OnCurrent, NoRequest
<1>6. CASE anew
  <2>1. CountsAnew(m)
    BY <1>1, <1>4, <1>5, <1>6 DEF CountsAnew, From
  <2>2. /\ Successor(from) \in Numbers
        /\ boot = 0 => \E k \in base + 1 .. base + MaxEvents + 1 : Successor(from) = Number(k)
    <3>1. boot \in Nat
      BY <1>1 DEF EventTyped
    <3> QED BY <1>1, <1>2, <1>4, <1>6, <3>1, CurrentArrives, AsksForNext
  <2>3. AsksWell(base)'
    BY <1>1, <1>2, <1>5, <2>2, AsksStill, AsksMore
  <2> QED BY <1>1, <1>2, <2>1, <2>3, CountsAnewInv
<1>7. CASE ~anew
  <2>1. from = latest /\ latest # Unknown /\ UNCHANGED <<latest, basis>>
    BY <1>3, <1>4, <1>5, <1>7
  <2>2. StaysPut(m)
    BY <1>1, <2>1 DEF StaysPut
  <2>3. Successor(latest) \in Numbers
    <3>1. latest \in Int
      BY <1>1, <2>1, EventsAssumption DEF EventTyped, Numbers
    <3> QED BY <3>1, DivMod DEF Successor, Number
  <2>4. boot = 0 => \E k \in base + 1 .. base + MaxEvents + 1 : Successor(latest) = Number(k)
    BY <1>1, <1>2, <2>1, NextIsNear
  <2>5. AsksWell(base)'
    BY <1>1, <1>2, <1>5, <2>1, <2>3, <2>4, AsksStill, AsksMore
  <2> QED BY <1>1, <1>2, <2>2, <2>5, Unmoved
<1> QED BY <1>6, <1>7

-----------------------------------------------------------------------------
(* An error arrives: what is gone is skipped.                              *)

\* The station goes on with the message's event.
GoesOn(m) ==
  /\ latest # Unknown /\ Successor(latest) = m.of /\ latest' = Predecessor(Number(m.n))
  /\ UNCHANGED <<stamp, setBacks, delivered, basis, boot, newest, happened>>

LEMMA OneBefore ==
  ASSUME NEW f \in Nat, NEW k \in Nat, NEW n \in Nat, NEW top \in Nat, f <= k, k + 1 <= n, n <= top + 1
  PROVE  /\ n - 1 \in Nat /\ k <= n - 1 /\ f <= n - 1 /\ n - 1 <= top
         /\ \A most \in Nat : top <= f + most => n - 1 <= f + most /\ n \in f + 1 .. f + most + 1
         /\ \A b \in Nat : top <= b => n - 1 <= b
OBVIOUS

LEMMA InRange ==
  ASSUME NEW f \in Nat, NEW k \in Nat, NEW top \in Nat, f <= k, k <= top
  PROVE  k + 1 \in f + 1 .. top + 1 /\ k + 1 \in Int
OBVIOUS

\* Of what the vehicle keeps the error skips nothing.
LEMMA ErrorArrives ==
  ASSUME EventTyped, NEW heard \in Nat, NEW base \in Nat, NEW count \in Nat, NEW level \in [Nat -> Nat],
         Coming(heard, base, level), StationCounts(heard, base, count, level),
         NEW m, Accepted(m), m.what = "error", Successor(latest) = m.of, CountsIn(m.boot)
  PROVE  /\ m.n \in Nat /\ m.n - 1 \in Nat /\ count <= m.n - 1 /\ m.n - 1 <= level[1]
         /\ Floor(m.boot, base) <= m.n - 1 /\ m.n - 1 <= Floor(m.boot, base) + MaxEvents
         /\ m.n \in Floor(m.boot, base) + 1 .. Floor(m.boot, base) + MaxEvents + 1
         /\ m.boot = boot => m.n - 1 <= newest
         /\ m.boot = boot /\ count + 1 < m.n => m.n <= newest - Depth + 1
<1>1. /\ m.boot \in Nat /\ m.n \in Nat /\ level[1] \in Nat /\ Tells(m, level[1], base)
      /\ level[1] <= Floor(m.boot, base) + MaxEvents
      /\ m.boot = boot => level[1] <= newest
  BY FirstArrives
<1>2. Counted(m.boot, base, count) /\ count <= level[1] /\ latest = Number(count)
  BY CountedBefore
<1>3. Floor(m.boot, base) \in Nat /\ Floor(m.boot, base) <= count
  BY <1>1, <1>2, FloorTyped DEF Counted
<1>4. PICK f \in Nat, top \in Nat, n \in Nat : f = Floor(m.boot, base) /\ top = level[1] /\ n = m.n
  BY <1>1, <1>3
<1>5. count + 1 \in f + 1 .. top + 1
  BY <1>2, <1>3, <1>4, InRange
<1>6. Number(count + 1) = m.of
  BY <1>2, NextNumber
<1>7. n <= top + 1 /\ count + 1 <= n /\ (m.boot = boot /\ count + 1 < n => n <= newest - Depth + 1)
  BY <1>1, <1>4, <1>5, <1>6 DEF Tells
<1>8. MaxEvents \in Nat /\ newest \in Nat
  BY EventsAssumption DEF EventTyped
<1>9. /\ n - 1 \in Nat /\ count <= n - 1 /\ f <= n - 1 /\ n - 1 <= top
      /\ n - 1 <= f + MaxEvents /\ n \in f + 1 .. f + MaxEvents + 1
      /\ top <= newest => n - 1 <= newest
  BY <1>1, <1>3, <1>4, <1>7, <1>8, OneBefore
<1> QED BY <1>1, <1>4, <1>7, <1>9

LEMMA NotKept ==
  ASSUME NEW new \in Nat, NEW d \in Nat, NEW n \in Int, NEW m \in Nat, NEW k \in Nat,
         n > new - d, n <= m - 1, k + 1 < m => m <= new - d + 1
  PROVE  n <= k
OBVIOUS

LEMMA CountsOn ==
  ASSUME EventTyped, NEW heard \in Nat, NEW base \in Nat, NEW count \in Nat, NEW level \in [Nat -> Nat],
         Coming(heard, base, level), StationCounts(heard, base, count, level),
         NEW m, Accepted(m), m.what = "error", GoesOn(m), CountsIn(m.boot)
  PROVE  Counted(m.boot, base, m.n - 1)' /\ m.n - 1 <= level[1] /\ m.n - 1 \in Nat
<1>1. /\ m.n \in Nat /\ m.n - 1 \in Nat /\ count <= m.n - 1 /\ m.n - 1 <= level[1]
      /\ Floor(m.boot, base) <= m.n - 1 /\ m.n - 1 <= Floor(m.boot, base) + MaxEvents
      /\ m.boot = boot => m.n - 1 <= newest
      /\ m.boot = boot /\ count + 1 < m.n => m.n <= newest - Depth + 1
  BY ErrorArrives DEF GoesOn
<1>2. PICK c \in Nat : c = m.n - 1
  BY <1>1
<1>3. Counted(m.boot, base, count)
  BY CountedBefore
<1>4. latest' = Number(c)
  <2>1. m.n \in Int
    BY <1>1
  <2> QED BY <1>2, <2>1, NumberBefore DEF GoesOn
<1>5. UNCHANGED <<setBacks, delivered, basis, boot, newest>>
  BY DEF GoesOn
<1>6. ASSUME setBacks = 0, NEW i \in DOMAIN delivered, delivered[i].boot = m.boot PROVE delivered[i].n <= c
  <2>1. delivered[i].n <= count /\ count <= c
    BY <1>1, <1>2, <1>3, <1>6 DEF Counted
  <2>2. delivered[i] \in EventMessages
    BY SeqElement DEF EventTyped
  <2>3. PICK a \in Nat : a = delivered[i].n
    BY <2>2 DEF EventMessages
  <2>4. a <= c
    BY <2>1, <2>3, Between
  <2> QED BY <2>3, <2>4
<1>7. ASSUME basis.boot = boot, NEW n \in Available, basis.from <= n, n <= c
      PROVE  Event(n) \in {delivered[i] : i \in DOMAIN delivered}
  <2>1. m.boot = boot
    <3>1. boot <= heard /\ heard <= m.boot /\ m.boot <= boot
      BY <1>7, FirstArrives DEF StationCounts
    <3>2. PICK a \in Nat, b \in Nat : a = boot /\ b = m.boot
      BY FirstArrives DEF EventTyped
    <3> QED BY <3>1, <3>2
  <2>2. n \in Int /\ n > newest - Depth
    BY <1>7 DEF Available
  <2>3. newest \in Nat /\ Depth \in Nat
    BY EventsAssumption DEF EventTyped
  <2>4. n <= count
    BY <1>1, <1>2, <1>7, <2>1, <2>2, <2>3, NotKept
  <2> QED BY <1>3, <1>7, <2>4 DEF Counted
<1>8. Counted(m.boot, base, c)'
  BY <1>1, <1>2, <1>4, <1>5, <1>6, <1>7 DEF Counted, Floor, Available, Event
<1> QED BY <1>1, <1>2, <1>8

LEMMA GoesOnInv ==
  ASSUME EventTyped, InOrder,
         NEW heard \in Nat, NEW base \in Nat, NEW count \in Nat, NEW level \in [Nat -> Nat],
         VehicleCounts(base), Coming(heard, base, level), StationCounts(heard, base, count, level),
         NEW m, Accepted(m), m.what = "error", GoesOn(m), AsksWell(base)'
  PROVE  EventInv'
<1>1. m.n \in Nat
  BY FirstArrives
<1>2. latest' \in Numbers
  <2>1. m.n \in Int /\ m.n - 1 \in Int
    BY <1>1
  <2> QED BY <2>1, NumberBefore, DivMod DEF GoesOn
<1>3. UNCHANGED <<stamp, setBacks, delivered, basis, boot, newest, happened>> /\ latest # Unknown
  BY DEF GoesOn
<1>4. StationTyped'
  BY <1>2, <1>3 DEF StationTyped, AsksWell, EventTyped
<1>5. HeardOf(m.boot)'
  BY <1>3, HearsMore DEF HeardOf
<1>6. InOrder'
  BY <1>3, OrderStays
<1>7. PICK c \in Nat : CountsIn(m.boot) => Counted(m.boot, base, c)' /\ c <= level[1]
  BY CountsOn
<1>8. CountsIn(m.boot)' => CountsIn(m.boot)
  BY <1>3 DEF CountsIn
<1> QED BY <1>3, <1>4, <1>5, <1>6, <1>7, <1>8, Arrives DEF AsksWell, CountsUpTo, VehicleRests

LEMMA OnErrorInv ==
  ASSUME EventInv, NEW m, Accepted(m), m.what = "error", UNCHANGED <<board, stamp, setBacks>>, OnError(m)
  PROVE  EventInv'
<1>1. EventTyped /\ InOrder /\ UNCHANGED <<boot, newest, happened, stamp, setBacks, delivered, basis>>
  BY DEF EventInv, board, OnError
<1>2. PICK heard \in Nat, base \in Nat, count \in Nat, level \in [Nat -> Nat] :
        VehicleCounts(base) /\ Coming(heard, base, level) /\ StationCounts(heard, base, count, level)
  BY DEF EventInv, EventStory
<1>3. CASE latest # Unknown /\ Successor(latest) = m.of
  <2>1. latest' = Predecessor(Number(m.n)) /\ Request(Number(m.n))
    BY <1>3 DEF OnError
  <2>2. GoesOn(m)
    BY <1>1, <1>3, <2>1 DEF GoesOn
  <2>3. m.n \in Nat /\ m.boot \in Nat /\ m.boot <= boot /\ heard <= m.boot
    BY <1>1, <1>2, FirstArrives
  <2>4. Number(m.n) \in Numbers
    BY <2>3, DivMod
  <2>5. ASSUME boot = 0 PROVE \E k \in base + 1 .. base + MaxEvents + 1 : Number(m.n) = Number(k)
    <3>1. heard = 0 /\ CountsIn(heard)
      BY <1>1, <1>2, <1>3, <2>5, CountsFromTheFirst
    <3>2. m.boot = 0
      BY <2>3, <2>5
    <3>3. CountsIn(m.boot)
      BY <3>1, <3>2
    <3>4. m.n \in Floor(m.boot, base) + 1 .. Floor(m.boot, base) + MaxEvents + 1
      BY <1>1, <1>2, <1>3, <3>3, ErrorArrives
    <3>5. m.n \in base + 1 .. base + MaxEvents + 1
      BY <3>2, <3>4 DEF Floor
    <3> QED BY <3>5
  <2>6. AsksWell(base)'
    BY <1>1, <1>2, <2>1, <2>4, <2>5, AsksMore
  <2> QED BY <1>1, <1>2, <1>3, <2>2, <2>6, GoesOnInv
<1>4. CASE ~(latest # Unknown /\ Successor(latest) = m.of)
  <2>1. UNCHANGED <<latest, asked>>
    BY <1>4 DEF OnError, NoRequest
  <2>2. StaysPut(m)
    BY <1>1, <2>1 DEF StaysPut
  <2>3. AsksWell(base)'
    BY <1>1, <1>2, <2>1, AsksStill
  <2> QED BY <1>1, <1>2, <2>2, <2>3, Unmoved
<1> QED BY <1>3, <1>4

-----------------------------------------------------------------------------
(* Every step, and what is promised.                                       *)

LEMMA MessageArrivesInv ==
  ASSUME EventInv, MessageArrives
  PROVE  EventInv'
<1>1. PICK m : m = Head(arriving)
  OBVIOUS
<1>2. Accepted(m) /\ UNCHANGED board
  BY <1>1 DEF Accepted, MessageArrives
<1>3. m.what \in {"event", "current", "error"}
  <2>1. arriving \in Seq(Messages) /\ arriving # <<>>
    BY DEF EventInv, EventTyped, MessageArrives
  <2>2. m \in Messages
    BY <1>1, <2>1, SeqTail
  <2> QED BY <2>2, MessageTyped
<1>4. CASE m.what = "event"
  <2>1. \E restarted \in BOOLEAN : OnEvent(m, restarted)
    BY <1>1, <1>4 DEF MessageArrives
  <2> QED BY <1>2, <1>4, <2>1, OnEventInv
<1>5. CASE m.what = "current"
  <2>1. OnCurrent(m) /\ UNCHANGED <<stamp, setBacks>>
    BY <1>1, <1>5 DEF MessageArrives
  <2> QED BY <1>2, <1>5, <2>1, OnCurrentInv
<1>6. CASE m.what = "error"
  <2>1. OnError(m) /\ UNCHANGED <<stamp, setBacks>>
    BY <1>1, <1>6 DEF MessageArrives
  <2> QED BY <1>2, <1>6, <2>1, OnErrorInv
<1> QED BY <1>3, <1>4, <1>5, <1>6

LEMMA EventInitInv ==
  ASSUME EventInit
  PROVE  EventInv
<1>1. /\ latest = Unknown /\ stamp = Unstamped /\ setBacks = 0 /\ boot = 0 /\ newest \in Nat /\ happened = 0
      /\ asked = <<>> /\ arriving = <<>> /\ delivered = <<>> /\ basis = [boot |-> -1, from |-> 0]
  BY EventsAssumption DEF EventInit
<1>2. MaxEvents \in Nat
  BY EventsAssumption
<1>3. EventTyped
  BY <1>1, <1>2 DEF EventTyped, Stamps
<1>4. InOrder
  BY <1>1 DEF InOrder
<1>5. PICK level \in [Nat -> Nat] : level = [i \in Nat |-> 0]
  OBVIOUS
<1>6. VehicleCounts(newest)
  BY <1>1 DEF VehicleCounts, Floor
<1>7. Coming(0, newest, level)
  BY <1>1 DEF Coming
<1>8. ~CountsIn(0)
  BY <1>1 DEF CountsIn
<1>9. StationCounts(0, newest, 0, level)
  BY <1>1, <1>8 DEF StationCounts, Unknown, Unstamped
<1>10. EventStory
  BY <1>1, <1>5, <1>6, <1>7, <1>9 DEF EventStory
<1> QED BY <1>3, <1>4, <1>10 DEF EventInv

LEMMA EventStepInv ==
  ASSUME KeepsFew, EventInv, [EventNext]_eventVars
  PROVE  EventInv'
<1>1. CASE EventHappens
  BY <1>1, EventHappensInv
<1>2. CASE CurrentSent
  BY <1>2, CurrentSentInv
<1>3. CASE Serve
  BY <1>3, ServeInv
<1>4. CASE Restart
  BY <1>4, RestartInv
<1>5. CASE Drop
  BY <1>5, DropInv
<1>6. CASE Repeat
  BY <1>6, RepeatInv
<1>7. CASE MessageArrives
  BY <1>7, MessageArrivesInv
<1>8. CASE Tick
  BY <1>8, TickInv
<1>9. CASE UNCHANGED eventVars
  <2>1. UNCHANGED <<latest, stamp, setBacks, delivered, basis, boot, newest, happened, asked, arriving>>
    BY <1>9 DEF eventVars, station, board
  <2>2. EventTyped' /\ InOrder'
    BY <2>1 DEF EventInv, EventTyped, InOrder
  <2>3. PICK heard \in Nat, base \in Nat, count \in Nat, level \in [Nat -> Nat] :
          VehicleCounts(base) /\ Coming(heard, base, level) /\ StationCounts(heard, base, count, level)
    BY DEF EventInv, EventStory
  <2>4. VehicleCounts(base)'
    BY <2>1, <2>3 DEF VehicleCounts
  <2>5. Coming(heard, base, level)'
    BY <2>1, <2>3 DEF Coming, Tells
  <2>6. StationCounts(heard, base, count, level)'
    BY <2>1, <2>3 DEF StationCounts, CountsIn, Counted, Available, Event
  <2>7. EventStory'
    BY <2>4, <2>5, <2>6 DEF EventStory
  <2> QED BY <2>2, <2>7 DEF EventInv
<1> QED BY <1>1, <1>2, <1>3, <1>4, <1>5, <1>6, <1>7, <1>8, <1>9 DEF EventNext

LEMMA NearAhead ==
  ASSUME NEW f \in Nat, NEW c \in Nat, NEW n \in Int, NEW new \in Nat, NEW most \in Nat,
         f <= c, c < n, n <= new, new <= f + most
  PROVE  n - c <= most + 1
OBVIOUS

LEMMA StoryIsWhole ==
  ASSUME EventInv
  PROVE  InOrderAndWhole
<1>1. InOrder /\ EventTyped
  BY DEF EventInv
<1>2. SUFFICES ASSUME latest # Unknown, basis.boot = boot, NEW n \in Available,
                      n >= basis.from, ~Newer(latest, Number(n))
               PROVE  Event(n) \in {delivered[i] : i \in DOMAIN delivered}
  BY <1>1 DEF InOrder, InOrderAndWhole
<1>3. PICK heard \in Nat, base \in Nat, count \in Nat, level \in [Nat -> Nat] :
        VehicleCounts(base) /\ Coming(heard, base, level) /\ StationCounts(heard, base, count, level)
  BY DEF EventInv, EventStory
<1>4. heard = boot
  <2>1. boot <= heard /\ heard <= boot
    BY <1>2, <1>3 DEF StationCounts
  <2>2. boot \in Nat
    BY <1>1 DEF EventTyped
  <2> QED BY <2>1, <2>2
<1>5. CountsIn(heard)
  BY <1>2, <1>4 DEF CountsIn
<1>6. Counted(heard, base, count)
  BY <1>3, <1>5 DEF StationCounts
<1>7. n \in Int /\ n <= newest
  BY <1>2 DEF Available
<1>8. n <= count
  <2>1. SUFFICES ASSUME count < n PROVE FALSE
    BY <1>7
  <2>2. newest \in Nat /\ Floor(boot, base) \in Nat /\ newest <= Floor(boot, base) + MaxEvents
    BY <1>1, <1>3, NewestIsNear
  <2>3. Floor(boot, base) <= count /\ latest = Number(count)
    BY <1>4, <1>6 DEF Counted
  <2>4. MaxEvents \in Nat
    BY EventsAssumption
  <2>5. n - count <= MaxEvents + 1
    BY <1>7, <2>1, <2>2, <2>3, <2>4, NearAhead
  <2>6. Newer(Number(count), Number(n))
    BY <1>7, <2>1, <2>5, NewerAhead
  <2> QED BY <1>2, <2>3, <2>6
<1>9. basis.from <= n
  <2>1. basis.from \in Int
    BY <1>1 DEF EventTyped
  <2> QED BY <1>2, <1>7, <2>1
<1> QED BY <1>2, <1>6, <1>8, <1>9 DEF Counted

\* Across restarts, losses, repeats, late answers and old events taken for a restart, the
\* station passes over no event that the vehicle still keeps, and as long as none was so
\* taken it delivers them in their order and once (libevents.rs, on_event, on_current,
\* on_error and on_tick), if the events that a vehicle keeps and those still to happen have
\* different numbers.
THEOREM EventsInOrder ==
  ASSUME KeepsFew
  PROVE  EventSpec => []InOrderAndWhole
<1>1. EventInit => EventInv
  BY EventInitInv
<1>2. EventInv /\ [EventNext]_eventVars => EventInv'
  BY EventStepInv
<1>3. EventInv => InOrderAndWhole
  BY StoryIsWhole
<1> QED BY <1>1, <1>2, <1>3, PTL DEF EventSpec

-----------------------------------------------------------------------------
(* The types of the links.  Beside the invariant of the links above: the   *)
(* places of a vehicle's links are among the first as many numbers, and    *)
(* what is lost or quiet is a link of it.                                  *)

Placed(v) ==
  /\ v.lost \subseteq DOMAIN v.heard
  /\ \A l \in DOMAIN v.heard : v.heard[l] < Cardinality(DOMAIN v.heard)

WiresTyped ==
  /\ kind \in Kinds
  /\ wire \in [Carriers -> {"new", "up", "down", "closed"}]
  /\ inHand \subseteq Carriers /\ closing \subseteq Carriers /\ discard \subseteq Carriers
  /\ seen \in [pumping : BOOLEAN, open : SUBSET Carriers, down : SUBSET Carriers]
  /\ quiet \subseteq Links /\ troubles \in 0 .. MaxTroubles

LinksTyped == LinksIInv /\ WiresTyped /\ (vehicle.present => Placed(vehicle))

LEMMA AfterPlaced ==
  ASSUME NEW v \in Vehicles, Placed(v), NEW l \in Carriers \ DOMAIN v.heard
  PROVE  \A m \in DOMAIN After(v.heard, l) :
           After(v.heard, l)[m] < Cardinality(DOMAIN After(v.heard, l))
<1>1. DOMAIN After(v.heard, l) = DOMAIN v.heard \cup {l}
  BY AfterIsTyped
<1>2. Cardinality(DOMAIN v.heard \cup {l}) = Cardinality(DOMAIN v.heard) + 1
  BY HeardIsTyped, FS_AddElement
<1>3. Cardinality(DOMAIN v.heard) \in Nat /\ \A m \in DOMAIN v.heard : v.heard[m] \in Nat
  BY HeardIsTyped
<1> TAKE m \in DOMAIN After(v.heard, l)
<1>4. m \in DOMAIN v.heard \cup {l}
  BY <1>1
<1>5. After(v.heard, l)[m] = IF m \in DOMAIN v.heard THEN v.heard[m] ELSE Cardinality(DOMAIN v.heard)
  BY <1>4 DEF After
<1>6. After(v.heard, l)[m] < Cardinality(DOMAIN v.heard) + 1
  BY <1>3, <1>5 DEF Placed
<1> QED BY <1>1, <1>2, <1>6

\* Of the links that are left a link comes after some of the others.
LEMMA KeptPlaced ==
  ASSUME NEW v \in Vehicles, NEW links
  PROVE  \A m \in DOMAIN Kept(v.heard, links) :
           Kept(v.heard, links)[m] < Cardinality(DOMAIN Kept(v.heard, links))
<1> DEFINE left == DOMAIN v.heard \cap links
<1>1. DOMAIN Kept(v.heard, links) = left
  BY KeptIsTyped
<1>2. IsFiniteSet(left) /\ \A m \in left : v.heard[m] \in Nat
  BY HeardIsTyped, FS_Subset
<1> TAKE m \in DOMAIN Kept(v.heard, links)
<1> DEFINE earlier == {k \in left : v.heard[k] < v.heard[m]}
<1>3. m \in left /\ Kept(v.heard, links)[m] = Cardinality(earlier)
  BY <1>1 DEF Kept
<1>4. earlier \subseteq left /\ m \notin earlier
  BY <1>2, <1>3
<1>5. Cardinality(earlier) < Cardinality(left)
  <2> HIDE DEF earlier, left
  <2>1. Cardinality(earlier) <= Cardinality(left) /\ (Cardinality(earlier) = Cardinality(left) => earlier = left)
    BY <1>2, <1>4, FS_Subset
  <2>2. earlier # left
    BY <1>3, <1>4
  <2>3. Cardinality(earlier) \in Nat /\ Cardinality(left) \in Nat
    BY <1>2, <1>4, FS_Subset, FS_CardinalityType
  <2> QED BY <2>1, <2>2, <2>3
<1> QED BY <1>1, <1>3, <1>5

\* What a link that is heard changes of the links.
LEMMA NotedPlaces ==
  ASSUME KindsKnown, known \subseteq Carriers, NEW l \in Carriers,
         NEW v, Sound(v) \/ v = NewVehicle(l), Placed(v)
  PROVE  Placed(Noted(v, l)) /\ DOMAIN v.heard \subseteq DOMAIN Noted(v, l).heard
<1>1. Whole(v) /\ v \in Vehicles
  BY NewIsWhole DEF Sound, Whole
<1>2. CASE l \notin DOMAIN v.heard
  <2> DEFINE x == [v EXCEPT !.heard = After(@, l)]
  <2>1. After(v.heard, l) \in Places /\ DOMAIN After(v.heard, l) = DOMAIN v.heard \cup {l}
    BY <1>1, AfterIsTyped
  <2>2. x \in Vehicles /\ x.heard = After(v.heard, l) /\ x.lost = v.lost
    BY <1>1, <2>1 DEF Vehicles
  <2>3. Whole(x)
    BY <1>1, <2>2 DEF Whole, Vehicles
  <2>4. Noted(v, l) = Updated(x, known)
    BY <1>2 DEF Noted
  <2> HIDE DEF x
  <2>5. Updated(x, known).heard = After(v.heard, l) /\ Updated(x, known).lost = v.lost
    BY <2>2, <2>3, UpdatedIsChosen
  <2>6. \A m \in DOMAIN After(v.heard, l) : After(v.heard, l)[m] < Cardinality(DOMAIN After(v.heard, l))
    BY <1>1, <1>2, AfterPlaced
  <2> QED BY <2>1, <2>4, <2>5, <2>6 DEF Placed
<1>3. CASE l \in DOMAIN v.heard /\ l \in v.lost
  <2> DEFINE x == [v EXCEPT !.lost = @ \ {l}, !.lostAll = FALSE]
  <2>1. x \in Vehicles /\ x.heard = v.heard /\ x.lost = v.lost \ {l}
    BY <1>1 DEF Vehicles
  <2>2. Whole(x)
    BY <1>1, <2>1 DEF Whole, Vehicles
  <2>3. Noted(v, l) = Updated(x, known)
    BY <1>3 DEF Noted
  <2> HIDE DEF x
  <2>4. Updated(x, known).heard = v.heard /\ Updated(x, known).lost = v.lost \ {l}
    BY <2>1, <2>2, UpdatedIsChosen
  <2> QED BY <2>3, <2>4 DEF Placed
<1>4. CASE l \in DOMAIN v.heard /\ l \notin v.lost
  <2>1. Noted(v, l) = v
    BY <1>4 DEF Noted
  <2> QED BY <2>1
<1> QED BY <1>2, <1>3, <1>4

LEMMA RetainedPlaces ==
  ASSUME KindsKnown, known \subseteq Carriers, NEW links \in SUBSET Carriers,
         vehicle = NoVehicle \/ (Sound(vehicle) /\ Placed(vehicle)),
         Retained(vehicle, links) # NoVehicle
  PROVE  Placed(Retained(vehicle, links))
<1>1. Sound(vehicle) /\ Placed(vehicle)
  <2>1. SUFFICES ASSUME vehicle = NoVehicle PROVE FALSE
    OBVIOUS
  <2>2. ~vehicle.present
    BY <2>1 DEF NoVehicle
  <2> QED BY <2>1, <2>2 DEF Retained
<1> DEFINE x == [vehicle EXCEPT !.heard = Kept(@, links), !.lost = @ \cap links]
           w == Updated(x, known)
           instead == OrElse(w.primary, FirstOf(w, Carriers))
<1>2. vehicle \in Vehicles /\ vehicle.present
  BY <1>1 DEF Sound, Whole, Vehicles
<1>3. /\ Kept(vehicle.heard, links) \in Places
      /\ DOMAIN Kept(vehicle.heard, links) = DOMAIN vehicle.heard \cap links
  BY <1>2, KeptIsTyped
<1>4. /\ x \in Vehicles /\ x.heard = Kept(vehicle.heard, links)
      /\ x.lost = vehicle.lost \cap links /\ x.sendsOn = vehicle.sendsOn
      /\ x.primary = vehicle.primary
  BY <1>2, <1>3 DEF Vehicles
<1>5. Whole(x)
  BY <1>1, <1>4 DEF Sound, Whole
<1>6. Retained(vehicle, links) =
        IF w.sendsOn \in links THEN w
        ELSE IF instead = NoLink THEN NoVehicle ELSE [w EXCEPT !.sendsOn = instead]
  BY <1>2 DEF Retained
<1> HIDE DEF x
<1>7. Whole(w) /\ w.heard = x.heard /\ w.lost = x.lost
  BY <1>5, UpdatedIsChosen
<1> HIDE DEF w, instead
<1>8. /\ Retained(vehicle, links).heard = Kept(vehicle.heard, links)
      /\ Retained(vehicle, links).lost = vehicle.lost \cap links
  BY <1>4, <1>6, <1>7 DEF Whole, Vehicles
<1>9. \A m \in DOMAIN Kept(vehicle.heard, links) :
        Kept(vehicle.heard, links)[m] < Cardinality(DOMAIN Kept(vehicle.heard, links))
  BY <1>2, KeptPlaced
<1> QED BY <1>1, <1>3, <1>8, <1>9 DEF Placed

LEMMA CheckedPlaces ==
  ASSUME KindsKnown, seen.open \subseteq Carriers,
         NEW v, Sound(v), Placed(v), DOMAIN v.heard \subseteq seen.open
  PROVE  Placed(Checked(v))
<1> DEFINE lost == v.lost \cup Silenced(v)
           all == DOMAIN v.heard # {} /\ DOMAIN v.heard \subseteq lost
           x == [v EXCEPT !.lost = lost, !.lostAll = all]
<1>1. v \in Vehicles /\ DOMAIN v.heard \subseteq Carriers
  BY HeardIsTyped DEF Sound, Whole
<1>2. Silenced(v) \subseteq DOMAIN v.heard
  BY DEF Silenced, Live
<1>3. Silenced(v) \cap {l \in Carriers : "high latency" \in kind[l]} = {}
  BY <1>1 DEF Silenced, Live, HighLatency, OfKind
<1>4. CASE ~v.watching
  BY <1>4 DEF Checked
<1>5. CASE v.watching
  <2>1. Checked(v) = Updated(x, seen.open)
    BY <1>5 DEF Checked
  <2>2. /\ x \in Vehicles /\ x.heard = v.heard /\ x.lost = lost
        /\ x.sendsOn = v.sendsOn /\ x.primary = v.primary
    BY <1>1, <1>2 DEF Vehicles
  <2>3. Whole(x)
    BY <1>3, <2>2 DEF Sound, Whole
  <2> HIDE DEF x
  <2>4. Updated(x, seen.open).heard = v.heard /\ Updated(x, seen.open).lost = lost
    BY <2>2, <2>3, UpdatedIsChosen
  <2> QED BY <1>2, <2>1, <2>4 DEF Placed
<1> QED BY <1>4, <1>5

LEMMA LinksInitTyped == LinksInit => LinksTyped
<1> SUFFICES ASSUME LinksInit PROVE LinksTyped
  OBVIOUS
<1>1. MaxTroubles \in Nat
  BY LinksAssumption
<1>2. WiresTyped /\ ~vehicle.present
  BY <1>1 DEF LinksInit, WiresTyped, NotSeen, NoVehicle, Links
<1> QED BY <1>2, LinksInitInv DEF LinksTyped

\* What the invariant says of the vehicle.
LEMMA VehicleTyped ==
  ASSUME LinksTyped
  PROVE  /\ vehicle = NoVehicle \/ (Sound(vehicle) /\ Placed(vehicle) /\ vehicle.present)
         /\ Links \subseteq Carriers
         /\ vehicle = NoVehicle => ~vehicle.present /\ Links = {}
<1>1. CASE vehicle = NoVehicle
  BY <1>1 DEF NoVehicle, Links
<1>2. CASE Sound(vehicle)
  <2>1. vehicle \in Vehicles /\ vehicle.present
    BY <1>2 DEF Sound, Whole, Vehicles
  <2>2. vehicle # NoVehicle
    BY <2>1 DEF NoVehicle
  <2>3. Placed(vehicle)
    BY <2>1 DEF LinksTyped
  <2>4. Links \subseteq Carriers
    BY <2>1, HeardIsTyped DEF Links
  <2> QED BY <1>2, <2>1, <2>2, <2>3, <2>4
<1> QED BY <1>1, <1>2 DEF LinksTyped, LinksIInv

LEMMA MoreTrouble ==
  ASSUME troubles \in 0 .. MaxTroubles, Troubled
  PROVE  troubles' \in 0 .. MaxTroubles
<1>1. MaxTroubles \in Nat
  BY LinksAssumption
<1> QED BY <1>1 DEF Troubled

LEMMA FrameTyped ==
  ASSUME LinksTyped, NEW l \in Carriers, NEW heartbeat \in BOOLEAN, Frame(l, heartbeat)
  PROVE  WiresTyped' /\ (vehicle'.present => Placed(vehicle'))
<1> DEFINE from == IF vehicle.present THEN vehicle ELSE NewVehicle(l)
           v == Noted(from, l)
<1>1. vehicle' = CASE ~vehicle.present /\ ~heartbeat -> vehicle
                   [] heartbeat /\ ~Standby(v, l) -> [v EXCEPT !.lostAll = FALSE]
                   [] OTHER -> v
  BY DEF Frame
<1>2. /\ inHand' = inHand \ {l} /\ quiet' = quiet \ {l}
      /\ UNCHANGED <<kind, wire, closing, seen, discard, troubles>>
  BY DEF Frame, pump
<1>3. Placed(NewVehicle(l))
  BY NewIsWhole DEF Placed, NewVehicle
<1>4. (Sound(from) \/ from = NewVehicle(l)) /\ Placed(from)
  BY <1>3, VehicleTyped
<1>5. Sound(v) /\ Placed(v) /\ DOMAIN from.heard \subseteq DOMAIN v.heard
  BY <1>4, NotedIsFine, NotedPlaces DEF LinksTyped, LinksIInv
<1>6. v \in Vehicles /\ v.present
  BY <1>5 DEF Sound, Whole, Vehicles
<1>7. Links \subseteq DOMAIN from.heard
  BY DEF Links
<1> HIDE DEF v, from
<1>8. CASE vehicle' = vehicle
  BY <1>2, <1>8 DEF LinksTyped, WiresTyped, Links
<1>9. CASE vehicle' = v \/ vehicle' = [v EXCEPT !.lostAll = FALSE]
  <2>1. vehicle'.present /\ vehicle'.heard = v.heard /\ vehicle'.lost = v.lost
    BY <1>6, <1>9 DEF Vehicles
  <2>2. Placed(vehicle')
    BY <1>5, <2>1 DEF Placed
  <2>3. Links \subseteq Links'
    BY <1>5, <1>7, <2>1 DEF Links
  <2>4. WiresTyped'
    BY <1>2, <2>3 DEF LinksTyped, WiresTyped
  <2> QED BY <2>2, <2>4
<1> QED BY <1>1, <1>8, <1>9

LEMMA HubHearsOfCloseTyped ==
  ASSUME LinksTyped, NEW l \in Carriers, HubHearsOfClose(l)
  PROVE  WiresTyped' /\ (vehicle'.present => Placed(vehicle'))
<1>1. /\ closing' = closing \ {l} /\ UNCHANGED <<kind, wire, inHand, seen, discard, troubles>>
      /\ vehicle' = Retained(vehicle, Carriers \ {l})
      /\ quiet' = IF vehicle'.present THEN quiet \cap DOMAIN vehicle'.heard ELSE {}
  BY DEF HubHearsOfClose, pump, Still
<1>2. vehicle' = NoVehicle \/ Placed(vehicle')
  BY <1>1, RetainedPlaces, VehicleTyped DEF LinksTyped, LinksIInv
<1>3. WiresTyped'
  BY <1>1 DEF LinksTyped, WiresTyped, Links
<1> QED BY <1>2, <1>3 DEF NoVehicle

LEMMA PumpTellsTyped ==
  ASSUME LinksTyped, PumpTells
  PROVE  WiresTyped' /\ (vehicle'.present => Placed(vehicle'))
<1> DEFINE retained == Retained(vehicle, seen.open)
           closes(v) == v.present /\ v.lostAll /\ v.auto
<1>1. PICK v :
      /\ UNCHANGED <<kind, wire, inHand, closing, troubles>>
      /\ seen' = NotSeen
      /\ v = retained \/ (retained.present /\ v = Checked(retained))
      /\ vehicle' = IF closes(v) THEN NoVehicle ELSE v
      /\ discard' = IF closes(v) THEN discard \cup DOMAIN v.heard ELSE discard
      /\ quiet' = IF vehicle'.present THEN quiet \cap DOMAIN vehicle'.heard ELSE {}
  BY DEF PumpTells, PumpTurns, wires, Still
<1>2. seen.open \in SUBSET Carriers /\ KindsKnown /\ known \subseteq Carriers
  BY DEF LinksTyped, LinksIInv
<1>3. \/ retained = NoVehicle
      \/ Sound(retained) /\ DOMAIN retained.heard \subseteq seen.open /\ Placed(retained)
  BY <1>2, RetainedIsFine, RetainedPlaces, VehicleTyped
<1> HIDE DEF retained
<1>4. v = NoVehicle \/ (Sound(v) /\ Placed(v))
  <2>1. CASE retained = NoVehicle
    BY <1>1, <2>1 DEF NoVehicle
  <2>2. CASE Sound(retained) /\ DOMAIN retained.heard \subseteq seen.open /\ Placed(retained)
    BY <1>1, <1>2, <2>2, CheckedIsFine, CheckedPlaces
  <2> QED BY <1>3, <2>1, <2>2
<1>5. closes(v) => DOMAIN v.heard \subseteq Carriers
  <2>1. HAVE closes(v)
  <2>2. v.present
    BY <2>1
  <2>3. v # NoVehicle
    BY <2>2 DEF NoVehicle
  <2>4. v \in Vehicles
    BY <1>4, <2>3 DEF Sound, Whole
  <2> QED BY <2>4, HeardIsTyped
<1>6. WiresTyped'
  BY <1>1, <1>5 DEF LinksTyped, WiresTyped, NotSeen, Links
<1> QED BY <1>1, <1>4, <1>6 DEF NoVehicle

\* A setting changes, or the ack of a command comes: the links stay as they are.
LEMMA SettingTyped ==
  ASSUME LinksTyped, ControlAnswered \/ \E flag \in {"watching", "auto"} : SetFlag(flag)
  PROVE  WiresTyped' /\ (vehicle'.present => Placed(vehicle'))
<1>1. UNCHANGED <<kind, wire, inHand, closing, seen, discard, quiet>> /\ vehicle.present
  BY DEF ControlAnswered, SetFlag, pump, wires
<1>2. troubles' \in 0 .. MaxTroubles
  <2>1. troubles' = troubles \/ Troubled
    BY DEF ControlAnswered, SetFlag
  <2> QED BY <2>1, MoreTrouble DEF LinksTyped, WiresTyped
<1>3. vehicle \in Vehicles
  BY <1>1, VehicleTyped DEF Sound, Whole
<1>4. \/ vehicle' = [vehicle EXCEPT !.pending = FALSE]
      \/ vehicle' = [vehicle EXCEPT !.watching = ~@]
      \/ vehicle' = [vehicle EXCEPT !.auto = ~@]
  BY DEF ControlAnswered, SetFlag
<1>5. vehicle'.present /\ vehicle'.heard = vehicle.heard /\ vehicle'.lost = vehicle.lost
  BY <1>1, <1>3, <1>4 DEF Vehicles
<1>6. Placed(vehicle')
  BY <1>1, <1>5 DEF LinksTyped, Placed
<1>7. WiresTyped'
  BY <1>1, <1>2, <1>5 DEF LinksTyped, WiresTyped, Links
<1> QED BY <1>6, <1>7

\* What leaves the vehicle alone.
LEMMA ElsewhereTyped ==
  ASSUME LinksTyped, vehicle' = vehicle,
         UNCHANGED linksVars \/ CloseDiscarded \/ PumpSees
           \/ \E l \in Carriers :
                LinkOpens(l) \/ RelayState(l) \/ Decode(l) \/ FallsQuiet(l) \/ LinkCloses(l)
  PROVE  WiresTyped' /\ (vehicle'.present => Placed(vehicle'))
<1>1. Links' = Links
  BY DEF Links
<1>2. CASE UNCHANGED linksVars
  BY <1>1, <1>2 DEF linksVars, pump, wires, LinksTyped, WiresTyped
<1>3. CASE CloseDiscarded
  BY <1>1, <1>3 DEF CloseDiscarded, LinksTyped, WiresTyped
<1>4. CASE PumpSees
  BY <1>1, <1>4 DEF PumpSees, PumpTurns, NotSeen, wires, LinksTyped, WiresTyped
<1>5. ASSUME NEW l \in Carriers, LinkOpens(l) \/ Decode(l) \/ LinkCloses(l)
      PROVE  WiresTyped'
  BY <1>1, <1>5 DEF LinkOpens, Decode, LinkCloses, pump, LinksTyped, WiresTyped
<1>6. ASSUME NEW l \in Carriers, RelayState(l)
      PROVE  WiresTyped'
  <2>1. troubles' \in 0 .. MaxTroubles
    <3>1. troubles' = troubles \/ Troubled
      BY <1>6 DEF RelayState, Troubled
    <3> QED BY <3>1, MoreTrouble DEF LinksTyped, WiresTyped
  <2> QED BY <1>1, <1>6, <2>1 DEF RelayState, pump, LinksTyped, WiresTyped
<1>7. ASSUME NEW l \in Carriers, FallsQuiet(l)
      PROVE  WiresTyped'
  <2>1. troubles' \in 0 .. MaxTroubles
    BY <1>7, MoreTrouble DEF FallsQuiet, LinksTyped, WiresTyped
  <2> QED BY <1>1, <1>7, <2>1 DEF FallsQuiet, pump, wires, LinksTyped, WiresTyped
<1> QED BY <1>2, <1>3, <1>4, <1>5, <1>6, <1>7 DEF LinksTyped

LEMMA LinksStepTyped ==
  ASSUME LinksTyped, [LinksNext]_linksVars
  PROVE  LinksTyped'
<1>1. LinksIInv'
  BY LinksStepInv DEF LinksTyped
<1>2. CASE UNCHANGED linksVars
  BY <1>1, <1>2, ElsewhereTyped DEF linksVars, LinksTyped
<1>3. ASSUME NEW l \in Carriers,
             \/ LinkOpens(l) \/ RelayState(l) \/ Decode(l) \/ FallsQuiet(l) \/ LinkCloses(l)
      PROVE  LinksTyped'
  <2>1. vehicle' = vehicle
    BY <1>3 DEF LinkOpens, RelayState, Decode, FallsQuiet, LinkCloses
  <2> QED BY <1>1, <1>3, <2>1, ElsewhereTyped DEF LinksTyped
<1>4. CASE CloseDiscarded \/ PumpSees
  <2>1. vehicle' = vehicle
    BY <1>4 DEF CloseDiscarded, PumpSees
  <2> QED BY <1>1, <1>4, <2>1, ElsewhereTyped DEF LinksTyped
<1>5. CASE LinksNext
  BY <1>1, <1>3, <1>4, <1>5, FrameTyped, HubHearsOfCloseTyped, SettingTyped, PumpTellsTyped
     DEF LinksNext, LinksTyped
<1> QED BY <1>2, <1>5

LEMMA LinksAreTyped == LinksTyped => LinksTypeOK
<1> SUFFICES ASSUME LinksTyped PROVE LinksTypeOK
  OBVIOUS
<1>1. ASSUME vehicle.present
      PROVE  /\ Links \subseteq Carriers /\ vehicle.heard \in [Links -> 0 .. Cardinality(Links) - 1]
             /\ vehicle.lost \subseteq Links /\ vehicle.primary \in Links \cup {NoLink}
             /\ vehicle.control \in [Carriers -> {"none", "start", "stop"}]
  <2>1. Sound(vehicle) /\ Placed(vehicle) /\ Links = DOMAIN vehicle.heard
    BY <1>1, VehicleTyped DEF Links
  <2>2. vehicle \in Vehicles
    BY <2>1 DEF Sound, Whole
  <2>3. vehicle.heard \in [Links -> Nat] /\ Cardinality(Links) \in Nat /\ Links \subseteq Carriers
    BY <2>1, <2>2, HeardIsTyped
  <2>4. \A l \in Links : vehicle.heard[l] \in 0 .. Cardinality(Links) - 1
    BY <2>1, <2>3 DEF Placed
  <2> QED BY <2>1, <2>2, <2>3, <2>4 DEF Placed, Sound, Chosen, Vehicles
<1>2. known \subseteq Carriers
  BY DEF LinksTyped, LinksIInv
<1> QED BY <1>1, <1>2 DEF LinksTyped, WiresTyped, LinksTypeOK

-----------------------------------------------------------------------------
(* The types of the signing.                                               *)

Setups == [key : MaybeKey, by : MaybeKey]
Channels == [op : {"enabling", "on", "disabling"}, key : Keys]

LEMMA SigningInitTyped == SigningInit => SigningTypeOK
<1> SUFFICES ASSUME SigningInit PROVE SigningTypeOK
  OBVIOUS
<1>1. MaxChanges \in Nat /\ MaxLosses \in Nat
  BY SigningAssumption
<1>2. setups \in Seq(Setups) /\ frames \in Seq(Frames)
  <2>1. setups = <<>> /\ frames = <<>>
    BY DEF SigningInit
  <2>2. <<>> \in Seq(Setups)
    BY EmptySeq
  <2>3. <<>> \in Seq(Frames)
    BY EmptySeq
  <2> QED BY <2>1, <2>2, <2>3
<1>3. cooldown \in BOOLEAN /\ astray \in BOOLEAN
  BY Zenon DEF SigningInit
<1>4. channel = NoChannel /\ vehicleKey \in MaybeKey /\ camera \in BOOLEAN /\ changes = 0 /\ losses = 0
  BY DEF SigningInit
<1> QED BY <1>1, <1>2, <1>3, <1>4 DEF SigningTypeOK, Setups

\* send_setup signs with the channel's key or with none.
LEMMA SentTyped ==
  ASSUME NEW c \in {NoChannel} \cup Channels, NEW k \in MaybeKey
  PROVE  Sent(k, c) \in Seq(Setups)
<1>1. (IF Signs(c) THEN c.key ELSE NoKey) \in MaybeKey
  BY DEF Signs, NoChannel, Channels, MaybeKey
<1>2. [key |-> k, by |-> IF Signs(c) THEN c.key ELSE NoKey] \in Setups
  BY <1>1 DEF Setups
<1>3. Sent(k, c) \in [1 .. 2 -> Setups]
  BY <1>2 DEF Sent, SETUP_COPIES
<1>4. Seq(Setups) = UNION {[1 .. n -> Setups] : n \in Nat}
  BY SeqDef
<1> QED BY <1>3, <1>4

\* The bounds are spent one by one.
LEMMA AskTyped ==
  ASSUME SigningTypeOK, Ask
  PROVE  changes' \in 0 .. MaxChanges
<1>1. MaxChanges \in Nat
  BY SigningAssumption
<1> QED BY <1>1 DEF Ask, SigningTypeOK

LEMMA ChangeTyped ==
  ASSUME SigningTypeOK, Resend \/ BeginDisable \/ \E k \in Stored : BeginEnable(k)
  PROVE  SigningTypeOK'
<1>1. channel \in {NoChannel} \cup Channels /\ Stored \subseteq Keys
  BY SigningAssumption DEF SigningTypeOK, Channels
<1>2. CASE Resend
  <2>1. channel \in Channels /\ channel.key \in Keys
    BY <1>1, <1>2 DEF Resend, Busy, NoChannel, Channels
  <2>2. setups' \in Seq(Setups)
    BY <1>2, <2>1, SentTyped DEF Resend, MaybeKey
  <2> QED BY <1>2, <2>2 DEF Resend, counts, SigningTypeOK, Setups
<1>3. CASE BeginDisable
  <2>1. channel' \in Channels
    BY <1>1, <1>3 DEF BeginDisable, Channel, NoChannel, Channels
  <2>2. setups' \in Seq(Setups)
    BY <1>3, <2>1, SentTyped DEF BeginDisable, MaybeKey
  <2>3. changes' \in 0 .. MaxChanges
    BY <1>3, AskTyped DEF BeginDisable
  <2> QED BY <1>3, <2>1, <2>2, <2>3 DEF BeginDisable, SigningTypeOK, Setups, Channels
<1>4. ASSUME NEW k \in Stored, BeginEnable(k)
      PROVE  SigningTypeOK'
  <2>1. channel' \in Channels
    BY <1>1, <1>4 DEF BeginEnable, Channel, Channels
  <2>2. setups' \in Seq(Setups)
    BY <1>1, <1>4, <2>1, SentTyped DEF BeginEnable, MaybeKey
  <2>3. changes' \in 0 .. MaxChanges
    BY <1>4, AskTyped DEF BeginEnable
  <2> QED BY <1>4, <2>1, <2>2, <2>3 DEF BeginEnable, SigningTypeOK, Setups, Channels
<1> QED BY <1>2, <1>3, <1>4

\* A change ends in a channel that is on, or in none.
LEMMA FailedTyped ==
  ASSUME SigningTypeOK, Busy
  PROVE  Failed(channel) \in {NoChannel} \cup Channels /\ channel \in Channels
BY DEF SigningTypeOK, Busy, Failed, Channel, NoChannel, Channels

LEMMA InboundTyped ==
  ASSUME SigningTypeOK, NEW m \in Frames, Inbound(m)
  PROVE  channel' \in {NoChannel} \cup Channels /\ cooldown' \in BOOLEAN /\ astray' \in BOOLEAN
<1>1. channel \in {NoChannel} \cup Channels /\ cooldown \in BOOLEAN /\ astray \in BOOLEAN
  BY DEF SigningTypeOK, Channels
<1>2. CASE channel = NoChannel /\ Detect(m) /\ UNCHANGED astray
  <2>1. CASE m.by = NoKey \/ cooldown
    <3>1. UNCHANGED <<channel, cooldown>>
      BY <1>2, <2>1 DEF Detect
    <3> QED BY <1>1, <1>2, <3>1
  <2>2. CASE ~(m.by = NoKey \/ cooldown) /\ m.by \in Stored
    <3>1. channel' = Channel("on", m.by) /\ UNCHANGED cooldown
      BY <1>2, <2>2 DEF Detect
    <3>2. m.by \in Keys
      BY <2>2, SigningAssumption
    <3>3. channel' \in Channels
      BY <3>1, <3>2 DEF Channel, Channels
    <3> QED BY <1>1, <1>2, <3>1, <3>3
  <2>3. CASE ~(m.by = NoKey \/ cooldown) /\ m.by \notin Stored
    <3>1. cooldown' = TRUE /\ UNCHANGED channel
      BY <1>2, <2>3 DEF Detect
    <3> QED BY <1>1, <1>2, <3>1
  <2> QED BY <2>1, <2>2, <2>3
<1>3. CASE /\ channel # NoChannel /\ UNCHANGED cooldown
           /\ IF ~Busy \/ ~(m.what = "refusal" \/ Confirmed(channel, m))
              THEN UNCHANGED <<channel, astray>>
              ELSE IF m.what = "refusal"
              THEN channel' = Failed(channel) /\ astray' = (astray \/ Unheard)
              ELSE /\ channel' = IF channel.op = "enabling" THEN Channel("on", channel.key) ELSE NoChannel
                   /\ astray' = (astray \/ (channel.op = "disabling" /\ m.of = "camera"))
  <2>1. CASE UNCHANGED <<channel, astray>>
    BY <1>1, <1>3, <2>1
  <2>2. CASE Busy /\ channel' = Failed(channel) /\ astray' = (astray \/ Unheard)
    BY <1>1, <1>3, <2>2, FailedTyped
  <2>3. CASE /\ Busy
             /\ channel' = IF channel.op = "enabling" THEN Channel("on", channel.key) ELSE NoChannel
             /\ astray' = (astray \/ (channel.op = "disabling" /\ m.of = "camera"))
    <3>1. channel.key \in Keys
      BY <2>3, FailedTyped DEF Channels
    <3> QED BY <1>1, <1>3, <2>3, <3>1 DEF Channel, Channels
  <2> QED BY <1>3, <2>1, <2>2, <2>3
<1> QED BY <1>2, <1>3 DEF Inbound

LEMMA SaysTyped ==
  ASSUME SigningTypeOK, NEW what \in {"heartbeat", "refusal"}, NEW k \in MaybeKey,
         NEW of \in {"autopilot", "camera"}, Says(what, k, of)
  PROVE  frames' \in Seq(Frames)
<1>1. [what |-> what, by |-> k, of |-> of] \in Frames
  BY DEF Frames
<1>2. frames \in Seq(Frames) /\ frames' = Append(frames, [what |-> what, by |-> k, of |-> of])
  BY DEF SigningTypeOK, Says
<1> QED BY <1>1, <1>2, SeqAppend

LEMMA SetupArrivesTyped ==
  ASSUME SigningTypeOK, SetupArrives
  PROVE  SigningTypeOK'
<1> DEFINE s == Head(setups)
<1>1. setups \in Seq(Setups) /\ setups # <<>> /\ setups' = Tail(setups)
  BY DEF SigningTypeOK, SetupArrives, Setups
<1>2. setups' \in Seq(Setups) /\ s.key \in MaybeKey
  <2>1. setups' \in Seq(Setups) /\ Head(setups) \in Setups
    BY <1>1, SeqTail
  <2> QED BY <2>1 DEF Setups
<1>3. /\ UNCHANGED <<channel, cooldown, camera, changes, losses, astray>>
      /\ \/ UNCHANGED <<vehicleKey, frames>>
         \/ vehicleKey' = s.key /\ UNCHANGED frames
         \/ Says("refusal", vehicleKey, "autopilot") /\ UNCHANGED vehicleKey
  BY DEF SetupArrives, counts
<1>4. frames' \in Seq(Frames) /\ vehicleKey' \in MaybeKey
  <2>1. vehicleKey \in MaybeKey /\ frames \in Seq(Frames)
    BY DEF SigningTypeOK
  <2> QED BY <1>2, <1>3, <2>1, SaysTyped
<1> QED BY <1>2, <1>3, <1>4 DEF SigningTypeOK, Setups

LEMMA SigningStepTyped ==
  ASSUME SigningTypeOK, [SigningNext]_signingVars
  PROVE  SigningTypeOK'
<1>1. CASE UNCHANGED signingVars
  BY <1>1 DEF signingVars, air, counts, SigningTypeOK
<1>2. CASE GiveUp
  <2>1. channel' \in {NoChannel} \cup Channels /\ astray' \in BOOLEAN
    BY <1>2, FailedTyped DEF GiveUp, SigningTypeOK
  <2> QED BY <1>2, <2>1 DEF GiveUp, air, counts, SigningTypeOK, Channels
<1>3. CASE CooldownEnds
  BY <1>3 DEF CooldownEnds, air, counts, SigningTypeOK
<1>4. CASE FrameArrives
  <2>1. frames \in Seq(Frames) /\ frames # <<>> /\ frames' = Tail(frames) /\ Inbound(Head(frames))
    BY <1>4 DEF FrameArrives, SigningTypeOK
  <2>2. frames' \in Seq(Frames) /\ Head(frames) \in Frames
    BY <2>1, SeqTail
  <2>3. channel' \in {NoChannel} \cup Channels /\ cooldown' \in BOOLEAN /\ astray' \in BOOLEAN
    BY <2>1, <2>2, InboundTyped
  <2> QED BY <1>4, <2>2, <2>3 DEF FrameArrives, counts, SigningTypeOK, Channels
<1>5. CASE Lost
  <2>1. MaxLosses \in Nat
    BY SigningAssumption
  <2>2. losses' \in 0 .. MaxLosses
    BY <1>5, <2>1 DEF Lost, SigningTypeOK
  <2>3. setups \in Seq(Setups) /\ frames \in Seq(Frames)
    BY DEF SigningTypeOK, Setups
  <2>4. setups' \in Seq(Setups) /\ frames' \in Seq(Frames)
    <3>1. CASE setups # <<>> /\ setups' = Tail(setups) /\ UNCHANGED frames
      <4>1. Tail(setups) \in Seq(Setups)
        BY <2>3, <3>1, SeqTail
      <4> QED BY <2>3, <3>1, <4>1
    <3>2. CASE frames # <<>> /\ frames' = Tail(frames) /\ UNCHANGED setups
      <4>1. Tail(frames) \in Seq(Frames)
        BY <2>3, <3>2, SeqTail
      <4> QED BY <2>3, <3>2, <4>1
    <3> QED BY <1>5, <3>1, <3>2 DEF Lost
  <2> QED BY <1>5, <2>2, <2>4 DEF Lost, SigningTypeOK, Setups
<1>6. ASSUME NEW of \in {"autopilot", "camera"}, Heartbeat(of)
      PROVE  SigningTypeOK'
  <2>1. (IF of = "camera" THEN NoKey ELSE vehicleKey) \in MaybeKey
    BY DEF SigningTypeOK, MaybeKey
  <2>2. frames' \in Seq(Frames)
    BY <1>6, <2>1, SaysTyped DEF Heartbeat
  <2> QED BY <1>6, <2>2 DEF Heartbeat, counts, SigningTypeOK
<1>7. CASE SigningNext
  BY <1>2, <1>3, <1>4, <1>5, <1>6, <1>7, ChangeTyped, SetupArrivesTyped DEF SigningNext
<1> QED BY <1>1, <1>7

-----------------------------------------------------------------------------
(* The types of the events, whatever the vehicle keeps.                    *)

StampsUpTo(b) == [boot : 0 .. b, n : Nat] \cup {Unstamped}
SentBy(b) == {m \in Messages : m.boot <= b}

StationFits ==
  /\ {latest, current} \subseteq Numbers \cup {Unknown} /\ retry \in BOOLEAN
  /\ stamp \in StampsUpTo(boot) /\ setBacks \in 0 .. MaxSetBacks
  /\ asked \in Seq(Numbers) /\ Len(asked) <= 2
  /\ retry => latest # Unknown

EventsTyped ==
  /\ StationFits
  /\ boot \in 0 .. MaxRestarts /\ newest \in Nat /\ told \in BOOLEAN
  /\ arriving \in Seq(SentBy(boot)) /\ Len(arriving) <= 2
  /\ drops \in 0 .. MaxDrops /\ happened \in 0 .. MaxEvents

LEMMA EventBounds ==
  /\ Modulus \in Nat /\ Modulus > 0 /\ First \subseteq Nat
  /\ MaxEvents \in Nat /\ MaxDrops \in Nat /\ MaxRestarts \in Nat /\ MaxSetBacks \in Nat
<1>1. Modulus \in Nat /\ MaxEvents \in Nat /\ Modulus > 2 * MaxEvents + 2
  BY EventsAssumption
<1>2. First \subseteq Nat /\ MaxDrops \in Nat /\ MaxRestarts \in Nat /\ MaxSetBacks \in Nat
  BY EventsAssumption
<1> QED BY <1>1, <1>2

\* What is sent is a number on the wire.
LEMMA NumberTyped ==
  ASSUME NEW n \in Int
  PROVE  /\ Number(n) \in Numbers /\ Successor(n) \in Numbers /\ Predecessor(n) \in Numbers
         /\ Number(n) # Unknown /\ Successor(n) # Unknown /\ Predecessor(n) # Unknown
<1>1. Modulus \in Nat /\ Modulus > 0
  BY EventBounds
<1>2. \A k \in Int : k % Modulus \in 0 .. Modulus - 1
  BY <1>1
<1>3. n + 1 \in Int /\ n + Modulus - 1 \in Int
  BY <1>1
<1>4. Number(n) \in Numbers /\ Successor(n) \in Numbers /\ Predecessor(n) \in Numbers
  BY <1>2, <1>3 DEF Number, Successor, Predecessor, Numbers
<1>5. Unknown \notin Numbers
  BY <1>1 DEF Unknown, Numbers
<1> QED BY <1>4, <1>5

LEMMA EventInitTyped == EventInit => EventsTyped
<1> SUFFICES ASSUME EventInit PROVE EventsTyped
  OBVIOUS
<1>1. /\ latest = Unknown /\ current = Unknown /\ stamp = Unstamped /\ setBacks = 0 /\ retry = FALSE
      /\ boot = 0 /\ newest \in First /\ told \in BOOLEAN
      /\ asked = <<>> /\ arriving = <<>> /\ drops = 0 /\ happened = 0
  BY DEF EventInit
<1>2. StationFits
  <2>1. <<>> \in Seq(Numbers) /\ Len(<<>>) = 0
    BY EmptySeq
  <2>2. retry \in BOOLEAN /\ (retry => latest # Unknown)
    BY <1>1, Zenon
  <2>3. stamp \in StampsUpTo(boot) /\ setBacks \in 0 .. MaxSetBacks
    BY <1>1, EventBounds DEF StampsUpTo
  <2> QED BY <1>1, <2>1, <2>2, <2>3 DEF StationFits
<1>3. <<>> \in Seq(SentBy(boot)) /\ Len(<<>>) = 0
  BY EmptySeq
<1> QED BY <1>1, <1>2, <1>3, EventBounds DEF EventsTyped

\* The vehicle sends a message of its present boot.
LEMMA SayTyped ==
  ASSUME EventsTyped, NEW m \in SentBy(boot), Say(m)
  PROVE  arriving' \in Seq(SentBy(boot)) /\ Len(arriving') <= 2
<1>1. arriving \in Seq(SentBy(boot)) /\ Len(arriving) < 2 /\ arriving' = Append(arriving, m)
  BY DEF EventsTyped, Say
<1>2. Len(arriving') = Len(arriving) + 1 /\ Len(arriving) \in Nat
  BY <1>1, AppendProperties, LenProperties
<1> QED BY <1>1, <1>2, SeqAppend

\* The oldest event after one is one the vehicle keeps, or the next to come.
LEMMA OldestTyped ==
  ASSUME newest \in Nat, NEW s
  PROVE  OldestAfter(s) \in Nat
<1>1. CASE Available = {} \/ Newer(Number(newest), s)
  BY <1>1 DEF OldestAfter
<1>2. CASE ~(Available = {} \/ Newer(Number(newest), s))
  <2>1. Available \subseteq Nat /\ Available # {}
    BY <1>2 DEF Available
  <2>2. \E n \in Available : \A m \in Available : n <= m
    BY <2>1, LeastOfSome
  <2> QED BY <1>2, <2>1, <2>2 DEF OldestAfter
<1> QED BY <1>1, <1>2

LEMMA TailIsShorter ==
  ASSUME NEW S, NEW c \in Seq(S), c # <<>>, Len(c) <= 2
  PROVE  Tail(c) \in Seq(S) /\ Len(Tail(c)) <= 2
<1>1. Tail(c) \in Seq(S) /\ Len(Tail(c)) = Len(c) - 1
  BY HeadTailProperties
<1>2. Len(c) \in Nat
  BY LenProperties
<1> QED BY <1>1, <1>2

LEMMA OfItsBoot ==
  ASSUME boot \in Nat, NEW m \in Messages, m.boot = boot
  PROVE  m \in SentBy(boot)
BY DEF SentBy

LEMMA EventTypedAs ==
  ASSUME NEW n \in Nat, boot \in Nat
  PROVE  [what |-> "event", n |-> n, boot |-> boot, reset |-> FALSE] \in SentBy(boot)
<1> DEFINE m == [what |-> "event", n |-> n, boot |-> boot, reset |-> FALSE]
<1>1. m \in EventMessages
  BY Zenon DEF EventMessages
<1>2. m.boot = boot
  OBVIOUS
<1> QED BY <1>1, <1>2, OfItsBoot DEF Messages

LEMMA VehicleTypedStep ==
  ASSUME EventsTyped, EventHappens \/ CurrentSent \/ Serve \/ Restart
  PROVE  EventsTyped'
<1>1. /\ StationFits /\ boot \in 0 .. MaxRestarts /\ newest \in Nat /\ told \in BOOLEAN
      /\ drops \in 0 .. MaxDrops /\ happened \in 0 .. MaxEvents
      /\ arriving \in Seq(SentBy(boot)) /\ Len(arriving) <= 2
  BY DEF EventsTyped
<1>2. boot \in Nat /\ MaxEvents \in Nat /\ MaxRestarts \in Nat
  BY <1>1, EventBounds
<1>3. CASE EventHappens
  <2>1. /\ UNCHANGED <<latest, current, stamp, setBacks, retry, boot, told, asked, drops>>
        /\ newest' = newest + 1 /\ happened' = happened + 1 /\ happened < MaxEvents
        /\ Say([what |-> "event", n |-> newest + 1, boot |-> boot, reset |-> FALSE])
    BY <1>3 DEF EventHappens, station, Event
  <2>2. newest' \in Nat /\ happened' \in 0 .. MaxEvents
    BY <1>1, <1>2, <2>1
  <2>3. [what |-> "event", n |-> newest + 1, boot |-> boot, reset |-> FALSE] \in SentBy(boot)
    <3>1. newest + 1 \in Nat
      BY <1>1
    <3> QED BY <1>2, <3>1, EventTypedAs
  <2>4. arriving' \in Seq(SentBy(boot)) /\ Len(arriving') <= 2
    BY <2>1, <2>3, SayTyped
  <2>5. StationFits'
    BY <1>1, <2>1 DEF StationFits
  <2> QED BY <1>1, <2>1, <2>2, <2>4, <2>5 DEF EventsTyped
<1>4. CASE CurrentSent
  <2>1. /\ UNCHANGED <<latest, current, stamp, setBacks, retry, boot, newest, happened, asked, drops>>
        /\ told' = TRUE /\ Say(Current)
    BY <1>4 DEF CurrentSent, station
  <2>2. Current \in SentBy(boot)
    <3>1. (~told) \in BOOLEAN
      BY Zenon
    <3>2. Current \in [what : {"current"}, n : Nat, boot : Nat, reset : BOOLEAN] /\ Current.boot = boot
      BY <1>1, <1>2, <3>1, Zenon DEF Current
    <3> QED BY <1>2, <3>2, OfItsBoot, Zenon DEF Messages
  <2>3. arriving' \in Seq(SentBy(boot)) /\ Len(arriving') <= 2
    BY <2>1, <2>2, SayTyped
  <2>4. StationFits'
    BY <1>1, <2>1 DEF StationFits
  <2> QED BY <1>1, <2>1, <2>3, <2>4 DEF EventsTyped
<1>5. CASE Serve
  <2>1. /\ UNCHANGED <<latest, current, stamp, setBacks, retry, boot, newest, told, happened, drops>>
        /\ asked # <<>> /\ asked' = Tail(asked)
        /\ \/ \E n \in Available : Say(Event(n))
           \/ Say(NotAvailable(Head(asked)))
    BY <1>5 DEF Serve, station, board
  <2>2. asked \in Seq(Numbers) /\ Len(asked) <= 2
    BY <1>1 DEF StationFits
  <2>3. asked' \in Seq(Numbers) /\ Head(asked) \in Numbers
    BY <2>1, <2>2, SeqTail
  <2>4. Len(asked') <= 2
    BY <2>1, <2>2, <2>3, TailIsShorter
  <2>5. StationFits'
    BY <1>1, <2>1, <2>3, <2>4 DEF StationFits
  <2>6. NotAvailable(Head(asked)) \in SentBy(boot)
    <3>1. OldestAfter(Head(asked)) \in Nat
      BY <1>1, OldestTyped
    <3> QED BY <1>2, <2>3, <3>1 DEF NotAvailable, SentBy, Messages
  <2>7. \A n \in Available : Event(n) \in SentBy(boot)
    BY <1>1, <1>2, EventTypedAs DEF Available, Event
  <2>8. arriving' \in Seq(SentBy(boot)) /\ Len(arriving') <= 2
    BY <2>1, <2>6, <2>7, SayTyped
  <2> QED BY <1>1, <2>1, <2>5, <2>8 DEF EventsTyped
<1>6. CASE Restart
  <2>1. /\ UNCHANGED <<latest, current, stamp, setBacks, retry, happened, asked, arriving, drops>>
        /\ boot < MaxRestarts /\ boot' = boot + 1 /\ newest' = 0 /\ told' = FALSE
    BY <1>6 DEF Restart, station
  <2>2. boot' \in 0 .. MaxRestarts
    BY <1>1, <1>2, <2>1
  <2>3. SentBy(boot) \subseteq SentBy(boot')
    <3> SUFFICES ASSUME NEW m \in Messages, m.boot <= boot PROVE m.boot <= boot + 1
      BY <2>1 DEF SentBy
    <3> QED BY <1>2, MessageTyped
  <2>4. arriving' \in Seq(SentBy(boot')) /\ Len(arriving') <= 2
    BY <1>1, <2>1, <2>3, SeqMonotonic
  <2>5. StationFits'
    <3>1. stamp' \in StampsUpTo(boot')
      BY <1>1, <1>2, <2>1 DEF StationFits, StampsUpTo
    <3> QED BY <1>1, <2>1, <3>1 DEF StationFits
  <2> QED BY <1>1, <2>1, <2>2, <2>4, <2>5 DEF EventsTyped
<1> QED BY <1>3, <1>4, <1>5, <1>6

\* Messages and requests are lost or come twice.
LEMMA AirTyped ==
  ASSUME EventsTyped, Drop \/ Repeat
  PROVE  EventsTyped'
<1>1. /\ UNCHANGED <<latest, current, stamp, setBacks, retry, boot, newest, told, happened>>
      /\ drops < MaxDrops /\ drops' = drops + 1
      /\ \/ asked # <<>> /\ asked' = Tail(asked) /\ UNCHANGED arriving
         \/ arriving # <<>> /\ arriving' = Tail(arriving) /\ UNCHANGED asked
         \/ Len(arriving) = 1 /\ arriving' = arriving \o arriving /\ UNCHANGED asked
  BY DEF Drop, Repeat, station, board
<1>2. drops' \in 0 .. MaxDrops
  BY <1>1, EventBounds DEF EventsTyped
<1>3. /\ asked \in Seq(Numbers) /\ Len(asked) <= 2
      /\ arriving \in Seq(SentBy(boot)) /\ Len(arriving) <= 2
  BY DEF EventsTyped, StationFits
<1>4. asked' \in Seq(Numbers) /\ Len(asked') <= 2
  BY <1>1, <1>3, TailIsShorter
<1>5. arriving' \in Seq(SentBy(boot)) /\ Len(arriving') <= 2
  <2>1. CASE Len(arriving) = 1 /\ arriving' = arriving \o arriving
    BY <1>3, <2>1, ConcatProperties
  <2> QED BY <1>1, <1>3, <2>1, TailIsShorter
<1>6. StationFits'
  BY <1>1, <1>4 DEF EventsTyped, StationFits
<1> QED BY <1>1, <1>2, <1>5, <1>6 DEF EventsTyped

\* A request asks for a number on the wire.
LEMMA RequestTyped ==
  ASSUME asked \in Seq(Numbers), Len(asked) <= 2, NEW s \in Numbers, Request(s)
  PROVE  asked' \in Seq(Numbers) /\ Len(asked') <= 2 /\ retry'
<1>1. retry' /\ asked' = IF Len(asked) < 2 THEN Append(asked, s) ELSE asked
  BY DEF Request
<1>2. Append(asked, s) \in Seq(Numbers) /\ Len(Append(asked, s)) = Len(asked) + 1 /\ Len(asked) \in Nat
  BY AppendProperties, LenProperties
<1> QED BY <1>1, <1>2

\* What the station asks next, and whether its timer runs.
Asks ==
  /\ asked' \in Seq(Numbers) /\ Len(asked') <= 2
  /\ retry' \in BOOLEAN /\ (retry' => latest' # Unknown)

LEMMA AsksTyped ==
  ASSUME StationFits,
         \/ \E s \in Numbers : Request(s) /\ latest' # Unknown
         \/ NoRequest /\ (latest' # Unknown \/ latest' = latest)
         \/ retry' = FALSE /\ UNCHANGED asked
  PROVE  Asks
<1>1. asked \in Seq(Numbers) /\ Len(asked) <= 2 /\ retry \in BOOLEAN /\ (retry => latest # Unknown)
  BY DEF StationFits
<1>2. ASSUME NEW s \in Numbers, Request(s), latest' # Unknown
      PROVE  Asks
  <2>1. asked' \in Seq(Numbers) /\ Len(asked') <= 2
    BY <1>1, <1>2, RequestTyped
  <2>2. retry' = TRUE
    BY <1>2 DEF Request
  <2>3. retry' \in BOOLEAN
    BY <2>2, Zenon
  <2> QED BY <1>2, <2>1, <2>3 DEF Asks
<1>3. CASE NoRequest /\ (latest' # Unknown \/ latest' = latest)
  <2>1. retry' = retry /\ asked' = asked
    BY <1>3 DEF NoRequest
  <2>2. retry' \in BOOLEAN /\ (retry' => latest' # Unknown)
    BY <1>1, <1>3, <2>1, Zenon
  <2> QED BY <1>1, <2>1, <2>2 DEF Asks
<1>4. CASE retry' = FALSE /\ UNCHANGED asked
  <2>1. retry' \in BOOLEAN /\ (retry' => latest' # Unknown)
    BY <1>4, Zenon
  <2> QED BY <1>1, <1>4, <2>1 DEF Asks
<1> QED BY <1>2, <1>3, <1>4

LEMMA OnEventTyped ==
  ASSUME StationFits, boot \in Nat, NEW m \in SentBy(boot), NEW restarted \in BOOLEAN,
         OnEvent(m, restarted)
  PROVE  /\ Asks /\ {latest', current'} \subseteq Numbers \cup {Unknown}
         /\ stamp' \in StampsUpTo(boot) /\ setBacks' \in 0 .. MaxSetBacks
<1> DEFINE anew == restarted \/ latest = Unknown
           expected == IF anew THEN Number(m.n) ELSE Successor(latest)
           now == IF restarted THEN Unknown ELSE current
<1>1. m.n \in Nat /\ m.boot \in 0 .. boot
  BY MessageTyped DEF SentBy
<1>2. /\ {latest, current} \subseteq Numbers \cup {Unknown} /\ stamp \in StampsUpTo(boot)
      /\ Modulus \in Nat
  BY EventBounds DEF StationFits
<1>3. Number(m.n) \in Numbers /\ Number(m.n) # Unknown /\ Successor(Number(m.n)) \in Numbers
  BY <1>1, <1>2, NumberTyped DEF Numbers
<1>4. stamp' = IF stamp = Unstamped \/ Number(m.n) = expected THEN StampOf(m) ELSE stamp
  BY DEF OnEvent, StampOf
<1>5. stamp' \in StampsUpTo(boot) /\ setBacks' \in 0 .. MaxSetBacks
  <2>1. StampOf(m) \in StampsUpTo(boot)
    BY <1>1 DEF StampOf, StampsUpTo
  <2>2. setBacks \in 0 .. MaxSetBacks /\ MaxSetBacks \in Nat
    BY EventBounds DEF StationFits
  <2>3. setBacks' = setBacks \/ (setBacks' = setBacks + 1 /\ setBacks < MaxSetBacks)
    <3>1. /\ setBacks' = IF restarted /\ stamp.boot = m.boot THEN setBacks + 1 ELSE setBacks
          /\ restarted => stamp.boot < m.boot \/ (stamp.boot = m.boot /\ setBacks < MaxSetBacks)
      BY DEF OnEvent, TenSecondsLater
    <3>2. stamp.boot = m.boot => ~(stamp.boot < m.boot)
      BY <1>1
    <3> QED BY <3>1, <3>2
  <2>4. setBacks' \in 0 .. MaxSetBacks
    BY <2>2, <2>3
  <2> QED BY <1>2, <1>4, <2>1, <2>4
<1> HIDE DEF expected
<1>6. CASE OnNext(m, now)
  <2>1. /\ latest' = Number(m.n) /\ current' = now
        /\ Request(Successor(Number(m.n))) \/ (retry' = FALSE /\ UNCHANGED asked)
    BY <1>6, Zenon DEF OnNext
  <2>2. Asks
    BY <1>3, <2>1, AsksTyped, Zenon
  <2>3. {latest', current'} \subseteq Numbers \cup {Unknown}
    BY <1>2, <1>3, <2>1
  <2> QED BY <1>5, <2>2, <2>3
<1>7. CASE OnNewer(expected, m) /\ Number(m.n) # expected
  <2>1. Request(expected) /\ UNCHANGED <<latest, current>>
    BY <1>7 DEF OnNewer
  <2>2. latest # Unknown /\ expected = Successor(latest)
    BY <1>7 DEF expected
  <2>3. expected \in Numbers
    <3>1. latest \in Int
      BY <1>2, <2>2 DEF Numbers
    <3> QED BY <2>2, <3>1, NumberTyped
  <2>4. Asks
    BY <2>1, <2>2, <2>3, AsksTyped
  <2> QED BY <1>2, <1>5, <2>1, <2>4
<1>8. CASE NoRequest /\ UNCHANGED <<latest, current>>
  BY <1>2, <1>5, <1>8, AsksTyped
<1>9. \/ OnNext(m, now)
      \/ OnNewer(expected, m) /\ Number(m.n) # expected
      \/ NoRequest /\ UNCHANGED <<latest, current>>
  BY Zenon DEF OnEvent, expected
<1> QED BY <1>6, <1>7, <1>8, <1>9

LEMMA OnCurrentTyped ==
  ASSUME StationFits, boot \in Nat, NEW m \in SentBy(boot), OnCurrent(m)
  PROVE  Asks /\ {latest', current'} \subseteq Numbers \cup {Unknown}
<1> DEFINE anew == m.reset \/ latest = Unknown
           base == IF anew THEN Number(m.n) ELSE latest
<1>1. m.n \in Nat /\ {latest, current} \subseteq Numbers \cup {Unknown} /\ Modulus \in Nat
  BY MessageTyped, EventBounds DEF SentBy, StationFits
<1>2. Number(m.n) \in Numbers /\ Number(m.n) # Unknown
  BY <1>1, NumberTyped
<1>3. base \in Numbers /\ base # Unknown
  BY <1>1, <1>2
<1>4. Successor(base) \in Numbers
  BY <1>1, <1>3, NumberTyped DEF Numbers
<1>5. latest' = base /\ current' = Number(m.n) /\ (Request(Successor(base)) \/ NoRequest)
  BY Zenon DEF OnCurrent
<1> HIDE DEF base
<1>6. Asks
  BY <1>3, <1>4, <1>5, AsksTyped
<1> QED BY <1>2, <1>3, <1>5, <1>6

LEMMA OnErrorTyped ==
  ASSUME StationFits, boot \in Nat, NEW m \in SentBy(boot), OnError(m)
  PROVE  Asks /\ {latest', current'} \subseteq Numbers \cup {Unknown}
<1>1. m.n \in Nat /\ {latest, current} \subseteq Numbers \cup {Unknown} /\ Modulus \in Nat
  BY MessageTyped, EventBounds DEF SentBy, StationFits
<1>2. Number(m.n) \in Numbers
  BY <1>1, NumberTyped
<1>3. Predecessor(Number(m.n)) \in Numbers /\ Predecessor(Number(m.n)) # Unknown
  BY <1>1, <1>2, NumberTyped DEF Numbers
<1>4. CASE latest' = Predecessor(Number(m.n)) /\ Request(Number(m.n)) /\ UNCHANGED current
  <2>1. Asks
    BY <1>2, <1>3, <1>4, AsksTyped
  <2> QED BY <1>1, <1>3, <1>4, <2>1
<1>5. CASE NoRequest /\ UNCHANGED <<latest, current>>
  BY <1>1, <1>5, AsksTyped
<1> QED BY <1>4, <1>5 DEF OnError

LEMMA MessageArrivesTyped ==
  ASSUME EventsTyped, MessageArrives
  PROVE  EventsTyped'
<1> DEFINE m == Head(arriving)
<1>1. /\ StationFits /\ boot \in 0 .. MaxRestarts /\ MaxRestarts \in Nat
      /\ arriving \in Seq(SentBy(boot)) /\ Len(arriving) <= 2
  BY EventBounds DEF EventsTyped
<1>2. /\ arriving # <<>> /\ arriving' = Tail(arriving)
      /\ UNCHANGED <<boot, newest, told, happened, drops>>
  BY DEF MessageArrives, board
<1>3. /\ arriving' \in Seq(SentBy(boot)) /\ Len(arriving') <= 2
      /\ m \in SentBy(boot) /\ boot \in Nat
  BY <1>1, <1>2, TailIsShorter, SeqTail
<1>4. m.what \in {"event", "current", "error"}
  BY <1>3, MessageTyped DEF SentBy
<1>5. /\ Asks /\ {latest', current'} \subseteq Numbers \cup {Unknown}
      /\ stamp' \in StampsUpTo(boot) /\ setBacks' \in 0 .. MaxSetBacks
  <2> HIDE DEF m
  <2>1. CASE m.what = "event"
    <3>1. \E restarted \in BOOLEAN : OnEvent(m, restarted)
      BY <2>1 DEF MessageArrives, m
    <3> QED BY <1>1, <1>3, <3>1, OnEventTyped
  <2>2. CASE m.what = "current"
    <3>1. OnCurrent(m) /\ UNCHANGED <<stamp, setBacks>>
      BY <2>2 DEF MessageArrives, m
    <3> QED BY <1>1, <1>3, <3>1, OnCurrentTyped DEF StationFits
  <2>3. CASE m.what = "error"
    <3>1. OnError(m) /\ UNCHANGED <<stamp, setBacks>>
      BY <2>3 DEF MessageArrives, m
    <3> QED BY <1>1, <1>3, <3>1, OnErrorTyped DEF StationFits
  <2> QED BY <1>4, <2>1, <2>2, <2>3
<1>6. StationFits'
  BY <1>2, <1>5 DEF Asks, StationFits
<1> QED BY <1>2, <1>3, <1>6 DEF EventsTyped

LEMMA TickTyped ==
  ASSUME EventsTyped, Tick
  PROVE  EventsTyped'
<1>1. /\ UNCHANGED <<latest, current, stamp, setBacks, boot, newest, told, happened, arriving, drops>>
      /\ latest # Unknown /\ Request(Successor(latest))
  BY DEF Tick, board
<1>2. StationFits /\ Modulus \in Nat
  BY EventBounds DEF EventsTyped
<1>3. Successor(latest) \in Numbers
  <2>1. latest \in Numbers
    BY <1>1, <1>2 DEF StationFits
  <2>2. latest \in Int
    BY <1>2, <2>1 DEF Numbers
  <2> QED BY <2>2, NumberTyped
<1>4. Asks
  BY <1>1, <1>2, <1>3, AsksTyped
<1>5. StationFits'
  BY <1>1, <1>2, <1>4 DEF Asks, StationFits
<1> QED BY <1>1, <1>5 DEF EventsTyped

LEMMA EventStepTyped ==
  ASSUME EventsTyped, [EventNext]_eventVars
  PROVE  EventsTyped'
<1>1. CASE UNCHANGED eventVars
  BY <1>1 DEF eventVars, station, board, EventsTyped, StationFits
<1>2. CASE EventNext
  BY <1>2, VehicleTypedStep, AirTyped, MessageArrivesTyped, TickTyped DEF EventNext
<1> QED BY <1>1, <1>2

LEMMA EventsAreTyped == EventsTyped => EventTypeOK
<1> SUFFICES ASSUME EventsTyped PROVE EventTypeOK
  OBVIOUS
<1> QED BY DEF EventsTyped, StationFits, StampsUpTo, EventTypeOK, Numbers

-----------------------------------------------------------------------------
(* The parts side by side.  A part that rests keeps its types, since  *)
(* its invariant allows steps that change nothing.                         *)

SessionTyped == LinksTyped /\ SigningTypeOK /\ EventsTyped /\ LoadInv

LEMMA SessionInitTyped == MCInit => SessionTyped
BY LinksInitTyped, SigningInitTyped, EventInitTyped, InitInv DEF MCInit, SessionTyped

LEMMA SessionStepTyped ==
  ASSUME SessionTyped, [MCNext]_MCVars
  PROVE  SessionTyped'
<1>1. /\ [LinksNext]_linksVars /\ [SigningNext]_signingVars
      /\ [EventNext]_eventVars /\ [LoadNext]_loadVars
  BY DEF MCNext, MCVars
<1>2. LinksTyped'
  BY <1>1, LinksStepTyped DEF SessionTyped
<1>3. SigningTypeOK'
  BY <1>1, SigningStepTyped DEF SessionTyped
<1>4. EventsTyped'
  BY <1>1, EventStepTyped DEF SessionTyped
<1>5. LoadInv'
  BY <1>1, StepInv DEF SessionTyped
<1> QED BY <1>2, <1>3, <1>4, <1>5 DEF SessionTyped

\* The links, the signing, the events and the parameters of a vehicle keep their types in
\* every behaviour, with any links, keys, numbers and parameters: a primary link is one of
\* the vehicle's links, and what is lost or silent is one; a channel has a key or there is
\* none; what is asked for is a number on the wire, and the timer runs only once there is
\* a latest (hub.rs, signing.rs, libevents.rs, params.rs).
THEOREM SessionTypesCorrect == MCSpec => []MCTypeOK
<1>1. SessionTyped => MCTypeOK
  BY LinksAreTyped, EventsAreTyped, InvIsTyped DEF SessionTyped, MCTypeOK
<1>2. SessionTyped /\ [MCNext]_MCVars => SessionTyped'
  BY SessionStepTyped
<1> QED BY <1>1, <1>2, SessionInitTyped, PTL DEF MCSpec
=============================================================================
