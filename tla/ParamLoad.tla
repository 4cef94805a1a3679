------------------------------ MODULE ParamLoad ------------------------------
(***************************************************************************)
(* The load of the parameters of a vehicle (params.rs): the list asked for *)
(* and asked for again, PX4's hash and cache before it, ArduPilot's file   *)
(* instead of it, the gaps of the list read by index, and when all of that *)
(* is over.  The parameters of a component are its indices; what the       *)
(* vehicle has yet to answer is a set, so answers come in any order.       *)
(***************************************************************************)
EXTENDS Integers, FiniteSets

CONSTANTS
  Components,   \* component ids that may have parameters
  Default,      \* default_component, the autopilot's
  Count,        \* how many parameters each has
  Silences,     \* which of them may answer nothing
  MaxListRetry, \* MAX_INITIAL_REQUEST_LIST_RETRY
  MaxGapRetry,  \* MAX_INITIAL_LOAD_RETRY_SINGLE_PARAM
  MaxReread,    \* MAX_READ_WRITE_RETRY
  MaxBatch,     \* MAX_BATCH_SIZE
  MaxTurns      \* bound: answers lost, refused, repeated or not asked for, and refreshes

ASSUME LoadAssumption ==
  /\ Components \subseteq Nat /\ IsFiniteSet(Components) /\ Default \in Components
  /\ Count \in [Components -> Nat \ {0}] /\ Silences \subseteq SUBSET Components
  /\ {MaxListRetry, MaxGapRetry, MaxReread, MaxBatch, MaxTurns} \subseteq Nat

VARIABLES
  px4,      \* Params.px4
  silent,   \* the components that answer nothing
  cache,    \* the values kept of an earlier flight: the "same" as the vehicle's, or "other" or none
  params,   \* Params, and its timers in the hub
  byFile,   \* tries_pack: ArduPilot's file is tried
  coming,   \* values the vehicle has yet to send
  hashing,  \* and its hash
  turns     \* how often things took another turn

nature == <<px4, silent, cache>>
loadVars == <<nature, params, byFile, coming, hashing, turns>>

Indices(c) == 0 .. Count[c] - 1
Pairs == UNION {{<<c, i>> : i \in Indices(c)} : c \in Components}
None == [pair \in {} |-> 0]

\* Params::new
NewParams ==
  [waiting |-> [c \in {} |-> None], \* waiting_index: gaps, and how often each was asked for
   facts |-> None,          \* facts: whether each is "now" what the vehicle has
   failed |-> {},           \* failed_index
   batching |-> FALSE,      \* batch_active
   queue |-> {},            \* batch_queue
   reads |-> None,          \* requests: the Index ones, and how often each was sent
   timers |-> {},           \* initial_due, hash_due, waiting_due, pack_due
   listAwaited |-> FALSE,   \* initial_timer_active
   listRetry |-> 0,         \* initial_retry
   checked |-> FALSE,       \* hash_check_done
   cacheOnly |-> FALSE,     \* cache_only
   defaultAwaited |-> FALSE,\* waiting_for_default
   complete |-> FALSE,      \* initial_complete
   missing |-> FALSE,       \* missing
   ended |-> FALSE,         \* the connect was told that the load is over
   asksList |-> FALSE, asksHash |-> FALSE, asks |-> {}] \* what the handler sends

Listed(p) == DOMAIN p.waiting
Gaps(p) == {gap \in Pairs : gap[1] \in Listed(p) /\ gap[2] \in DOMAIN p.waiting[gap[1]]}
DefaultKnown(p) == \E i \in Indices(Default) : <<Default, i>> \in DOMAIN p.facts

LoadTypeOK ==
  /\ px4 \in BOOLEAN /\ silent \in Silences /\ cache \in {"same", "other"}
  /\ Listed(params) \subseteq Components /\ DOMAIN params.facts \subseteq Pairs
  /\ \A c \in Listed(params) :
       \A i \in DOMAIN params.waiting[c] : i \in Indices(c) /\ params.waiting[c][i] \in 0 .. MaxGapRetry
  /\ params.failed \subseteq Pairs /\ Cardinality(params.queue) <= MaxBatch + 1
  /\ \A pair \in DOMAIN params.reads : pair \in Pairs /\ params.reads[pair] \in 1 .. MaxReread + 1
  /\ params.timers \subseteq {"list", "hash", "waiting", "file"}
  /\ ~params.asksList /\ ~params.asksHash /\ params.asks = {}
  /\ params.listRetry \in 0 .. MaxListRetry + 1
  /\ coming \subseteq Pairs /\ {byFile, hashing} \subseteq BOOLEAN
  /\ turns \in 0 .. MaxTurns

-----------------------------------------------------------------------------
(* Params: each handler as what it makes of the parameters p.              *)

Over(p) == [p EXCEPT !.ended = TRUE] \* step_done of the parameters
Timed(p, timer) == [p EXCEPT !.timers = @ \cup {timer}]
Untimed(p, some) == [p EXCEPT !.timers = @ \ some]
With(f, x, y) == [z \in DOMAIN f \cup {x} |-> IF z = x THEN y ELSE f[z]]
Without(f, x) == [z \in DOMAIN f \ {x} |-> f[z]]

\* check_initial_load_complete
Completed(p) ==
  IF p.complete \/ Gaps(p) # {} \/ ~DefaultKnown(p) THEN p
  ELSE Over([p EXCEPT !.complete = TRUE, !.missing = p.failed # {}])

AskingHash(p) == [Timed(p, "hash") EXCEPT !.asksHash = TRUE]

\* start_download
Downloading(p) ==
  IF px4 /\ ~p.complete /\ ~p.checked THEN AskingHash([p EXCEPT !.cacheOnly = FALSE])
  ELSE [p EXCEPT !.listAwaited = @ \/ ~p.complete,
                 !.timers = IF p.complete THEN @ ELSE @ \cup {"list"},
                 !.waiting = [c \in DOMAIN @ |-> [i \in Indices(c) |-> 0]],
                 !.asksList = TRUE]

\* refresh_all, start
Refreshed(p) == Downloading([p EXCEPT !.checked = FALSE])

StartedCacheOnly(p) ==
  LET q == [p EXCEPT !.checked = FALSE, !.cacheOnly = TRUE] IN
  IF px4 /\ ~p.complete THEN AskingHash(q) ELSE Over(q)

HashCheckFailed(p) ==
  LET q == [p EXCEPT !.checked = TRUE] IN
  IF p.checked THEN p ELSE IF p.cacheOnly THEN Over(q) ELSE Downloading(q)

HashTimedOut(p) ==
  LET q == [Untimed(p, {"hash"}) EXCEPT !.checked = TRUE] IN
  IF p.cacheOnly THEN Over(q) ELSE Downloading(q)

NoResponse(p) == Over([p EXCEPT !.listAwaited = FALSE])

ListTimedOut(p) ==
  LET q == [Untimed(p, {"list"}) EXCEPT !.listRetry = IF @ > MaxListRetry THEN @ ELSE @ + 1] IN
  IF q.listRetry <= MaxListRetry THEN Downloading(q) ELSE NoResponse(q)

\* fill_batch_queue: the gaps in the order of components and indices, while there is room;
\* the queue holds indices, whosever they are, and an index it holds is passed over.
Before(pair) == {gap \in Pairs : gap[1] < pair[1] \/ (gap[1] = pair[1] /\ gap[2] < pair[2])}
Askable(p) == {gap \in Gaps(p) : gap[2] \notin p.queue /\ p.waiting[gap[1]][gap[2]] < MaxGapRetry}
QueuedBefore(p, gap) == p.queue \cup {earlier[2] : earlier \in Askable(p) \cap Before(gap)}
Reached(p) == {gap \in Gaps(p) : gap[2] \notin QueuedBefore(p, gap)
                                /\ Cardinality(QueuedBefore(p, gap)) <= MaxBatch}
Filled(p) ==
  LET asked == Reached(p) \cap Askable(p)
      givenUp == Reached(p) \ asked
  IN IF ~p.batching THEN p
     ELSE [p EXCEPT
       !.waiting = [c \in DOMAIN @ |-> [i \in {k \in DOMAIN @[c] : <<c, k>> \notin givenUp} |->
                      IF <<c, i>> \in asked THEN @[c][i] + 1 ELSE @[c][i]]],
       !.failed = @ \cup givenUp,
       !.queue = @ \cup {gap[2] : gap \in asked},
       !.reads = [gap \in DOMAIN @ \cup asked |-> IF gap \in asked THEN 1 ELSE @[gap]],
       !.asks = @ \cup asked]

\* Once more is waited for the default component, when nothing else is missing.
WaitingTimedOut(p) ==
  LET q == Filled([Untimed(p, {"waiting"}) EXCEPT !.batching = TRUE, !.queue = {}])
      over == Completed([q EXCEPT !.defaultAwaited = FALSE])
  IN IF q.asks = {} /\ ~p.defaultAwaited /\ ~DefaultKnown(p)
     THEN Timed([q EXCEPT !.defaultAwaited = TRUE], "waiting")
     ELSE IF q.asks = {} THEN over ELSE Timed(over, "waiting")

\* request_timed_out of a gap: failing, it fails silently.
ReadTimedOut(p, pair) ==
  IF p.reads[pair] <= MaxReread THEN [p EXCEPT !.reads[pair] = @ + 1, !.asks = @ \cup {pair}]
  ELSE [p EXCEPT !.reads = Without(@, pair)]

\* answer_requests, on_param_error
Answered(p, pair) == [p EXCEPT !.reads = Without(@, pair)]

StillWaitsForDefault(p, q) == ~DefaultKnown(p) \* fault: what is missing of the list is not timed
StillWaits(p, q) == Gaps(q) # {} \/ ~DefaultKnown(p)

\* took_value of a value with its index, or of one that was not asked for and has none.
Took(p, pair, indexed, value) ==
  LET c == pair[1]
      i == pair[2]
      heard == [Untimed(p, {"list", "waiting"}) EXCEPT !.listAwaited = FALSE,
                  !.waiting = IF c \in DOMAIN @ THEN @ ELSE With(@, c, [k \in Indices(c) |-> 0])]
      fills == indexed /\ pair \in Gaps(heard)
      filled == IF ~fills THEN heard
                ELSE Filled([heard EXCEPT !.waiting[c] = Without(@, i), !.queue = @ \ {i}])
      timed == IF StillWaits(p, filled) THEN Timed(filled, "waiting") ELSE filled
  IN IF ~indexed /\ p.listAwaited THEN p
     ELSE Completed([timed EXCEPT !.facts = With(@, pair, value)])

\* hash_answered: a cache with the vehicle's hash is taken as if it were the list.
HashAnswered(p) ==
  LET stopped == Untimed(p, {"hash"})
      checked == [Untimed(stopped, {"list"}) EXCEPT !.checked = TRUE, !.listAwaited = FALSE]
      value == IF cache = "same" THEN "now" ELSE "then"
      taking[n \in 0 .. Count[Default]] ==
        IF n = 0 THEN checked
        ELSE Took(Answered(taking[n - 1], <<Default, n - 1>>), <<Default, n - 1>>, TRUE, value)
  IN IF p.complete THEN stopped
     ELSE IF cache = "same" THEN taking[Count[Default]] ELSE HashCheckFailed(stopped)

\* load_pack
PackLoaded(p) ==
  LET all == {<<Default, i>> : i \in Indices(Default)} IN
  Completed([Untimed(p, {"list"}) EXCEPT
    !.facts = [pair \in DOMAIN @ \cup all |-> IF pair \in all THEN "now" ELSE @[pair]],
    !.waiting = With(@, Default, None), !.listAwaited = FALSE])

-----------------------------------------------------------------------------
(* The hub, the vehicle and the operator.                                  *)

\* What the vehicle answers. A list of PX4's ends with the hash.
Answers(p) == {pair \in Pairs : pair[1] \notin silent /\ (p.asksList \/ pair \in p.asks)}
AnswersHash(p) == px4 /\ Default \notin silent /\ (p.asksHash \/ p.asksList)
SentOff(p) == [p EXCEPT !.asksList = FALSE, !.asksHash = FALSE, !.asks = {}]

\* follow_params: what the handler made of the parameters is sent off, while what is
\* left comes.
Follow(next, left, hashLeft) ==
  \E p \in {next} :
    /\ params' = SentOff(p)
    /\ coming' = left \cup Answers(p)
    /\ hashing' = (hashLeft \/ AnswersHash(p))
Same == UNCHANGED <<nature, byFile, turns>>

Turn == turns < MaxTurns /\ turns' = turns + 1

LoadInit ==
  /\ px4 \in BOOLEAN /\ silent \in Silences
  /\ cache \in IF px4 THEN {"same", "other"} ELSE {"other"}
  /\ byFile \in IF px4 THEN {FALSE} ELSE BOOLEAN
  /\ \E p \in {IF byFile THEN NewParams ELSE Refreshed(NewParams)}
               \cup IF px4 THEN {StartedCacheOnly(NewParams)} ELSE {} :
       params = SentOff(p) /\ coming = Answers(p) /\ hashing = AnswersHash(p)
  /\ turns = 0

\* on_param_value; while the file is tried the autopilot's values are not taken.
Taken(pair, indexed) ==
  LET p == IF indexed THEN Answered(params, pair) ELSE params IN
  IF pair[1] = Default /\ byFile /\ ~params.complete THEN p ELSE Took(p, pair, indexed, "now")

ValueArrives(pair) ==
  /\ pair \in coming
  /\ Follow(Taken(pair, TRUE), coming \ {pair}, hashing) /\ Same

HashArrives ==
  /\ hashing /\ Follow(HashAnswered(params), coming, FALSE) /\ Same

ListTimer == "list" \in params.timers /\ Follow(ListTimedOut(params), coming, hashing) /\ Same
HashTimer == "hash" \in params.timers /\ Follow(HashTimedOut(params), coming, hashing) /\ Same
WaitingTimer == "waiting" \in params.timers /\ Follow(WaitingTimedOut(params), coming, hashing) /\ Same
ReadTimer(pair) ==
  /\ pair \in DOMAIN params.reads /\ Follow(ReadTimedOut(params, pair), coming, hashing) /\ Same

\* The file came, no attempt was answered, or it is declined, with the list at once or when
\* the timer is over (pack_received, pack_list_timeout, decline_pack).
FileEnds ==
  /\ byFile /\ ~params.ended
  /\ \/ byFile' = TRUE /\ \E p \in {PackLoaded(params), NoResponse(params)} : Follow(p, coming, hashing)
     \/ byFile' = FALSE /\ \E p \in {ListTimedOut(params), Timed(params, "file")} : Follow(p, coming, hashing)
  /\ UNCHANGED <<nature, turns>>
FileTimer ==
  /\ "file" \in params.timers
  /\ Follow(ListTimedOut(Untimed(params, {"file"})), coming, hashing) /\ Same

\* refreshParameters; with the file it is the hub that begins again.
Reload ==
  /\ ~byFile /\ Turn
  /\ Follow(Refreshed(params), coming, hashing)
  /\ UNCHANGED <<nature, byFile>>

\* A value is lost, or refused.
ValueLost(pair) ==
  /\ pair \in coming /\ Turn
  /\ \E p \in {params, Answered(params, pair)} : Follow(p, coming \ {pair}, hashing)
  /\ UNCHANGED <<nature, byFile>>
HashLost ==
  /\ hashing /\ Turn /\ Follow(params, coming, FALSE)
  /\ UNCHANGED <<nature, byFile>>
\* A value comes twice, or because another asked for it.
Repeated(pair) ==
  /\ pair \in coming /\ Turn /\ Follow(Taken(pair, TRUE), coming, hashing)
  /\ UNCHANGED <<nature, byFile>>
Unasked(pair) ==
  /\ pair[1] \notin silent /\ Turn /\ Follow(Taken(pair, FALSE), coming, hashing)
  /\ UNCHANGED <<nature, byFile>>

LoadNext ==
  \/ HashArrives \/ ListTimer \/ HashTimer \/ WaitingTimer \/ FileEnds \/ FileTimer \/ Reload \/ HashLost
  \/ \E pair \in Pairs : ValueArrives(pair) \/ ReadTimer(pair) \/ ValueLost(pair) \/ Repeated(pair) \/ Unasked(pair)

LoadSpec == LoadInit /\ [][LoadNext]_loadVars

-----------------------------------------------------------------------------
(* What is promised of the load.                                           *)

\* What goes on without anybody's help.
UnderWay == params.timers # {} \/ params.reads # None \/ coming # {} \/ hashing \/ byFile

\* Of each component that was heard, each parameter is waited for, or is known as the
\* vehicle has it, or was given up (fill_batch_queue, hash_answered, load_pack); parameters
\* that are ready have the default component's.  And until the connect is told that the
\* load is over, something is under way that will carry it on, unless others were heard and
\* the default component was not (took_value, on_waiting_timeout, the timers of the hub).
LoadIsWhole ==
  /\ \A c \in Listed(params) : \A i \in Indices(c) :
       \/ i \in DOMAIN params.waiting[c]
       \/ <<c, i>> \in DOMAIN params.facts /\ params.facts[<<c, i>>] = "now"
       \/ <<c, i>> \in params.failed
  /\ params.complete => DefaultKnown(params) /\ params.ended
  /\ ~params.ended => UnderWay \/ (Listed(params) # {} /\ ~DefaultKnown(params))
=============================================================================
