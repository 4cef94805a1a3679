------------------------- MODULE MavCommandsProofs --------------------------
(***************************************************************************)
(* Proofs about MavCommands: its type, that one request at a time is under *)
(* way, that every ask is answered at most once, and, on a calm network,   *)
(* with the vehicle's answer to that very ask.                             *)
(*                                                                         *)
(* The inductive invariant adds who owns an ask: an ask sits in one place  *)
(* only (entries, requests or the queue), and it has been told nothing,    *)
(* but for a request whose message came before its ack.  For the last      *)
(* theorem Own adds what is on its way, in which order.                    *)
(***************************************************************************)
EXTENDS MavCommands, SequenceTheorems, WellFoundedInduction, TLAPS

\* What n asks may leave in entries es, requests rs, queue q and answers tl, before
\* the queue is served.
Settled(n, es, rs, q, tl) ==
  /\ DOMAIN es \subseteq 1 .. n /\ es \in [DOMAIN es -> Entry]
  /\ DOMAIN rs \subseteq 1 .. n /\ rs \in [DOMAIN rs -> Request]
  /\ DOMAIN q \subseteq 1 .. n /\ q \in [DOMAIN q -> Messages]
  /\ tl \in [Asks -> Seq(Outcomes)]
  /\ \A t, u \in DOMAIN rs : t = u
  /\ \A t \in DOMAIN es : es[t].code = "Request" => t \in DOMAIN rs /\ ~rs[t].acked
  /\ \A t \in DOMAIN rs : ~rs[t].acked => t \in DOMAIN es /\ es[t].code = "Request"
  /\ \A t \in DOMAIN rs : ~(rs[t].acked /\ rs[t].received)
  /\ \A t \in DOMAIN es : es[t].code # "Request" => t \notin DOMAIN rs /\ tl[t] = <<>>
  /\ \A t \in DOMAIN es : es[t].code # "Request" => es[t].max = 1
  /\ \A t \in DOMAIN rs : ~rs[t].received => tl[t] = <<>>
  /\ \A t \in DOMAIN q : tl[t] = <<>> /\ t \notin DOMAIN es /\ t \notin DOMAIN rs
  /\ \A t \in Asks : t > n => tl[t] = <<>>

Good(n, es, rs, q, tl) ==
  /\ Settled(n, es, rs, q, tl)
  /\ DOMAIN q # {} => DOMAIN rs # {}

\* The inductive invariant.
IInv ==
  /\ asks \in 0 .. MaxAsks /\ stops \in 0 .. MaxStops /\ outside \in 0 .. MaxOutside
  /\ superseded \in BOOLEAN
  /\ Good(asks, entries, requests, queued, told)
  /\ toVehicle \in Seq(VehicleMessage) /\ toStation \in Seq(StationMessage)

\* results are first answers to asks already made.
FirstAnswers(n, results) ==
  /\ DOMAIN results \subseteq 1 .. n
  /\ \A t \in DOMAIN results : results[t] \in Outcomes /\ told[t] = <<>>

-----------------------------------------------------------------------------
(* Lemmas about the operators of the model.                                *)

\* What is served first is one of those that wait.
LEMMA FirstIsMember ==
  ASSUME NEW set \in SUBSET Nat, set # {}
  PROVE  First(set) \in set
<1>1. PICK n \in set : \A m \in set : <<m, n>> \notin OpToRel(<, Nat)
  BY NatLessThanWellFounded, WFMin
<1>2. ASSUME NEW m \in set, m < n PROVE FALSE
  <2>1. <<m, n>> \in Nat \X Nat /\ <<m, n>>[1] < <<m, n>>[2]
    BY <1>2
  <2>2. <<m, n>> \in OpToRel(<, Nat)
    BY <2>1, Zenon DEF OpToRel
  <2> QED BY <2>2, <1>1
<1>3. \A m \in set : n <= m
  BY <1>2
<1> QED BY <1>3 DEF First

\* Sending keeps what is in flight typed.
LEMMA ToVehicleType ==
  ASSUME toVehicle \in Seq(VehicleMessage),
         NEW t \in 0 .. MaxAsks, NEW code \in Codes, NEW message \in Messages \cup {NoMessage},
         ToVehicle(t, code, message)
  PROVE  toVehicle' \in Seq(VehicleMessage)
<1>1. [tag |-> t, code |-> code, message |-> message] \in VehicleMessage
  BY DEF VehicleMessage
<1> QED BY <1>1, AppendProperties DEF ToVehicle

\* First answers leave the answers typed, and those they are not for untouched.
LEMMA AfterFirst ==
  ASSUME told \in [Asks -> Seq(Outcomes)], NEW n \in Nat, NEW results,
         FirstAnswers(n, results)
  PROVE  /\ After(results) \in [Asks -> Seq(Outcomes)]
         /\ \A t \in Asks : t \notin DOMAIN results => After(results)[t] = told[t]
         /\ \A t \in Asks : t \in DOMAIN results => After(results)[t] = <<results[t]>>
<1>1. ASSUME NEW t \in Asks, t \in DOMAIN results
      PROVE  Append(told[t], results[t]) = <<results[t]>>
  <2>1. told[t] = <<>>
    BY <1>1 DEF FirstAnswers
  <2>2. Append(<<>>, results[t]) = <<results[t]>>
    OBVIOUS
  <2> QED BY <2>1, <2>2
<1>2. \A t \in Asks : t \in DOMAIN results => <<results[t]>> \in Seq(Outcomes)
  BY DEF FirstAnswers
<1> QED BY <1>1, <1>2 DEF After

\* Serving the queue settles everything: at most one request goes out, and nobody
\* else is told anything, for no REQUEST_MESSAGE is pending then.
LEMMA ContinueIsGood ==
  ASSUME NEW n \in 0 .. MaxAsks, NEW held, NEW active, NEW results,
         toVehicle \in Seq(VehicleMessage),
         Settled(n, held, active, queued, After(results)),
         Continue(held, active, results)
  PROVE  /\ Good(n, entries', requests', queued', told')
         /\ told' = After(results)
         /\ toVehicle' \in Seq(VehicleMessage)
<1>1. CASE DOMAIN active # {} \/ DOMAIN queued = {}
  BY <1>1 DEF Continue, Good, Tell
<1>2. CASE ~(DOMAIN active # {} \/ DOMAIN queued = {})
  <2>1. Holding(held, "Request") = {}
    BY <1>2 DEF Settled, Holding
  <2> DEFINE next == First(DOMAIN queued)
  <2>2. next \in DOMAIN queued
    <3>1. DOMAIN queued \in SUBSET Nat
      BY DEF Settled
    <3> QED BY <1>2, <3>1, FirstIsMember
  <2>3. /\ entries' = Added(held, next, NewEntry("Request"))
        /\ requests' = Added(active, next, NewRequest(queued[next]))
        /\ queued' = Without(queued, {next})
        /\ ToVehicle(next, "Request", queued[next])
        /\ told' = After(results)
    BY <1>2, <2>1 DEF Continue, Tell
  <2>4. NewEntry("Request") \in Entry /\ NewEntry("Request").code = "Request"
    BY ConstantsAssumption DEF NewEntry, Entry, MaxTries, Codes
  <2>5. queued[next] \in Messages /\ next \in 1 .. n
    BY <2>2 DEF Settled
  <2>6. /\ NewRequest(queued[next]) \in Request
        /\ ~NewRequest(queued[next]).acked /\ ~NewRequest(queued[next]).received
    BY <2>5 DEF NewRequest, Request
  <2>7. toVehicle' \in Seq(VehicleMessage)
    BY <2>3, <2>5, ToVehicleType, ConstantsAssumption DEF Codes
  <2>8. Settled(n, entries', requests', queued', told')
    <3>1. DOMAIN active = {}
      BY <1>2
    <3>2. DOMAIN requests' = {next} /\ requests'[next] = NewRequest(queued[next])
      BY <2>3, <3>1 DEF Added
    <3>3. /\ DOMAIN entries' = DOMAIN held \cup {next}
          /\ entries'[next] = NewEntry("Request")
          /\ \A t \in DOMAIN held : t # next => entries'[t] = held[t]
          /\ entries' \in [DOMAIN entries' -> Entry]
      BY <2>3, <2>4 DEF Added, Settled
    <3>4. /\ DOMAIN queued' = DOMAIN queued \ {next}
          /\ \A t \in DOMAIN queued' : queued'[t] = queued[t]
          /\ queued' \in [DOMAIN queued' -> Messages]
      BY <2>3 DEF Without, Settled
    <3>5. requests' \in [DOMAIN requests' -> Request]
      BY <2>3, <2>6, <3>1 DEF Added
    <3>6. next \notin DOMAIN held /\ told'[next] = <<>>
      BY <2>2, <2>3 DEF Settled
    <3> QED BY <2>2, <2>3, <2>4, <2>5, <2>6, <3>1, <3>2, <3>3, <3>4, <3>5, <3>6 DEF Settled
  <2>9. DOMAIN requests' # {}
    BY <2>3 DEF Added
  <2> QED BY <2>3, <2>7, <2>8, <2>9 DEF Good
<1> QED BY <1>1, <1>2

\* First answers keep the promise, and so does saying nothing.
LEMMA AnswersKeepPromise ==
  ASSUME IInv, asks' \in asks .. MaxAsks, NEW results,
         FirstAnswers(asks', results), told' = After(results)
  PROVE  Promise!Next
<1>1. told \in [Asks -> Seq(Outcomes)] /\ asks \in Nat /\ asks' \in Nat
  BY DEF IInv, Good, Settled
<1>2. /\ told' \in [Asks -> Seq(Outcomes)]
      /\ \A t \in Asks : t \notin DOMAIN results => told'[t] = told[t]
      /\ \A t \in Asks : t \in DOMAIN results => told'[t] = <<results[t]>>
  BY <1>1, AfterFirst
<1>3. \A t \in DOMAIN results : results[t] \in Outcomes /\ t \in 1 .. asks' /\ told[t] = <<>>
  BY DEF FirstAnswers
<1>4. \A t \in Asks : \/ told'[t] = told[t]
                      \/ /\ t \in 1 .. asks' /\ told[t] = <<>>
                         /\ \E outcome \in Outcomes : told'[t] = <<outcome>>
  BY <1>2, <1>3
<1>5. 1 .. asks \subseteq 1 .. asks' /\ 1 .. asks' \subseteq Asks
  BY <1>1, ConstantsAssumption DEF Asks
<1> QED BY <1>2, <1>4, <1>5 DEF Promise!Next

LEMMA SilenceKeepsPromise ==
  ASSUME IInv, asks' \in asks .. MaxAsks, told' = told
  PROVE  Promise!Next
<1>1. told \in [Asks -> Seq(Outcomes)] /\ asks \in Nat /\ asks' \in Nat
  BY DEF IInv, Good, Settled
<1>2. 1 .. asks \subseteq 1 .. asks' /\ 1 .. asks' \subseteq Asks
  BY <1>1, ConstantsAssumption DEF Asks
<1> QED BY <1>1, <1>2 DEF Promise!Next

-----------------------------------------------------------------------------
(* The steps, one lemma each: they keep IInv and the promise.              *)

\* What was asked before is still settled when one more ask is numbered.
LEMMA SettledAsk ==
  ASSUME IInv, NEW t \in Asks, Ask(t)
  PROVE  /\ asks' \in asks .. MaxAsks /\ asks' = t /\ asks' \in 0 .. MaxAsks
         /\ told[t] = <<>>
         /\ t \notin DOMAIN entries /\ t \notin DOMAIN requests /\ t \notin DOMAIN queued
         /\ Good(t, entries, requests, queued, told)
<1>1. asks \in Nat /\ t = asks + 1 /\ t \in 1 .. MaxAsks
  BY ConstantsAssumption DEF IInv, Ask, Asks
<1>2. asks' = t /\ t \in asks .. MaxAsks /\ t \in 0 .. MaxAsks /\ t > asks
  BY <1>1, ConstantsAssumption DEF Ask
<1>3. told[t] = <<>>
  BY <1>2 DEF IInv, Good, Settled
<1>4. \A u \in 1 .. asks : u # t /\ u \in 1 .. t
  BY <1>1
<1>5. /\ t \notin DOMAIN entries /\ t \notin DOMAIN requests /\ t \notin DOMAIN queued
  BY <1>4 DEF IInv, Good, Settled
<1>6. \A u \in Asks : u > t => u > asks
  BY <1>1 DEF Asks
<1>7. Good(t, entries, requests, queued, told)
  BY <1>4, <1>6 DEF IInv, Good, Settled
<1> QED BY <1>2, <1>3, <1>5, <1>7

LEMMA EnqueueIsGood ==
  ASSUME NEW t \in 1 .. MaxAsks, NEW code \in Codes \ {"Request"}, NEW kept, NEW results,
         told \in [Asks -> Seq(Outcomes)], toVehicle \in Seq(VehicleMessage),
         told[t] = <<>>, FirstAnswers(t, results), t \notin DOMAIN results,
         t \notin DOMAIN kept, t \notin DOMAIN requests, t \notin DOMAIN queued,
         Good(t, kept, requests, queued, After(results)),
         Enqueue(t, code, kept, results)
  PROVE  /\ Good(t, entries', requests, queued, told')
         /\ toVehicle' \in Seq(VehicleMessage)
         /\ \E given : FirstAnswers(t, given) /\ told' = After(given)
<1>1. CASE Holding(kept, code) # {} /\ ~CanDuplicate(code)
  <2> DEFINE given == Added(results, t, "Duplicate")
  <2>1. entries' = kept /\ told' = After(given) /\ toVehicle' = toVehicle
    BY <1>1 DEF Enqueue, Tell
  <2>2. DOMAIN given = DOMAIN results \cup {t} /\ given[t] = "Duplicate"
        /\ \A u \in DOMAIN results : given[u] = results[u]
    BY DEF Added
  <2>3. FirstAnswers(t, given)
    BY <2>2 DEF FirstAnswers, Outcomes
  <2>4. /\ told' \in [Asks -> Seq(Outcomes)]
        /\ \A u \in Asks : u # t => told'[u] = After(results)[u]
    <3>1. /\ told' \in [Asks -> Seq(Outcomes)]
          /\ \A u \in Asks : u \notin DOMAIN given => told'[u] = told[u]
          /\ \A u \in Asks : u \in DOMAIN given => told'[u] = <<given[u]>>
      BY <2>1, <2>3, AfterFirst
    <3>2. /\ \A u \in Asks : u \notin DOMAIN results => After(results)[u] = told[u]
          /\ \A u \in Asks : u \in DOMAIN results => After(results)[u] = <<results[u]>>
      BY AfterFirst
    <3> QED BY <3>1, <3>2, <2>2
  <2>5. Good(t, kept, requests, queued, told')
    <3>1. \A u \in 1 .. t : u \in Asks
      BY ConstantsAssumption DEF Asks
    <3>2. \A u \in DOMAIN kept : u # t /\ u \in 1 .. t
      BY DEF Good, Settled
    <3>3. \A u \in DOMAIN requests : u # t /\ u \in 1 .. t
      BY DEF Good, Settled
    <3>4. \A u \in DOMAIN queued : u # t /\ u \in 1 .. t
      BY DEF Good, Settled
    <3> QED BY <2>4, <3>1, <3>2, <3>3, <3>4 DEF Good, Settled
  <2> QED BY <2>1, <2>3, <2>5
<1>2. CASE ~(Holding(kept, code) # {} /\ ~CanDuplicate(code))
  <2>1. /\ entries' = Added(kept, t, NewEntry(code)) /\ told' = After(results)
        /\ ToVehicle(t, code, NoMessage)
    BY <1>2 DEF Enqueue, Tell
  <2>2. NewEntry(code) \in Entry /\ NewEntry(code).code = code /\ NewEntry(code).max = 1
    BY ConstantsAssumption DEF NewEntry, Entry, MaxTries
  <2>3. /\ DOMAIN entries' = DOMAIN kept \cup {t}
        /\ entries'[t] = NewEntry(code)
        /\ \A u \in DOMAIN kept : entries'[u] = kept[u]
        /\ entries' \in [DOMAIN entries' -> Entry]
    BY <2>1, <2>2 DEF Added, Good, Settled
  <2>4. told'[t] = <<>>
    BY <2>1, AfterFirst DEF Asks
  <2>5. Good(t, entries', requests, queued, told')
    BY <2>1, <2>2, <2>3, <2>4 DEF Good, Settled
  <2>6. toVehicle' \in Seq(VehicleMessage)
    BY <2>1, ToVehicleType
  <2> QED BY <2>1, <2>5, <2>6
<1> QED BY <1>1, <1>2

LEMMA NobodyAnswered ==
  ASSUME told \in [Asks -> Seq(Outcomes)]
  PROVE  /\ After(Nothing) = told
         /\ DOMAIN Nothing = {}
         /\ \A n : FirstAnswers(n, Nothing)
BY DEF After, Nothing, FirstAnswers

LEMMA SendStep ==
  ASSUME IInv, NEW t \in Asks, NEW code \in Codes, Send(t, code)
  PROVE  IInv' /\ Promise!Next
<1>1. /\ asks' \in asks .. MaxAsks /\ asks' = t /\ asks' \in 0 .. MaxAsks /\ told[t] = <<>>
      /\ t \notin DOMAIN entries /\ t \notin DOMAIN requests /\ t \notin DOMAIN queued
      /\ Good(t, entries, requests, queued, told)
  BY SettledAsk DEF Send
<1>2. told \in [Asks -> Seq(Outcomes)]
  BY DEF IInv, Good, Settled
<1>3. After(Nothing) = told /\ DOMAIN Nothing = {} /\ FirstAnswers(t, Nothing)
  BY <1>2, NobodyAnswered
<1>4. t \in 1 .. MaxAsks /\ code \in Codes \ {"Request"}
  BY DEF Asks, Send
<1>5. /\ Good(t, entries', requests, queued, told')
      /\ toVehicle' \in Seq(VehicleMessage)
      /\ \E given : FirstAnswers(t, given) /\ told' = After(given)
  BY <1>1, <1>2, <1>3, <1>4, EnqueueIsGood DEF Send, IInv
<1>6. Promise!Next
  BY <1>1, <1>5, AnswersKeepPromise
<1> QED BY <1>1, <1>5, <1>6 DEF Send, IInv

LEMMA SendToAllStep ==
  ASSUME IInv, NEW t \in Asks, SendToAll(t)
  PROVE  IInv' /\ Promise!Next
<1>1. /\ asks' \in asks .. MaxAsks /\ asks' = t /\ asks' \in 0 .. MaxAsks /\ told[t] = <<>>
      /\ t \notin DOMAIN entries /\ t \notin DOMAIN requests /\ t \notin DOMAIN queued
      /\ Good(t, entries, requests, queued, told)
  BY SettledAsk DEF SendToAll
<1> DEFINE results == Telling({t}, "Failed")
<1>2. told' = After(results) /\ DOMAIN results = {t} /\ FirstAnswers(t, results)
  BY <1>1 DEF SendToAll, Tell, Telling, FirstAnswers, Outcomes, Asks
<1>3. /\ told' \in [Asks -> Seq(Outcomes)]
      /\ \A u \in Asks : u # t => told'[u] = told[u]
  <2>1. t \in Nat /\ told \in [Asks -> Seq(Outcomes)]
    BY <1>1 DEF Good, Settled, Asks
  <2> QED BY <1>2, <2>1, AfterFirst
<1>4. Good(t, entries, requests, queued, told')
  <2>1. \A u \in 1 .. t : u \in Asks
    BY ConstantsAssumption DEF Asks
  <2> QED BY <1>1, <1>3, <2>1 DEF Good, Settled
<1>5. Promise!Next
  BY <1>1, <1>2, AnswersKeepPromise
<1> QED BY <1>1, <1>4, <1>5 DEF SendToAll, IInv, coordinator

LEMMA EmergencyStopStep ==
  ASSUME IInv, NEW t \in Asks, EmergencyStop(t)
  PROVE  IInv' /\ Promise!Next
<1> DEFINE older == Holding(entries, "Arm")
           kept == Without(entries, older)
           results == Telling(older, "Failed")
<1>1. /\ asks' \in asks .. MaxAsks /\ asks' = t /\ asks' \in 0 .. MaxAsks /\ told[t] = <<>>
      /\ t \notin DOMAIN entries /\ t \notin DOMAIN requests /\ t \notin DOMAIN queued
      /\ Good(t, entries, requests, queued, told)
  BY SettledAsk DEF EmergencyStop
<1>2. told \in [Asks -> Seq(Outcomes)] /\ t \in 1 .. MaxAsks /\ t \in Nat
  BY <1>1 DEF Good, Settled, Asks
<1>3. /\ older \subseteq DOMAIN entries
      /\ \A u \in older : entries[u].code = "Arm"
  BY DEF Holding
<1>4. DOMAIN results = older /\ FirstAnswers(t, results) /\ t \notin DOMAIN results
  BY <1>1, <1>3 DEF Telling, FirstAnswers, Outcomes, Good, Settled
<1>5. /\ After(results) \in [Asks -> Seq(Outcomes)]
      /\ \A u \in Asks : u \notin older => After(results)[u] = told[u]
  BY <1>2, <1>4, AfterFirst
<1>6. /\ DOMAIN kept = DOMAIN entries \ older
      /\ \A u \in DOMAIN kept : kept[u] = entries[u]
      /\ kept \in [DOMAIN kept -> Entry]
  BY <1>1 DEF Without, Good, Settled
<1>7. Good(t, kept, requests, queued, After(results))
  <2>1. \A u \in 1 .. t : u \in Asks
    BY ConstantsAssumption DEF Asks
  <2>2. \A u \in older : u \notin DOMAIN requests /\ u \notin DOMAIN queued /\ u \in 1 .. t
    BY <1>1, <1>3 DEF Good, Settled
  <2> QED BY <1>1, <1>3, <1>5, <1>6, <2>1, <2>2 DEF Good, Settled
<1>8. /\ Good(t, entries', requests, queued, told')
      /\ toVehicle' \in Seq(VehicleMessage)
      /\ \E given : FirstAnswers(t, given) /\ told' = After(given)
  <2>1. "Arm" \in Codes \ {"Request"} /\ t \notin DOMAIN kept
    BY <1>1, <1>6 DEF Codes
  <2> QED BY <1>1, <1>2, <1>4, <1>7, <2>1, EnqueueIsGood DEF EmergencyStop, IInv
<1>9. Promise!Next
  BY <1>1, <1>8, AnswersKeepPromise
<1>10. stops' \in 0 .. MaxStops /\ superseded' \in BOOLEAN
  BY ConstantsAssumption DEF EmergencyStop, Supersede, IInv
<1> QED BY <1>1, <1>8, <1>9, <1>10 DEF EmergencyStop, IInv

LEMMA RequestMessageStep ==
  ASSUME IInv, NEW t \in Asks, NEW message \in Messages, RequestMessage(t, message)
  PROVE  IInv' /\ Promise!Next
<1>1. /\ asks' \in asks .. MaxAsks /\ asks' = t /\ asks' \in 0 .. MaxAsks /\ told[t] = <<>>
      /\ t \notin DOMAIN entries /\ t \notin DOMAIN requests /\ t \notin DOMAIN queued
      /\ Good(t, entries, requests, queued, told)
  BY SettledAsk DEF RequestMessage
<1>2. told \in [Asks -> Seq(Outcomes)] /\ t \in 1 .. MaxAsks /\ t \in Nat
  BY <1>1 DEF Good, Settled, Asks
<1>3. Holding(entries, "Request") # {} => Active
  BY DEF IInv, Good, Settled, Holding, Active
<1>4. ASSUME told' = After(Telling({t}, "Duplicate")), UNCHANGED <<entries, requests, queued, toVehicle>>
      PROVE  IInv' /\ Promise!Next
  <2> DEFINE results == Telling({t}, "Duplicate")
  <2>1. DOMAIN results = {t} /\ FirstAnswers(t, results)
    BY <1>1, <1>2 DEF Telling, FirstAnswers, Outcomes
  <2>2. /\ told' \in [Asks -> Seq(Outcomes)]
        /\ \A u \in Asks : u # t => told'[u] = told[u]
    BY <1>2, <1>4, <2>1, AfterFirst
  <2>3. \A u \in 1 .. t : u \in Asks
    BY ConstantsAssumption DEF Asks
  <2>4. Good(t, entries, requests, queued, told')
    BY <1>1, <2>2, <2>3 DEF Good, Settled
  <2>5. Promise!Next
    BY <1>1, <1>4, <2>1, AnswersKeepPromise
  <2> QED BY <1>1, <1>4, <2>4, <2>5 DEF RequestMessage, IInv
<1>5. CASE Active /\ queued' = Added(queued, t, message)
           /\ UNCHANGED <<entries, requests, toVehicle, told>>
  <2>1. /\ DOMAIN queued' = DOMAIN queued \cup {t}
        /\ queued' \in [DOMAIN queued' -> Messages]
    BY <1>1, <1>5 DEF Added, Good, Settled
  <2>2. Good(t, entries, requests, queued', told)
    BY <1>1, <1>2, <1>5, <2>1 DEF Good, Settled, Active
  <2>3. Promise!Next
    BY <1>1, <1>5, SilenceKeepsPromise
  <2> QED BY <1>1, <1>5, <2>2, <2>3 DEF RequestMessage, IInv
<1>6. CASE /\ ~Active
           /\ entries' = Added(entries, t, NewEntry("Request"))
           /\ requests' = Added(requests, t, NewRequest(message))
           /\ ToVehicle(t, "Request", message)
           /\ UNCHANGED <<queued, told>>
  <2>1. NewEntry("Request") \in Entry /\ NewEntry("Request").code = "Request"
    BY ConstantsAssumption DEF NewEntry, Entry, MaxTries, Codes
  <2>2. /\ NewRequest(message) \in Request
        /\ ~NewRequest(message).acked /\ ~NewRequest(message).received
    BY DEF NewRequest, Request
  <2>3. /\ DOMAIN entries' = DOMAIN entries \cup {t}
        /\ entries'[t] = NewEntry("Request")
        /\ \A u \in DOMAIN entries : entries'[u] = entries[u]
        /\ entries' \in [DOMAIN entries' -> Entry]
    BY <1>1, <1>6, <2>1 DEF Added, Good, Settled
  <2>4. /\ DOMAIN requests' = {t} /\ requests'[t] = NewRequest(message)
        /\ requests' \in [DOMAIN requests' -> Request]
    BY <1>6, <2>2 DEF Added, Active
  <2>5. Good(t, entries', requests', queued, told)
    <3>1. DOMAIN requests = {} /\ DOMAIN queued = {}
      BY <1>1, <1>6 DEF Active, Good
    <3>2. \A u \in DOMAIN entries :
            u # t /\ u \in 1 .. t /\ entries[u].code # "Request" /\ told[u] = <<>>
              /\ entries[u].max = 1
      BY <1>1, <3>1 DEF Good, Settled
    <3>3. t \in 1 .. t
      BY <1>2
    <3>4. \A u \in DOMAIN entries' : u # t => entries'[u] = entries[u] /\ u \in DOMAIN entries
      BY <2>3
    <3>5. queued \in [DOMAIN queued -> Messages] /\ \A u \in Asks : u > t => told[u] = <<>>
      BY <1>1 DEF Good, Settled
    <3>6. \A u \in DOMAIN entries' : entries'[u].code = "Request" <=> u = t
      BY <2>1, <2>3, <3>2
    <3>7. \A u \in DOMAIN entries' : entries'[u].code # "Request" =>
            u \notin DOMAIN requests' /\ told[u] = <<>> /\ entries'[u].max = 1
      BY <2>4, <3>2, <3>4, <3>6
    <3>8. DOMAIN entries' \subseteq 1 .. t /\ DOMAIN requests' \subseteq 1 .. t
      BY <2>3, <2>4, <3>2, <3>3
    <3>9. \A u, v \in DOMAIN requests' : u = v /\ ~requests'[u].acked /\ ~requests'[u].received
      BY <2>2, <2>4
    <3>10. \A u \in DOMAIN entries' : entries'[u].code = "Request" =>
             u \in DOMAIN requests' /\ ~requests'[u].acked
      BY <2>4, <3>6, <3>9
    <3>11. \A u \in DOMAIN requests' : told[u] = <<>> /\ u \in DOMAIN entries'
             /\ entries'[u].code = "Request"
      BY <1>1, <2>3, <2>4, <3>6
    <3> QED BY <1>2, <2>3, <2>4, <3>1, <3>5, <3>7, <3>8, <3>9, <3>10, <3>11 DEF Good, Settled
  <2>6. toVehicle' \in Seq(VehicleMessage)
    <3>1. "Request" \in Codes /\ t \in 0 .. MaxAsks
      BY <1>2 DEF Codes
    <3> QED BY <1>6, <3>1, ToVehicleType DEF IInv
  <2>7. Promise!Next
    BY <1>1, <1>6, SilenceKeepsPromise
  <2> QED BY <1>1, <1>6, <2>5, <2>6, <2>7 DEF RequestMessage, IInv
<1> QED BY <1>3, <1>4, <1>5, <1>6 DEF RequestMessage, Tell

LEMMA AskOutsideStep ==
  ASSUME IInv, NEW message \in Messages, AskOutside(message)
  PROVE  IInv' /\ Promise!Next
<1>1. toVehicle' \in Seq(VehicleMessage)
  <2>1. Outside \in 0 .. MaxAsks /\ "Request" \in Codes
    BY ConstantsAssumption DEF Outside, Codes
  <2> QED BY <2>1, ToVehicleType DEF AskOutside, IInv
<1>2. outside' \in 0 .. MaxOutside
  BY ConstantsAssumption DEF AskOutside, IInv
<1>3. asks' \in asks .. MaxAsks /\ told' = told
  BY ConstantsAssumption DEF AskOutside, IInv
<1> QED BY <1>1, <1>2, <1>3, SilenceKeepsPromise DEF AskOutside, IInv, coordinator

\* The timers that run out: what they end has not been answered, and what they end
\* of a request leaves nothing pending for it.
LEMMA ExpireStep ==
  ASSUME IInv, asks' = asks, UNCHANGED <<stops, outside, superseded, toStation>>,
         NEW due \in SUBSET DOMAIN entries,
         NEW gone \in {{}} \cup {{t} : t \in Waiting},
         Expire(due, gone)
  PROVE  IInv' /\ Promise!Next
<1> DEFINE lost == {t \in due : entries[t].tries >= entries[t].max}
           again == due \ lost
           held == [t \in DOMAIN entries \ lost |->
                      IF t \in again THEN [entries[t] EXCEPT !.tries = @ + 1] ELSE entries[t]]
           unanswered == {t \in lost : t \in DOMAIN requests => ~requests[t].received}
           results == [t \in unanswered \cup gone |->
                         IF t \in gone THEN "NoMessage" ELSE "NoResponse"]
           closed == (lost \cup gone) \cap DOMAIN requests
           left == Without(requests, closed)
<1>1. Good(asks, entries, requests, queued, told) /\ asks \in 0 .. MaxAsks /\ asks \in Nat
  BY DEF IInv
<1>2. told \in [Asks -> Seq(Outcomes)] /\ 1 .. asks \subseteq Asks
  BY <1>1, ConstantsAssumption DEF Good, Settled, Asks
<1>3. \A t \in gone : t \in DOMAIN requests /\ requests[t].acked /\ ~requests[t].received
  BY <1>1 DEF Waiting, Good, Settled
<1>4. \A t \in lost : t \in DOMAIN entries
  OBVIOUS
<1>5. \A t \in unanswered : told[t] = <<>> /\ t \in 1 .. asks
  <2> TAKE t \in unanswered
  <2>1. t \in DOMAIN entries /\ t \in 1 .. asks
    BY <1>1 DEF Good, Settled
  <2>2. CASE entries[t].code = "Request"
    BY <1>1, <2>1, <2>2 DEF Good, Settled
  <2>3. CASE entries[t].code # "Request"
    BY <1>1, <2>1, <2>3 DEF Good, Settled
  <2> QED BY <2>1, <2>2, <2>3
<1>6. \A t \in gone : told[t] = <<>> /\ t \in 1 .. asks
  BY <1>1, <1>3 DEF Good, Settled
<1>7. DOMAIN results = unanswered \cup gone /\ FirstAnswers(asks, results)
  BY <1>5, <1>6 DEF FirstAnswers, Outcomes
<1>8. /\ After(results) \in [Asks -> Seq(Outcomes)]
      /\ \A t \in Asks : t \notin unanswered \cup gone => After(results)[t] = told[t]
  <2> HIDE DEF results, unanswered
  <2> QED BY <1>1, <1>2, <1>7, AfterFirst
<1>9. /\ DOMAIN held = DOMAIN entries \ lost
      /\ \A t \in DOMAIN held : held[t].code = entries[t].code /\ held[t].max = entries[t].max
      /\ held \in [DOMAIN held -> Entry]
  <2>1. ASSUME NEW t \in DOMAIN entries \ lost
        PROVE  held[t] \in Entry /\ held[t].code = entries[t].code /\ held[t].max = entries[t].max
    <3>1. entries[t] \in Entry
      BY <1>1 DEF Good, Settled
    <3>2. CASE t \in again
      <4>1. entries[t].tries < entries[t].max
        BY <3>1, <3>2 DEF Entry
      <4>2. entries[t].tries + 1 \in 1 .. MaxRetry
        BY <3>1, <4>1, ConstantsAssumption DEF Entry
      <4>3. held[t] = [entries[t] EXCEPT !.tries = @ + 1]
        BY <3>2
      <4> QED BY <3>1, <4>2, <4>3 DEF Entry
    <3>3. CASE t \notin again
      BY <3>1, <3>3
    <3> QED BY <3>2, <3>3
  <2> QED BY <2>1
<1>10. /\ DOMAIN left = DOMAIN requests \ closed
       /\ \A t \in DOMAIN left : left[t] = requests[t]
       /\ left \in [DOMAIN left -> Request]
  BY <1>1 DEF Without, Good, Settled
<1>11. \A t \in DOMAIN left : t \notin lost /\ t \notin gone
  BY <1>10
<1>12. \A t \in DOMAIN held : entries[t].code = "Request" => t \in DOMAIN left
  BY <1>1, <1>3, <1>9, <1>10 DEF Good, Settled
<1>13. \A t \in DOMAIN held : t \notin lost /\ t \in DOMAIN entries
  BY <1>9
<1>14. \A t \in DOMAIN queued : t \notin lost /\ t \notin gone
  BY <1>1, <1>3, <1>4 DEF Good, Settled
<1>15. \A t \in DOMAIN held : entries[t].code # "Request" => t \notin gone
  BY <1>1, <1>3, <1>13 DEF Good, Settled
<1>16. Settled(asks, held, left, queued, After(results))
  <2> HIDE DEF held, left, results, lost, closed
  <2>1. \A t \in 1 .. asks : t \notin lost /\ t \notin gone => After(results)[t] = told[t]
    BY <1>2, <1>8
  <2>2. \A t \in DOMAIN left : t \in DOMAIN requests /\ t \in 1 .. asks /\ left[t] = requests[t]
          /\ After(results)[t] = told[t]
    BY <1>1, <1>10, <1>11, <2>1 DEF Good, Settled
  <2>3. \A t \in DOMAIN held : /\ t \in DOMAIN entries /\ t \in 1 .. asks
                               /\ held[t].code = entries[t].code /\ held[t].max = entries[t].max
    BY <1>1, <1>9, <1>13 DEF Good, Settled
  <2>4. \A t \in DOMAIN held : held[t].code # "Request" => After(results)[t] = told[t]
    BY <1>13, <1>15, <2>1, <2>3
  <2>5. \A t \in DOMAIN queued : t \in 1 .. asks /\ After(results)[t] = told[t]
    BY <1>1, <1>14, <2>1 DEF Good, Settled
  <2>6. \A t \in Asks : t > asks => After(results)[t] = told[t]
    BY <1>1, <1>5, <1>6, <1>8 DEF Asks
  <2>7. \A t \in DOMAIN left : ~left[t].acked => t \in DOMAIN held
    BY <1>1, <1>9, <1>11, <2>2 DEF Good, Settled
  <2>8. \A t \in DOMAIN held : held[t].code = "Request" => t \in DOMAIN left
    BY <1>12, <2>3
  <2> QED BY <1>1, <1>8, <1>9, <1>10, <2>2, <2>3, <2>4, <2>5, <2>6, <2>7, <2>8
          DEF Good, Settled
<1>17. CASE closed # {}
  <2>1. Continue(held, left, results)
    BY <1>17 DEF Expire
  <2>2. /\ Good(asks, entries', requests', queued', told') /\ told' = After(results)
        /\ toVehicle' \in Seq(VehicleMessage)
    <3> HIDE DEF held, left, results
    <3> QED BY <1>1, <1>16, <2>1, ContinueIsGood DEF IInv
  <2>3. Promise!Next
    <3> HIDE DEF results
    <3> QED BY <1>1, <1>7, <2>2, AnswersKeepPromise
  <2> QED BY <2>2, <2>3 DEF IInv
<1>18. CASE closed = {}
  <2>1. /\ entries' = held /\ told' = After(results)
        /\ requests' = requests /\ queued' = queued
        /\ IF again = {} THEN UNCHANGED toVehicle
           ELSE \E t \in again : ToVehicle(t, entries[t].code, requests[t].message)
    BY <1>18 DEF Expire, Tell
  <2>2. DOMAIN left = DOMAIN requests
    BY <1>10, <1>18
  <2>3. left = requests
    BY <1>1, <1>10, <2>2 DEF Good, Settled
  <2>4. Good(asks, entries', requests', queued', told')
    <3> HIDE DEF held, left, results
    <3> QED BY <1>1, <1>16, <2>1, <2>3 DEF Good
  <2>5. toVehicle' \in Seq(VehicleMessage)
    <3>1. ASSUME NEW t \in again, ToVehicle(t, entries[t].code, requests[t].message)
          PROVE  toVehicle' \in Seq(VehicleMessage)
      <4>1. t \in DOMAIN entries /\ entries[t] \in Entry
        BY <1>1 DEF Good, Settled
      <4>2. entries[t].code = "Request"
        BY <1>1, <4>1 DEF Good, Settled, Entry
      <4>3. t \in DOMAIN requests /\ requests[t].message \in Messages
        BY <1>1, <4>1, <4>2 DEF Good, Settled, Request
      <4>4. t \in 0 .. MaxAsks /\ entries[t].code \in Codes
        <5>1. t \in 1 .. asks
          BY <1>1, <4>1 DEF Good, Settled
        <5> QED BY <1>1, <4>1, <5>1, ConstantsAssumption DEF Entry
      <4> QED BY <3>1, <4>3, <4>4, ToVehicleType DEF IInv
    <3> QED BY <2>1, <3>1 DEF IInv
  <2>6. Promise!Next
    <3> HIDE DEF results
    <3> QED BY <1>1, <1>7, <2>1, AnswersKeepPromise
  <2> QED BY <2>4, <2>5, <2>6 DEF IInv
<1> QED BY <1>17, <1>18

LEMMA TickStep == IInv /\ Tick => IInv' /\ Promise!Next
BY ExpireStep DEF Tick, counters

\* A message delivered: the request it ends had been told nothing.
LEMMA OnMessageStep ==
  ASSUME IInv, asks' = asks, UNCHANGED <<stops, outside>>,
         toStation' \in Seq(StationMessage),
         NEW message, OnMessage(message)
  PROVE  IInv' /\ Promise!Next
<1>1. Good(asks, entries, requests, queued, told) /\ asks \in 0 .. MaxAsks /\ asks \in Nat
  BY DEF IInv
<1>2. told \in [Asks -> Seq(Outcomes)] /\ 1 .. asks \subseteq Asks
  BY <1>1, ConstantsAssumption DEF Good, Settled, Asks
<1>3. CASE UNCHANGED <<entries, requests, queued, toVehicle, told>>
  <2>1. Promise!Next
    BY <1>1, <1>3, SilenceKeepsPromise
  <2> QED BY <1>1, <1>3, <2>1 DEF OnMessage, IInv
<1>4. ASSUME NEW t \in DOMAIN requests, ~requests[t].received
      PROVE  /\ DOMAIN Telling({t}, "Received") = {t}
             /\ FirstAnswers(asks, Telling({t}, "Received"))
             /\ After(Telling({t}, "Received")) \in [Asks -> Seq(Outcomes)]
             /\ \A u \in Asks : u # t => After(Telling({t}, "Received"))[u] = told[u]
  <2>1. /\ DOMAIN Telling({t}, "Received") = {t}
        /\ FirstAnswers(asks, Telling({t}, "Received"))
    BY <1>1, <1>4 DEF Telling, FirstAnswers, Outcomes, Good, Settled
  <2> QED BY <1>1, <1>2, <2>1, AfterFirst
<1>5. ASSUME NEW t \in DOMAIN requests, ~requests[t].received, requests[t].acked,
             Continue(entries, Without(requests, {t}), Telling({t}, "Received")),
             UNCHANGED superseded
      PROVE  IInv' /\ Promise!Next
  <2> DEFINE left == Without(requests, {t})
             results == Telling({t}, "Received")
  <2>1. DOMAIN left = {} /\ left \in [DOMAIN left -> Request]
    BY <1>1 DEF Without, Good, Settled
  <2>2. \A u \in DOMAIN entries : u # t /\ u \in 1 .. asks /\ entries[u].code # "Request"
    BY <1>1, <1>5 DEF Good, Settled
  <2>3. \A u \in DOMAIN queued : u # t /\ u \in 1 .. asks
    BY <1>1, <1>5 DEF Good, Settled
  <2>4. t \in 1 .. asks
    BY <1>1 DEF Good, Settled
  <2>5. Settled(asks, entries, left, queued, After(results))
    <3> HIDE DEF left, results
    <3>1. /\ After(results) \in [Asks -> Seq(Outcomes)]
          /\ \A u \in Asks : u # t => After(results)[u] = told[u]
      BY <1>4, <1>5 DEF results
    <3> QED BY <1>1, <1>2, <2>1, <2>2, <2>3, <2>4, <3>1 DEF Good, Settled
  <2>6. /\ Good(asks, entries', requests', queued', told') /\ told' = After(results)
        /\ toVehicle' \in Seq(VehicleMessage)
    <3> HIDE DEF left, results
    <3> QED BY <1>1, <1>5, <2>5, ContinueIsGood DEF IInv, left, results
  <2>7. Promise!Next
    BY <1>1, <1>4, <1>5, <2>6, AnswersKeepPromise
  <2> QED BY <1>5, <2>6, <2>7 DEF IInv
<1>6. ASSUME NEW t \in DOMAIN requests, ~requests[t].received, ~requests[t].acked,
             requests' = [requests EXCEPT ![t].received = TRUE],
             Tell(Telling({t}, "Received")),
             UNCHANGED <<entries, queued, toVehicle, superseded>>
      PROVE  IInv' /\ Promise!Next
  <2> DEFINE results == Telling({t}, "Received")
  <2>1. /\ DOMAIN requests' = DOMAIN requests
        /\ \A u \in DOMAIN requests : u = t
        /\ ~requests'[t].acked /\ requests'[t].received
        /\ requests' \in [DOMAIN requests -> Request]
    <3>1. requests \in [DOMAIN requests -> Request] /\ \A u \in DOMAIN requests : u = t
      BY <1>1 DEF Good, Settled
    <3>2. requests[t] \in Request
      BY <3>1
    <3>3. [requests[t] EXCEPT !.received = TRUE] \in Request
      BY <3>2 DEF Request
    <3>4. requests'[t] = [requests[t] EXCEPT !.received = TRUE]
      BY <1>6, <3>1
    <3>5. requests'[t].received /\ ~requests'[t].acked
      BY <1>6, <3>2, <3>4 DEF Request
    <3> QED BY <1>6, <3>1, <3>3, <3>4, <3>5
  <2>2. \A u \in DOMAIN queued : u # t /\ u \in 1 .. asks
    BY <1>1, <1>6 DEF Good, Settled
  <2>3. \A u \in DOMAIN entries : u \in 1 .. asks /\ (entries[u].code # "Request" => u # t)
    BY <1>1, <1>6 DEF Good, Settled
  <2>4. /\ told' \in [Asks -> Seq(Outcomes)]
        /\ \A u \in Asks : u # t => told'[u] = told[u]
    BY <1>4, <1>6 DEF Tell
  <2>5. t \in 1 .. asks
    BY <1>1 DEF Good, Settled
  <2>6. Good(asks, entries, requests', queued, told')
    BY <1>1, <1>2, <1>6, <2>1, <2>2, <2>3, <2>4, <2>5 DEF Good, Settled
  <2>7. Promise!Next
    BY <1>1, <1>4, <1>6, AnswersKeepPromise DEF Tell
  <2> QED BY <1>1, <1>6, <2>6, <2>7 DEF IInv
<1> QED BY <1>3, <1>5, <1>6 DEF OnMessage, Delivered

\* The ack of the oldest command of its code: it is answered, or, when it asked for
\* a message, the request under way moves on.
LEMMA OnAckStep ==
  ASSUME IInv, asks' = asks, UNCHANGED <<stops, outside>>,
         toStation' \in Seq(StationMessage),
         NEW code \in Codes, NEW result \in AckResults, OnAck(code, result)
  PROVE  IInv' /\ Promise!Next
<1> DEFINE t == First(Holding(entries, code))
           held == Without(entries, {t})
<1>1. Good(asks, entries, requests, queued, told) /\ asks \in 0 .. MaxAsks /\ asks \in Nat
  BY DEF IInv
<1>2. told \in [Asks -> Seq(Outcomes)] /\ 1 .. asks \subseteq Asks
  BY <1>1, ConstantsAssumption DEF Good, Settled, Asks
<1>3. CASE UNCHANGED <<entries, requests, queued, toVehicle, told>> /\ superseded' \in BOOLEAN
  <2>1. Promise!Next
    BY <1>1, <1>3, SilenceKeepsPromise
  <2> QED BY <1>1, <1>3, <2>1 DEF IInv
<1>4. ASSUME Holding(entries, code) # {}
      PROVE  /\ t \in DOMAIN entries /\ entries[t].code = code
             /\ t \in 1 .. asks /\ t \notin DOMAIN queued
             /\ DOMAIN held = DOMAIN entries \ {t} /\ held \in [DOMAIN held -> Entry]
             /\ \A u \in DOMAIN held : held[u] = entries[u]
  <2>1. Holding(entries, code) \in SUBSET Nat
    BY <1>1 DEF Holding, Good, Settled
  <2>2. t \in Holding(entries, code)
    BY <1>4, <2>1, FirstIsMember
  <2>3. t \in DOMAIN entries /\ entries[t].code = code
    BY <2>2 DEF Holding
  <2>4. t \in 1 .. asks /\ t \notin DOMAIN queued
    BY <1>1, <2>3 DEF Good, Settled
  <2>5. DOMAIN held = DOMAIN entries \ {t} /\ \A u \in DOMAIN held : held[u] = entries[u]
    BY DEF Without
  <2>6. held \in [DOMAIN held -> Entry]
    BY <1>1, <2>5 DEF Good, Settled, Without
  <2> QED BY <2>3, <2>4, <2>5, <2>6
<1>5. ASSUME Holding(entries, code) # {}, told[t] = <<>>
      PROVE  /\ DOMAIN Telling({t}, result) = {t}
             /\ FirstAnswers(asks, Telling({t}, result))
             /\ After(Telling({t}, result)) \in [Asks -> Seq(Outcomes)]
             /\ \A u \in Asks : u # t => After(Telling({t}, result))[u] = told[u]
  <2>1. t \in 1 .. asks
    BY <1>4, <1>5
  <2> HIDE DEF t
  <2>2. /\ DOMAIN Telling({t}, result) = {t}
        /\ FirstAnswers(asks, Telling({t}, result))
    BY <1>5, <2>1 DEF Telling, FirstAnswers, Outcomes
  <2> QED BY <1>1, <1>2, <2>2, AfterFirst
\* An answer to a command that asked for no message.
<1>6. ASSUME Holding(entries, code) # {}, code # "Request", entries' = held,
             Tell(Telling({t}, result)),
             UNCHANGED <<requests, queued, toVehicle, superseded>>
      PROVE  IInv' /\ Promise!Next
  <2>1. /\ t \in DOMAIN entries /\ entries[t].code = code
        /\ t \in 1 .. asks /\ t \notin DOMAIN queued
        /\ DOMAIN held = DOMAIN entries \ {t} /\ held \in [DOMAIN held -> Entry]
        /\ \A u \in DOMAIN held : held[u] = entries[u]
    BY <1>4, <1>6
  <2> HIDE DEF t, held
  <2>2. told[t] = <<>> /\ t \notin DOMAIN requests
    BY <1>1, <1>6, <2>1 DEF Good, Settled
  <2>3. /\ told' \in [Asks -> Seq(Outcomes)]
        /\ \A u \in Asks : u # t => told'[u] = told[u]
        /\ FirstAnswers(asks, Telling({t}, result)) /\ told' = After(Telling({t}, result))
    <3>1. /\ FirstAnswers(asks, Telling({t}, result))
          /\ After(Telling({t}, result)) \in [Asks -> Seq(Outcomes)]
          /\ \A u \in Asks : u # t => After(Telling({t}, result))[u] = told[u]
      BY <1>5, <1>6, <2>2 DEF t
    <3>2. told' = After(Telling({t}, result))
      BY <1>6 DEF Tell
    <3> QED BY <3>1, <3>2
  <2>4. Good(asks, entries', requests, queued, told')
    <3>1. \A u \in 1 .. asks : u # t => told'[u] = told[u]
      BY <1>2, <2>3
    <3>2. \A u \in DOMAIN held : u \in 1 .. asks /\ u # t /\ u \in DOMAIN entries
      BY <1>1, <2>1 DEF Good, Settled
    <3>3. \A u \in DOMAIN requests : u \in 1 .. asks /\ u # t
      BY <1>1, <2>2 DEF Good, Settled
    <3>4. \A u \in DOMAIN queued : u \in 1 .. asks /\ u # t
      BY <1>1, <2>1 DEF Good, Settled
    <3>5. \A u \in DOMAIN requests : ~requests[u].acked => u \in DOMAIN held
      BY <1>1, <2>1, <2>2 DEF Good, Settled
    <3>6. \A u \in Asks : u > asks => u # t
      BY <1>1, <2>1 DEF Asks
    <3>7. entries' = held
      BY <1>6
    <3>8. \A u \in DOMAIN held :
            /\ held[u].code = "Request" => u \in DOMAIN requests /\ ~requests[u].acked
            /\ held[u].code # "Request" =>
                 u \notin DOMAIN requests /\ told'[u] = <<>> /\ held[u].max = 1
      BY <1>1, <2>1, <3>1, <3>2 DEF Good, Settled
    <3>9. /\ \A u \in DOMAIN requests : ~requests[u].received => told'[u] = <<>>
          /\ \A u \in DOMAIN requests : ~requests[u].acked => held[u].code = "Request"
      BY <1>1, <2>1, <3>1, <3>3, <3>5 DEF Good, Settled
    <3>10. \A u \in DOMAIN queued :
             told'[u] = <<>> /\ u \notin DOMAIN held /\ u \notin DOMAIN requests
      BY <1>1, <2>1, <3>1, <3>4 DEF Good, Settled
    <3>11. \A u \in Asks : u > asks => told'[u] = <<>>
      BY <1>1, <2>3, <3>6 DEF Good, Settled
    <3>12. Settled(asks, held, requests, queued, told')
      BY <1>1, <2>1, <2>3, <3>2, <3>5, <3>8, <3>9, <3>10, <3>11 DEF Good, Settled
    <3> QED BY <1>1, <3>7, <3>12 DEF Good
  <2>5. Promise!Next
    <3> DEFINE results == Telling({t}, result)
    <3>1. FirstAnswers(asks', results) /\ told' = After(results) /\ asks' \in asks .. MaxAsks
      BY <1>1, <2>3
    <3> HIDE DEF results
    <3> QED BY <3>1, AnswersKeepPromise
  <2> QED BY <1>1, <1>6, <2>4, <2>5 DEF IInv
\* In progress: it is not sent again.
<1>7. ASSUME Holding(entries, code) # {}, entries' = [entries EXCEPT ![t].max = 1],
             UNCHANGED <<requests, queued, toVehicle, told, superseded>>
      PROVE  IInv' /\ Promise!Next
  <2>1. t \in DOMAIN entries
    BY <1>4, <1>7
  <2> HIDE DEF t
  <2>2. /\ DOMAIN entries' = DOMAIN entries
        /\ \A u \in DOMAIN entries : entries'[u].code = entries[u].code
        /\ \A u \in DOMAIN entries : entries'[u].max \in {1, entries[u].max}
        /\ entries' \in [DOMAIN entries -> Entry]
    <3>1. \A u \in DOMAIN entries : entries[u] \in Entry
      BY <1>1 DEF Good, Settled
    <3>2. /\ [entries[t] EXCEPT !.max = 1] \in Entry
          /\ [entries[t] EXCEPT !.max = 1].code = entries[t].code
          /\ [entries[t] EXCEPT !.max = 1].max = 1
      BY <2>1, <3>1, ConstantsAssumption DEF Entry
    <3>3. \A u \in DOMAIN entries :
            entries'[u] = IF u = t THEN [entries[t] EXCEPT !.max = 1] ELSE entries[u]
      BY <1>7
    <3>4. DOMAIN entries' = DOMAIN entries
          /\ entries' = [u \in DOMAIN entries |-> entries'[u]]
      BY <1>7
    <3> QED BY <3>1, <3>2, <3>3, <3>4
  <2>3. Good(asks, entries', requests, queued, told)
    BY <1>1, <2>2 DEF Good, Settled
  <2>4. Promise!Next
    BY <1>1, <1>7, SilenceKeepsPromise
  <2> QED BY <1>1, <1>7, <2>3, <2>4 DEF IInv
\* The ack of the request under way.
<1>8. ASSUME Holding(entries, code) # {}, code = "Request", result # "InProgress",
             RequestAcked(t, result, held), UNCHANGED superseded
      PROVE  IInv' /\ Promise!Next
  <2> DEFINE left == Without(requests, {t})
  <2>1. /\ t \in DOMAIN entries /\ entries[t].code = code
        /\ t \in 1 .. asks /\ t \notin DOMAIN queued
        /\ DOMAIN held = DOMAIN entries \ {t} /\ held \in [DOMAIN held -> Entry]
        /\ \A u \in DOMAIN held : held[u] = entries[u]
    BY <1>4, <1>8
  <2> HIDE DEF t, held
  <2>2. /\ t \in DOMAIN requests /\ ~requests[t].acked
        /\ \A u \in DOMAIN requests : u = t
    BY <1>1, <1>8, <2>1 DEF Good, Settled
  <2>3. \A u \in DOMAIN held : entries[u].code # "Request" /\ u \in 1 .. asks
    BY <1>1, <2>1, <2>2 DEF Good, Settled
  <2>4. DOMAIN left = {} /\ left \in [DOMAIN left -> Request]
    BY <2>2 DEF Without
  <2>5. ASSUME NEW results, Continue(held, left, results),
               FirstAnswers(asks, results), DOMAIN results \subseteq {t}
        PROVE  IInv' /\ Promise!Next
    <3>1. /\ After(results) \in [Asks -> Seq(Outcomes)]
          /\ \A u \in Asks : u # t => After(results)[u] = told[u]
      BY <1>1, <1>2, <2>5, AfterFirst
    <3>2. Settled(asks, held, left, queued, After(results))
      <4> HIDE DEF left
      <4> QED BY <1>1, <1>2, <2>1, <2>3, <2>4, <3>1 DEF Good, Settled
    <3>3. /\ Good(asks, entries', requests', queued', told') /\ told' = After(results)
          /\ toVehicle' \in Seq(VehicleMessage)
      BY <1>1, <2>5, <3>2, ContinueIsGood DEF IInv
    <3>4. Promise!Next
      BY <1>1, <2>5, <3>3, AnswersKeepPromise
    <3> QED BY <1>1, <1>8, <3>3, <3>4 DEF IInv
  <2>6. CASE requests[t].received /\ Continue(held, left, Nothing)
    BY <2>5, <2>6, <1>2, NobodyAnswered
  <2>7. CASE ~requests[t].received /\ Continue(held, left, Telling({t}, result))
    <3>1. told[t] = <<>>
      BY <1>1, <2>2, <2>7 DEF Good, Settled
    <3>2. FirstAnswers(asks, Telling({t}, result)) /\ DOMAIN Telling({t}, result) = {t}
      BY <1>5, <1>8, <3>1 DEF t
    <3> QED BY <2>5, <2>7, <3>2
  <2>8. ASSUME ~requests[t].received, entries' = held,
               requests' = [requests EXCEPT ![t].acked = TRUE],
               UNCHANGED <<queued, toVehicle, told>>
        PROVE  IInv' /\ Promise!Next
    <3>1. requests[t] \in Request
      BY <1>1, <2>2 DEF Good, Settled
    <3>2. /\ [requests[t] EXCEPT !.acked = TRUE] \in Request
          /\ [requests[t] EXCEPT !.acked = TRUE].acked
          /\ ~[requests[t] EXCEPT !.acked = TRUE].received
      BY <2>8, <3>1 DEF Request
    <3>3. DOMAIN requests' = {t} /\ requests'[t] = [requests[t] EXCEPT !.acked = TRUE]
          /\ requests' = [u \in {t} |-> requests'[u]]
      BY <2>2, <2>8
    <3>4. /\ requests'[t].acked /\ ~requests'[t].received
          /\ requests' \in [DOMAIN requests' -> Request]
      BY <3>2, <3>3
    <3>5. told[t] = <<>>
      BY <1>1, <2>2, <2>8 DEF Good, Settled
    <3>6. Good(asks, entries', requests', queued, told)
      BY <1>1, <2>1, <2>2, <2>3, <2>8, <3>3, <3>4, <3>5 DEF Good, Settled
    <3>7. Promise!Next
      BY <1>1, <2>8, SilenceKeepsPromise
    <3> QED BY <1>1, <1>8, <2>8, <3>6, <3>7 DEF IInv
  <2> QED BY <1>8, <2>2, <2>6, <2>7, <2>8 DEF RequestAcked
<1>9. CASE Holding(entries, code) = {} \/ Swallowed(code)
  BY <1>3, <1>9 DEF OnAck, coordinator, IInv
<1>10. CASE Holding(entries, code) # {} /\ ~Swallowed(code)
  <2> HIDE DEF t, held
  <2>1. CASE result = "InProgress" /\ Px4 /\ code = "Autotune"
    BY <1>6, <1>10, <2>1 DEF OnAck, t, held
  <2>2. CASE result = "InProgress" /\ ~(Px4 /\ code = "Autotune")
    BY <1>7, <1>10, <2>2 DEF OnAck, t, held
  <2>3. CASE result # "InProgress" /\ code # "Request"
    BY <1>6, <1>10, <2>3 DEF OnAck, t, held
  <2>4. CASE result # "InProgress" /\ code = "Request"
    BY <1>8, <1>10, <2>4 DEF OnAck, t, held
  <2> QED BY <2>1, <2>2, <2>3, <2>4
<1> QED BY <1>9, <1>10

LEMMA StationReceiveStep == IInv /\ StationReceive => IInv' /\ Promise!Next
<1> SUFFICES ASSUME IInv, StationReceive PROVE IInv' /\ Promise!Next
  OBVIOUS
<1> DEFINE m == Head(toStation)
<1>1. toStation \in Seq(StationMessage) /\ toStation # <<>>
  BY DEF IInv, StationReceive
<1>2. m \in StationMessage /\ toStation' \in Seq(StationMessage)
  BY <1>1, HeadTailProperties DEF StationReceive
<1>3. asks' = asks /\ UNCHANGED <<stops, outside>>
  BY DEF StationReceive, counters
<1>4. CASE m.type = "Message" /\ OnMessage(m.message)
  BY <1>2, <1>3, <1>4, OnMessageStep
<1>5. CASE m.type = "Ack" /\ OnAck(m.code, m.result)
  <2>1. m.code \in Codes /\ m.result \in AckResults
    BY <1>2, <1>5 DEF StationMessage
  <2> QED BY <1>2, <1>3, <1>5, <2>1, OnAckStep
<1> QED BY <1>4, <1>5 DEF StationReceive

LEMMA VehicleReceiveStep == IInv /\ VehicleReceive => IInv' /\ Promise!Next
<1> SUFFICES ASSUME IInv, VehicleReceive PROVE IInv' /\ Promise!Next
  OBVIOUS
<1> DEFINE m == Head(toVehicle)
<1>1. /\ m \in VehicleMessage /\ toVehicle' \in Seq(VehicleMessage)
  BY HeadTailProperties DEF IInv, VehicleReceive
<1>2. PICK reply \in Replies(m) :
        toStation' \in {toStation \o arriving : arriving \in Arriving(reply)}
  BY DEF VehicleReceive
<1>3. m.tag \in 0 .. MaxAsks /\ m.code \in Codes /\ m.message \in Messages \cup {NoMessage}
  BY <1>1 DEF VehicleMessage
<1>4. \A result \in AckResults :
        [type |-> "Ack", tag |-> m.tag, code |-> m.code, result |-> result] \in StationMessage
  BY <1>3 DEF StationMessage
<1>5. [type |-> "Message", message |-> m.message] \in StationMessage
  BY <1>3 DEF StationMessage
<1>6. reply \in Seq(StationMessage)
  <2>1. /\ "Accepted" \in AckResults /\ "Denied" \in AckResults /\ "InProgress" \in AckResults
    BY DEF AckResults
  <2>2. m.code \in {"Arm", "Interval", "Autotune", "Request"}
    BY <1>3 DEF Codes
  <2> DEFINE a(result) == [type |-> "Ack", tag |-> m.tag, code |-> m.code, result |-> result]
             g == [type |-> "Message", message |-> m.message]
  <2>3. reply \in {<<a("Accepted")>>, <<a("Denied")>>, <<a("InProgress")>>,
                   <<a("InProgress"), a("Accepted")>>, <<a("InProgress"), a("Denied")>>,
                   <<a("Accepted"), g>>, <<g, a("Accepted")>>}
    BY <2>2 DEF Replies
  <2>4. /\ a("Accepted") \in StationMessage /\ a("Denied") \in StationMessage
        /\ a("InProgress") \in StationMessage /\ g \in StationMessage
    BY <1>4, <1>5, <2>1
  <2>5. \A x, y \in StationMessage :
          <<x>> \in Seq(StationMessage) /\ <<x, y>> \in Seq(StationMessage)
    OBVIOUS
  <2> HIDE DEF a, g
  <2> QED BY <2>3, <2>4, <2>5
<1>7. \A arriving \in Arriving(reply) : arriving \in Seq(StationMessage)
  <2>1. \A i \in DOMAIN reply : reply[i] \in StationMessage
    BY <1>6, ElementOfSeq, LenProperties
  <2>2. \A x \in StationMessage : <<x>> \in Seq(StationMessage)
    OBVIOUS
  <2>3. <<>> \in Seq(StationMessage)
    OBVIOUS
  <2> QED BY <1>6, <2>1, <2>2, <2>3 DEF Arriving
<1>8. toStation' \in Seq(StationMessage)
  BY <1>2, <1>7, ConcatProperties DEF IInv
<1>9. UNCHANGED <<asks, stops, outside, entries, requests, queued, superseded, told>>
  BY DEF VehicleReceive, counters, coordinator
<1>10. Promise!Next
  BY <1>9, SilenceKeepsPromise, ConstantsAssumption DEF IInv
<1> QED BY <1>1, <1>8, <1>9, <1>10 DEF IInv

LEMMA NextStep == IInv /\ [Next]_vars => IInv' /\ [Promise!Next]_(Promise!vars)
<1> SUFFICES ASSUME IInv, [Next]_vars PROVE IInv' /\ [Promise!Next]_(Promise!vars)
  OBVIOUS
<1>1. ASSUME NEW t \in Asks, Caller(t) PROVE IInv' /\ Promise!Next
  BY <1>1, SendStep, SendToAllStep, EmergencyStopStep, RequestMessageStep DEF Caller
<1>2. CASE UNCHANGED vars
  <2>1. IInv'
    BY <1>2 DEF vars, counters, coordinator, IInv
  <2>2. UNCHANGED Promise!vars
    BY <1>2 DEF vars, counters, Promise!vars
  <2> QED BY <2>1, <2>2
<1> QED BY <1>1, <1>2, AskOutsideStep, TickStep, StationReceiveStep, VehicleReceiveStep
        DEF Next

LEMMA InitIsGood == Init => IInv /\ Promise!Init
<1> SUFFICES ASSUME Init PROVE IInv /\ Promise!Init
  OBVIOUS
<1>1. told \in [Asks -> Seq(Outcomes)] /\ \A t \in Asks : told[t] = <<>>
  BY DEF Init
<1>2. DOMAIN Nothing = {} /\ \A S : Nothing \in [{} -> S]
  BY DEF Nothing
<1>3. Good(asks, entries, requests, queued, told)
  BY <1>1, <1>2 DEF Init, Good, Settled
<1>4. IInv
  <2>1. <<>> \in Seq(VehicleMessage) /\ <<>> \in Seq(StationMessage)
    OBVIOUS
  <2>2. 0 \in 0 .. MaxAsks /\ 0 \in 0 .. MaxStops /\ 0 \in 0 .. MaxOutside
    BY ConstantsAssumption
  <2>3. /\ asks = 0 /\ stops = 0 /\ outside = 0 /\ superseded = FALSE
        /\ toVehicle = <<>> /\ toStation = <<>>
    BY DEF Init
  <2> QED BY <1>3, <2>1, <2>2, <2>3 DEF IInv
<1>5. Promise!Init
  BY DEF Init, Promise!Init
<1> QED BY <1>4, <1>5

-----------------------------------------------------------------------------
(* The theorems.                                                           *)

\* The inductive invariant of the coordinator: an ask sits in one place and has been
\* told nothing there, but for a request whose message came before its ack.
THEOREM InvariantHolds == Spec => []IInv
BY InitIsGood, NextStep, PTL DEF Spec

\* Whatever is asked and answered, only asks that were made are held and no command
\* goes out more often than MAX_RETRY (enqueue, transmit, request_message).
THEOREM TypeCorrect == Spec => []TypeOK
<1>1. IInv => TypeOK
  BY DEF IInv, Good, Settled, TypeOK, Holds
<1> QED BY <1>1, InvariantHolds, PTL

\* A component is asked for one message at a time, and the REQUEST_MESSAGE pending is
\* the one of the request without an ack (request_message, release, send_next).
THEOREM RequestsTakeTurns == Spec => []OneRequestAtATime
<1>1. IInv => OneRequestAtATime
  BY DEF IInv, Good, Settled, OneRequestAtATime, Holding
<1> QED BY <1>1, InvariantHolds, PTL

\* Each command and each request is answered at most once, for any number of asks,
\* any network and any answers of the vehicle (on_ack, on_message, tick, resolve).
THEOREM CommandsKeepPromise == Spec => KeepsPromise
BY InitIsGood, NextStep, InvariantHolds, PTL DEF Spec, KeepsPromise, Promise!Spec

-----------------------------------------------------------------------------
(* Who is answered, while nothing is lost, late, or sent past the          *)
(* coordinator, and no stop gives way to another.  An ack names a command  *)
(* and not an ask; what tells asks apart is the order.  The commands on    *)
(* their way to the vehicle and the acks on their way back make one line   *)
(* per code, in the order they were asked.  Each is of a pending entry, or *)
(* of the one arm that a stop superseded, and only an autotune that is in  *)
(* progress is pending with nothing on its way.                            *)

Calm == ~Px4 /\ MaxOutside = 0 /\ ~Lossy /\ Prompt /\ MaxStops <= 1

\* The acks of ts that end a command.
Finals(ts) == {i \in DOMAIN ts : ts[i].type = "Ack" /\ ts[i].result # "InProgress"}

InTurn(ts, tv) ==
  /\ \A i, j \in Finals(ts) : i < j /\ ts[i].code = ts[j].code => ts[i].tag < ts[j].tag
  /\ \A i, j \in DOMAIN tv : i < j /\ tv[i].code = tv[j].code => tv[i].tag < tv[j].tag
  /\ \A i \in Finals(ts), j \in DOMAIN tv : ts[i].code = tv[j].code => ts[i].tag < tv[j].tag
  /\ \A i \in DOMAIN ts : ts[i].type = "Ack" /\ ts[i].code = "Arm" => i \in Finals(ts)

OnTheWay(ts, tv) ==
  {<<ts[i].tag, ts[i].code>> : i \in Finals(ts)} \cup {<<tv[j].tag, tv[j].code>> : j \in DOMAIN tv}

\* Of n asks, es are the entries, q is queued, sup says that an arm was superseded.
Gone(es, way) == {p \in way : p[1] \notin DOMAIN es}

Lined(n, es, q, sup, way) ==
  /\ \A p \in way : p = <<p[1], p[2]>> /\ p[1] \in 1 .. n /\ p[1] \notin q
  /\ \A p \in way : p[1] \in DOMAIN es => es[p[1]].code = p[2]
  /\ \A p \in Gone(es, way) : p[2] = "Arm" /\ sup
  /\ sup => Gone(es, way) # {}
  /\ \A p, r \in Gone(es, way) : p = r
  /\ \A p \in Gone(es, way) : \A t \in Holding(es, "Arm") : p[1] < t
  /\ \A t \in DOMAIN es : es[t].code # "Autotune" => <<t, es[t].code>> \in way
  /\ \A code \in {"Arm", "Autotune"} : \A t, u \in Holding(es, code) : t = u

Line(n, es, q, sup, ts, tv) == InTurn(ts, tv) /\ Lined(n, es, q, sup, OnTheWay(ts, tv))

\* What those in pending and those heard have not been told, and who is told an answer.
Heard(n, pending, tl, hd) ==
  /\ \A a \in hd : a[1] \in 1 .. n /\ a[1] \notin pending /\ tl[a[1]] # <<"NoResponse">>
  /\ \A t \in pending : tl[t] # <<"NoResponse">>
  /\ \A t \in Asks : \A result \in {"Accepted", "Denied"} :
       tl[t] = <<result>> => <<t, result>> \in hd

Own ==
  /\ Line(asks, entries, DOMAIN queued, superseded, toStation, toVehicle)
  /\ Heard(asks, DOMAIN entries \cup DOMAIN queued, told, heard)
  /\ stops = 0 => ~superseded

\* The ask with the least number is the first.
LEMMA FirstIsLeast ==
  ASSUME NEW set \in SUBSET Nat, NEW g \in set, \A u \in set : g <= u
  PROVE  First(set) = g
<1>1. First(set) \in set /\ \A u \in set : First(set) <= u
  BY DEF First
<1>2. First(set) \in Nat /\ g \in Nat /\ First(set) <= g /\ g <= First(set)
  BY <1>1
<1> QED BY <1>2

\* What is sent takes its place at the end of the line.
LEMMA SentInTurn ==
  ASSUME NEW ts \in Seq(StationMessage), NEW tv \in Seq(VehicleMessage),
         NEW x \in VehicleMessage, InTurn(ts, tv),
         \A p \in OnTheWay(ts, tv) : p[2] = x.code => p[1] < x.tag
  PROVE  /\ InTurn(ts, Append(tv, x))
         /\ OnTheWay(ts, Append(tv, x)) = OnTheWay(ts, tv) \cup {<<x.tag, x.code>>}
<1> DEFINE tw == Append(tv, x)
           n == Len(tv)
<1>1. /\ n \in Nat /\ DOMAIN tv = 1 .. n /\ DOMAIN tw = 1 .. (n + 1)
      /\ tw[n + 1] = x /\ \A j \in 1 .. n : tw[j] = tv[j]
  BY AppendProperties, LenProperties
<1> HIDE DEF tw, n
<1>2. \A j \in DOMAIN tw : (j \in DOMAIN tv /\ tw[j] = tv[j]) \/ (j = n + 1 /\ tw[j] = x)
  BY <1>1
<1>3. /\ \A i \in Finals(ts) : ts[i].code = x.code => ts[i].tag < x.tag
      /\ \A j \in DOMAIN tv : tv[j].code = x.code => tv[j].tag < x.tag
  <2>1. /\ \A i \in Finals(ts) : <<ts[i].tag, ts[i].code>> \in OnTheWay(ts, tv)
        /\ \A j \in DOMAIN tv : <<tv[j].tag, tv[j].code>> \in OnTheWay(ts, tv)
    BY DEF OnTheWay
  <2>2. \A tag, code : <<tag, code>>[1] = tag /\ <<tag, code>>[2] = code
    OBVIOUS
  <2> QED BY <2>1, <2>2
<1>4. \A i, j \in DOMAIN tw : i < j /\ tw[i].code = tw[j].code => tw[i].tag < tw[j].tag
  <2> SUFFICES ASSUME NEW i \in DOMAIN tw, NEW j \in DOMAIN tw, i < j, tw[i].code = tw[j].code
               PROVE  tw[i].tag < tw[j].tag
    OBVIOUS
  <2>1. i \in DOMAIN tv /\ tw[i] = tv[i]
    BY <1>1
  <2>2. CASE j \in DOMAIN tv /\ tw[j] = tv[j]
    BY <2>1, <2>2 DEF InTurn
  <2>3. CASE tw[j] = x
    BY <2>1, <2>3, <1>3
  <2> QED BY <1>2, <2>2, <2>3
<1>5. \A i \in Finals(ts), j \in DOMAIN tw : ts[i].code = tw[j].code => ts[i].tag < tw[j].tag
  BY <1>2, <1>3 DEF InTurn
<1>6. {<<tw[j].tag, tw[j].code>> : j \in DOMAIN tw}
        = {<<tv[j].tag, tv[j].code>> : j \in DOMAIN tv} \cup {<<x.tag, x.code>>}
  <2>1. n + 1 \in DOMAIN tw /\ \A j \in DOMAIN tv : j \in DOMAIN tw /\ tw[j] = tv[j]
    BY <1>1
  <2> QED BY <1>1, <1>2, <2>1
<1>7. InTurn(ts, tw)
  BY <1>4, <1>5 DEF InTurn
<1>8. OnTheWay(ts, tw) = OnTheWay(ts, tv) \cup {<<x.tag, x.code>>}
  BY <1>6 DEF OnTheWay
<1> QED BY <1>7, <1>8 DEF tw

\* An ack that arrives was the first of its line, or ends nothing.
LEMMA ArrivedInTurn ==
  ASSUME NEW ts \in Seq(StationMessage), NEW tv \in Seq(VehicleMessage),
         InTurn(ts, tv), ts # <<>>, NEW m, m = Head(ts)
  PROVE  /\ InTurn(Tail(ts), tv)
         /\ ~(m.type = "Ack" /\ m.result # "InProgress") =>
              OnTheWay(Tail(ts), tv) = OnTheWay(ts, tv)
         /\ m.type = "Ack" /\ m.code = "Arm" => m.result # "InProgress"
         /\ m.type = "Ack" /\ m.result # "InProgress" =>
              /\ <<m.tag, m.code>> \notin OnTheWay(Tail(ts), tv)
              /\ OnTheWay(ts, tv) = OnTheWay(Tail(ts), tv) \cup {<<m.tag, m.code>>}
              /\ \A p \in OnTheWay(Tail(ts), tv) : p[2] = m.code => m.tag < p[1]
<1> DEFINE tr == Tail(ts)
           n == Len(ts)
<1>1. /\ n \in Nat /\ n >= 1 /\ DOMAIN ts = 1 .. n /\ DOMAIN tr = 1 .. (n - 1)
      /\ \A i \in 1 .. (n - 1) : tr[i] = ts[i + 1]
      /\ m = ts[1] /\ m \in StationMessage
  BY HeadTailProperties, EmptySeq, LenProperties
<1> HIDE DEF tr, n
<1>2. /\ 1 \in DOMAIN ts
      /\ \A i \in DOMAIN tr : i + 1 \in DOMAIN ts /\ 1 < i + 1 /\ tr[i] = ts[i + 1] /\ i \in Nat
      /\ \A i \in DOMAIN ts : i # 1 => i - 1 \in DOMAIN tr /\ tr[i - 1] = ts[i]
  BY <1>1
<1>3. /\ \A i \in Finals(tr) : i + 1 \in Finals(ts) /\ 1 < i + 1 /\ tr[i] = ts[i + 1]
      /\ \A i \in Finals(ts) : i # 1 => i - 1 \in Finals(tr) /\ tr[i - 1] = ts[i]
      /\ 1 \in Finals(ts) <=> m.type = "Ack" /\ m.result # "InProgress"
  BY <1>1, <1>2 DEF Finals
<1>4. InTurn(tr, tv)
  <2>1. \A i, j \in Finals(tr) : i < j /\ tr[i].code = tr[j].code => tr[i].tag < tr[j].tag
    <3> TAKE i, j \in Finals(tr)
    <3>1. i < j => i + 1 < j + 1
      BY <1>2 DEF Finals
    <3> QED BY <1>3, <3>1 DEF InTurn
  <2>2. \A i \in Finals(tr), j \in DOMAIN tv : tr[i].code = tv[j].code => tr[i].tag < tv[j].tag
    BY <1>3 DEF InTurn
  <2>3. \A i \in DOMAIN tr : tr[i].type = "Ack" /\ tr[i].code = "Arm" => i \in Finals(tr)
    BY <1>2 DEF InTurn, Finals
  <2> QED BY <2>1, <2>2, <2>3 DEF InTurn
<1>5. m.type = "Ack" /\ m.code = "Arm" => m.result # "InProgress"
  BY <1>1, <1>2 DEF InTurn, Finals
<1>6. {<<ts[i].tag, ts[i].code>> : i \in Finals(ts) \ {1}}
        = {<<tr[i].tag, tr[i].code>> : i \in Finals(tr)}
  <2>1. \A i \in Finals(tr) : i + 1 \in Finals(ts) \ {1} /\ tr[i] = ts[i + 1]
    BY <1>3
  <2> QED BY <1>3, <2>1
<1>7. ASSUME ~(m.type = "Ack" /\ m.result # "InProgress")
      PROVE  OnTheWay(tr, tv) = OnTheWay(ts, tv)
  BY <1>3, <1>6, <1>7 DEF OnTheWay
<1>8. ASSUME m.type = "Ack", m.result # "InProgress"
      PROVE  /\ OnTheWay(ts, tv) = OnTheWay(tr, tv) \cup {<<m.tag, m.code>>}
             /\ \A p \in OnTheWay(tr, tv) : p[2] = m.code => m.tag < p[1]
             /\ <<m.tag, m.code>> \notin OnTheWay(tr, tv)
  <2>1. 1 \in Finals(ts) /\ ts[1] = m
    BY <1>1, <1>3, <1>8
  <2>2. {<<ts[i].tag, ts[i].code>> : i \in Finals(ts)}
          = {<<tr[i].tag, tr[i].code>> : i \in Finals(tr)} \cup {<<m.tag, m.code>>}
    BY <1>6, <2>1
  <2>3. \A i \in Finals(tr) : tr[i].code = m.code => m.tag < tr[i].tag
    BY <1>3, <2>1 DEF InTurn
  <2>4. \A j \in DOMAIN tv : tv[j].code = m.code => m.tag < tv[j].tag
    BY <2>1 DEF InTurn
  <2>5. \A p \in OnTheWay(tr, tv) : p[2] = m.code => m.tag < p[1]
    BY <2>3, <2>4 DEF OnTheWay
  <2>6. m.tag \in Int
    BY <1>1, <1>8, ConstantsAssumption DEF StationMessage
  <2>7. <<m.tag, m.code>> \notin OnTheWay(tr, tv)
    BY <2>5, <2>6
  <2> QED BY <2>2, <2>5, <2>7 DEF OnTheWay
<1> QED BY <1>4, <1>5, <1>7, <1>8 DEF tr

\* The vehicle's answer: of the command it got, at most one ack ends it, and one does
\* but for an autotune.
LEMMA AnswersEndOnce ==
  ASSUME NEW m \in VehicleMessage, NEW reply \in Replies(m)
  PROVE  /\ reply \in Seq(StationMessage)
         /\ \A i \in DOMAIN reply :
              reply[i].type = "Ack" => reply[i].tag = m.tag /\ reply[i].code = m.code
         /\ \A i, j \in Finals(reply) : i = j
         /\ m.code # "Autotune" => Finals(reply) # {}
         /\ m.code = "Arm" => Finals(reply) = DOMAIN reply
<1> DEFINE a(result) == [type |-> "Ack", tag |-> m.tag, code |-> m.code, result |-> result]
           g == [type |-> "Message", message |-> m.message]
<1>1. m.tag \in 0 .. MaxAsks /\ m.code \in Codes /\ m.message \in Messages \cup {NoMessage}
  BY DEF VehicleMessage
<1>2. /\ \A result \in AckResults : a(result) \in StationMessage
      /\ g \in StationMessage
  BY <1>1 DEF StationMessage
<1>3. {"Accepted", "Denied", "InProgress"} \subseteq AckResults
  BY DEF AckResults
<1>4. \A x \in StationMessage :
        <<x>> \in Seq(StationMessage) /\ DOMAIN <<x>> = {1} /\ <<x>>[1] = x
  OBVIOUS
<1>5. \A x, y \in StationMessage :
        /\ <<x, y>> \in Seq(StationMessage) /\ DOMAIN <<x, y>> = {1, 2}
        /\ <<x, y>>[1] = x /\ <<x, y>>[2] = y
  OBVIOUS
<1>6. /\ \A result : /\ a(result).type = "Ack" /\ a(result).tag = m.tag
                     /\ a(result).code = m.code /\ a(result).result = result
      /\ g.type = "Message"
  OBVIOUS
<1>7. CASE m.code \in {"Arm", "Interval"}
  <2>1. PICK result \in {"Accepted", "Denied"} : reply = <<a(result)>>
    BY <1>7 DEF Replies
  <2>2. a(result) \in StationMessage
    BY <1>2, <1>3
  <2> HIDE DEF a
  <2>3. reply \in Seq(StationMessage) /\ DOMAIN reply = {1} /\ reply[1] = a(result)
    BY <2>1, <2>2, <1>4
  <2>4. Finals(reply) = {1}
    BY <1>6, <2>3 DEF Finals
  <2> QED BY <1>6, <2>3, <2>4
<1>8. CASE m.code = "Autotune"
  <2>1. \/ \E result \in {"InProgress", "Denied"} : reply = <<a(result)>>
        \/ reply = <<a("InProgress"), a("Accepted")>>
    BY <1>8 DEF Replies
  <2>2. a("InProgress") \in StationMessage /\ a("Accepted") \in StationMessage
        /\ a("Denied") \in StationMessage
    BY <1>2, <1>3
  <2> HIDE DEF a
  <2>3. CASE \E result \in {"InProgress", "Denied"} : reply = <<a(result)>>
    <3>1. PICK result \in {"InProgress", "Denied"} : reply = <<a(result)>>
      BY <2>3
    <3>2. reply \in Seq(StationMessage) /\ DOMAIN reply = {1} /\ reply[1] = a(result)
      BY <2>2, <3>1, <1>4
    <3> QED BY <1>6, <1>8, <3>2 DEF Finals
  <2>4. CASE reply = <<a("InProgress"), a("Accepted")>>
    <3>1. /\ reply \in Seq(StationMessage) /\ DOMAIN reply = {1, 2}
          /\ reply[1] = a("InProgress") /\ reply[2] = a("Accepted")
      BY <2>2, <2>4, <1>5
    <3>2. Finals(reply) = {2}
      BY <1>6, <3>1 DEF Finals
    <3> QED BY <1>6, <1>8, <3>1, <3>2
  <2> QED BY <2>1, <2>3, <2>4
<1>9. CASE m.code = "Request"
  <2>1. \/ reply = <<a("InProgress"), a("Denied")>> \/ reply = <<a("Accepted")>>
        \/ reply = <<a("Accepted"), g>> \/ reply = <<g, a("Accepted")>>
    BY <1>9 DEF Replies
  <2>2. a("InProgress") \in StationMessage /\ a("Accepted") \in StationMessage
        /\ a("Denied") \in StationMessage /\ g \in StationMessage
    BY <1>2, <1>3
  <2> HIDE DEF a, g
  <2>3. CASE reply = <<a("InProgress"), a("Denied")>>
    <3>1. /\ reply \in Seq(StationMessage) /\ DOMAIN reply = {1, 2}
          /\ reply[1] = a("InProgress") /\ reply[2] = a("Denied")
      BY <2>2, <2>3, <1>5
    <3>2. Finals(reply) = {2}
      BY <1>6, <3>1 DEF Finals
    <3> QED BY <1>6, <1>9, <3>1, <3>2
  <2>4. CASE reply = <<a("Accepted")>>
    <3>1. reply \in Seq(StationMessage) /\ DOMAIN reply = {1} /\ reply[1] = a("Accepted")
      BY <2>2, <2>4, <1>4
    <3>2. Finals(reply) = {1}
      BY <1>6, <3>1 DEF Finals
    <3> QED BY <1>6, <1>9, <3>1, <3>2
  <2>5. CASE reply = <<a("Accepted"), g>>
    <3>1. /\ reply \in Seq(StationMessage) /\ DOMAIN reply = {1, 2}
          /\ reply[1] = a("Accepted") /\ reply[2] = g
      BY <2>2, <2>5, <1>5
    <3>2. Finals(reply) = {1}
      BY <1>6, <3>1 DEF Finals
    <3> QED BY <1>6, <1>9, <3>1, <3>2
  <2>6. CASE reply = <<g, a("Accepted")>>
    <3>1. /\ reply \in Seq(StationMessage) /\ DOMAIN reply = {1, 2}
          /\ reply[1] = g /\ reply[2] = a("Accepted")
      BY <2>2, <2>6, <1>5
    <3>2. Finals(reply) = {2}
      BY <1>6, <3>1 DEF Finals
    <3> QED BY <1>6, <1>9, <3>1, <3>2
  <2> QED BY <2>1, <2>3, <2>4, <2>5, <2>6
<1> QED BY <1>1, <1>7, <1>8, <1>9 DEF Codes

\* An answered command goes from the head of one half of the line to the end of the
\* other; an autotune in progress leaves the line.
LEMMA AnsweredInTurn ==
  ASSUME NEW ts \in Seq(StationMessage), NEW tv \in Seq(VehicleMessage),
         InTurn(ts, tv), tv # <<>>, NEW m, m = Head(tv), NEW reply \in Replies(m)
  PROVE  /\ InTurn(ts \o reply, Tail(tv))
         /\ OnTheWay(ts \o reply, Tail(tv)) \subseteq OnTheWay(ts, tv)
         /\ \A p \in OnTheWay(ts, tv) :
              p \in OnTheWay(ts \o reply, Tail(tv)) \/ p[2] = "Autotune"
<1> DEFINE tw == Tail(tv)
           tr == ts \o reply
           n == Len(ts)
           k == Len(reply)
           l == Len(tv)
<1>1. /\ l \in Nat /\ l >= 1 /\ DOMAIN tv = 1 .. l /\ DOMAIN tw = 1 .. (l - 1)
      /\ \A j \in 1 .. (l - 1) : tw[j] = tv[j + 1]
      /\ m = tv[1] /\ m \in VehicleMessage
  BY HeadTailProperties, EmptySeq, LenProperties
<1>2. /\ reply \in Seq(StationMessage)
      /\ \A i \in DOMAIN reply :
           reply[i].type = "Ack" => reply[i].tag = m.tag /\ reply[i].code = m.code
      /\ \A i, j \in Finals(reply) : i = j
      /\ m.code # "Autotune" => Finals(reply) # {}
      /\ m.code = "Arm" => Finals(reply) = DOMAIN reply
  BY <1>1, AnswersEndOnce
<1>3. /\ n \in Nat /\ k \in Nat /\ DOMAIN ts = 1 .. n /\ DOMAIN reply = 1 .. k
      /\ DOMAIN tr = 1 .. (n + k)
      /\ \A i \in 1 .. n : tr[i] = ts[i]
      /\ \A i \in 1 .. k : tr[n + i] = reply[i]
  BY <1>2, ConcatProperties, LenProperties
<1> HIDE DEF tw, tr, n, k, l
<1>4. /\ \A i \in DOMAIN ts : i \in DOMAIN tr /\ tr[i] = ts[i]
      /\ \A i \in DOMAIN reply : n + i \in DOMAIN tr /\ tr[n + i] = reply[i]
      /\ \A i \in DOMAIN tr : i \in DOMAIN ts \/ i - n \in DOMAIN reply
      /\ \A i \in DOMAIN tr : i - n \in DOMAIN reply => tr[i] = reply[i - n] /\ i > n
      /\ \A i \in DOMAIN ts : i <= n /\ i \in Nat
      /\ \A i \in DOMAIN tr : i \in Nat
  <2>1. \A i \in 1 .. (n + k) : i \in 1 .. n \/ i - n \in 1 .. k
    BY <1>3
  <2>2. \A i \in 1 .. (n + k) : i - n \in 1 .. k => n + (i - n) = i /\ i > n
    BY <1>3
  <2>3. \A i \in 1 .. k : n + i \in 1 .. (n + k)
    BY <1>3
  <2>4. \A i \in 1 .. n : i \in 1 .. (n + k) /\ i <= n /\ i \in Nat
    BY <1>3
  <2> QED BY <1>3, <2>1, <2>2, <2>3, <2>4
<1>5. /\ \A i \in Finals(ts) : i \in Finals(tr) /\ tr[i] = ts[i]
      /\ \A i \in Finals(reply) : n + i \in Finals(tr) /\ tr[n + i] = reply[i]
      /\ \A i \in Finals(tr) :
           \/ i \in Finals(ts) /\ tr[i] = ts[i] /\ i <= n
           \/ i - n \in Finals(reply) /\ tr[i].tag = m.tag /\ tr[i].code = m.code /\ i > n
      /\ \A i \in Finals(tr) : i \in Nat
  <2>1. \A i \in Finals(ts) : i \in Finals(tr) /\ tr[i] = ts[i]
    BY <1>4 DEF Finals
  <2>2. \A i \in Finals(reply) : n + i \in Finals(tr) /\ tr[n + i] = reply[i]
    BY <1>4 DEF Finals
  <2>3. ASSUME NEW i \in Finals(tr)
        PROVE  \/ i \in Finals(ts) /\ tr[i] = ts[i] /\ i <= n
               \/ i - n \in Finals(reply) /\ tr[i].tag = m.tag /\ tr[i].code = m.code /\ i > n
    <3>1. i \in DOMAIN tr /\ tr[i].type = "Ack" /\ tr[i].result # "InProgress"
      BY DEF Finals
    <3>2. CASE i \in DOMAIN ts
      BY <1>4, <3>1, <3>2 DEF Finals
    <3>3. CASE i - n \in DOMAIN reply
      <4>1. tr[i] = reply[i - n] /\ i > n
        BY <1>4, <3>1, <3>3
      <4> QED BY <1>2, <3>1, <3>3, <4>1 DEF Finals
    <3> QED BY <1>4, <3>1, <3>2, <3>3
  <2>4. \A i \in Finals(tr) : i \in Nat
    BY <1>4 DEF Finals
  <2> QED BY <2>1, <2>2, <2>3, <2>4
<1>6. /\ 1 \in DOMAIN tv
      /\ \A j \in DOMAIN tw : j + 1 \in DOMAIN tv /\ 1 < j + 1 /\ tw[j] = tv[j + 1] /\ j \in Nat
      /\ \A j \in DOMAIN tv : j # 1 => j - 1 \in DOMAIN tw /\ tw[j - 1] = tv[j]
  BY <1>1
<1>7. InTurn(tr, tw)
  <2>1. ASSUME NEW i \in Finals(tr), NEW j \in Finals(tr), i < j, tr[i].code = tr[j].code
        PROVE  tr[i].tag < tr[j].tag
    <3>1. CASE i \in Finals(ts) /\ tr[i] = ts[i] /\ i <= n
      <4>1. CASE j \in Finals(ts) /\ tr[j] = ts[j]
        BY <2>1, <3>1, <4>1 DEF InTurn
      <4>2. CASE tr[j].tag = m.tag /\ tr[j].code = m.code
        <5>1. ts[i].code = tv[1].code
          BY <1>1, <2>1, <3>1, <4>2
        <5>2. ts[i].tag < tv[1].tag
          BY <1>6, <3>1, <5>1 DEF InTurn
        <5> QED BY <1>1, <3>1, <4>2, <5>2
      <4> QED BY <1>5, <4>1, <4>2
    <3>2. CASE i - n \in Finals(reply) /\ i > n
      <4>1. i \in Nat /\ j \in Nat
        BY <1>5
      <4>2. j - n \in Finals(reply)
        BY <1>3, <1>5, <2>1, <3>2, <4>1
      <4>3. i - n = j - n
        BY <1>2, <3>2, <4>2
      <4> QED BY <1>3, <2>1, <4>1, <4>3
    <3> QED BY <1>5, <3>1, <3>2
  <2>2. ASSUME NEW i \in DOMAIN tw, NEW j \in DOMAIN tw, i < j, tw[i].code = tw[j].code
        PROVE  tw[i].tag < tw[j].tag
    <3>1. i + 1 < j + 1
      BY <1>6, <2>2
    <3> QED BY <1>6, <2>2, <3>1 DEF InTurn
  <2>3. ASSUME NEW i \in Finals(tr), NEW j \in DOMAIN tw, tr[i].code = tw[j].code
        PROVE  tr[i].tag < tw[j].tag
    <3>1. CASE i \in Finals(ts) /\ tr[i] = ts[i]
      BY <1>6, <2>3, <3>1 DEF InTurn
    <3>2. CASE tr[i].tag = m.tag /\ tr[i].code = m.code
      <4>1. tv[1].code = tv[j + 1].code /\ 1 < j + 1
        BY <1>1, <1>6, <2>3, <3>2
      <4>2. tv[1].tag < tv[j + 1].tag
        BY <1>6, <4>1 DEF InTurn
      <4> QED BY <1>1, <1>6, <3>2, <4>2
    <3> QED BY <1>5, <3>1, <3>2
  <2>4. ASSUME NEW i \in DOMAIN tr, tr[i].type = "Ack", tr[i].code = "Arm"
        PROVE  i \in Finals(tr)
    <3>1. CASE i \in DOMAIN ts
      <4>1. i \in Finals(ts)
        BY <1>4, <2>4, <3>1 DEF InTurn
      <4> QED BY <1>5, <4>1
    <3>2. CASE i - n \in DOMAIN reply
      <4>1. tr[i] = reply[i - n]
        BY <1>4, <3>2
      <4>2. i - n \in Finals(reply)
        BY <1>2, <2>4, <3>2, <4>1
      <4> QED BY <2>4, <4>1, <4>2 DEF Finals
    <3> QED BY <1>4, <3>1, <3>2
  <2> QED BY <2>1, <2>2, <2>3, <2>4 DEF InTurn
<1>8. OnTheWay(tr, tw) \subseteq OnTheWay(ts, tv)
  <2>1. /\ \A i \in Finals(ts) : <<ts[i].tag, ts[i].code>> \in OnTheWay(ts, tv)
        /\ \A j \in DOMAIN tv : <<tv[j].tag, tv[j].code>> \in OnTheWay(ts, tv)
    BY DEF OnTheWay
  <2>2. <<m.tag, m.code>> \in OnTheWay(ts, tv)
    BY <1>1, <1>6, <2>1
  <2>3. \A i \in Finals(tr) : <<tr[i].tag, tr[i].code>> \in OnTheWay(ts, tv)
    BY <1>5, <2>1, <2>2
  <2>4. \A j \in DOMAIN tw : <<tw[j].tag, tw[j].code>> \in OnTheWay(ts, tv)
    BY <1>6, <2>1
  <2> QED BY <2>3, <2>4 DEF OnTheWay
<1>9. ASSUME NEW p \in OnTheWay(ts, tv) PROVE p \in OnTheWay(tr, tw) \/ p[2] = "Autotune"
  <2>1. /\ \A i \in Finals(tr) : <<tr[i].tag, tr[i].code>> \in OnTheWay(tr, tw)
        /\ \A j \in DOMAIN tw : <<tw[j].tag, tw[j].code>> \in OnTheWay(tr, tw)
    BY DEF OnTheWay
  <2>2. CASE \E i \in Finals(ts) : p = <<ts[i].tag, ts[i].code>>
    <3>1. PICK i \in Finals(ts) : p = <<ts[i].tag, ts[i].code>>
      BY <2>2
    <3>2. i \in Finals(tr) /\ tr[i] = ts[i]
      BY <1>5
    <3>3. <<tr[i].tag, tr[i].code>> \in OnTheWay(tr, tw)
      BY <2>1, <3>2
    <3> QED BY <3>1, <3>2, <3>3
  <2>3. ASSUME NEW j \in DOMAIN tv, p = <<tv[j].tag, tv[j].code>>
        PROVE  p \in OnTheWay(tr, tw) \/ p[2] = "Autotune"
    <3>1. CASE j # 1
      BY <1>6, <2>1, <2>3, <3>1
    <3>2. CASE j = 1 /\ m.code # "Autotune"
      <4>1. PICK i \in Finals(reply) : TRUE
        BY <1>2, <3>2
      <4>2. reply[i].tag = m.tag /\ reply[i].code = m.code
        BY <1>2 DEF Finals
      <4> QED BY <1>1, <1>5, <2>1, <2>3, <3>2, <4>1, <4>2
    <3>3. CASE j = 1 /\ m.code = "Autotune"
      BY <1>1, <2>3, <3>3
    <3> QED BY <3>1, <3>2, <3>3
  <2> QED BY <2>2, <2>3 DEF OnTheWay
<1> QED BY <1>7, <1>8, <1>9 DEF tr, tw

-----------------------------------------------------------------------------
(* What a step does to the line.                                           *)

\* A command is sent, newer than those of its code on their way.
LEMMA SentInLine ==
  ASSUME ~Lossy, NEW n \in Nat, NEW k \in Nat, n <= k, NEW es, NEW q, NEW q2 \in SUBSET q,
         NEW sup, NEW ts \in Seq(StationMessage), toVehicle \in Seq(VehicleMessage),
         Line(n, es, q, sup, ts, toVehicle),
         NEW t \in 1 .. k, t \in 0 .. MaxAsks, NEW code \in Codes,
         NEW message \in Messages \cup {NoMessage},
         ToVehicle(t, code, message), t \notin DOMAIN es, t \notin q2,
         \A p \in OnTheWay(ts, toVehicle) : p[1] # t /\ (p[2] = code => p[1] < t),
         code \in {"Arm", "Autotune"} => Holding(es, code) = {}
  PROVE  Line(k, Added(es, t, NewEntry(code)), q2, sup, ts, toVehicle')
<1> DEFINE x == [tag |-> t, code |-> code, message |-> message]
           way == OnTheWay(ts, toVehicle)
           es2 == Added(es, t, NewEntry(code))
           way2 == way \cup {<<t, code>>}
<1>1. x \in VehicleMessage /\ x.tag = t /\ x.code = code
  BY DEF VehicleMessage
<1>2. toVehicle' = Append(toVehicle, x)
  BY DEF ToVehicle
<1>3. InTurn(ts, toVehicle') /\ OnTheWay(ts, toVehicle') = way2
  <2>1. InTurn(ts, toVehicle) /\ \A p \in OnTheWay(ts, toVehicle) : p[2] = x.code => p[1] < x.tag
    BY <1>1 DEF Line
  <2> HIDE DEF x
  <2> QED BY <1>1, <1>2, <2>1, SentInTurn
<1>4. /\ DOMAIN es2 = DOMAIN es \cup {t} /\ es2[t].code = code
      /\ \A u \in DOMAIN es : es2[u] = es[u]
  BY DEF Added, NewEntry
<1>5. Lined(n, es, q, sup, way)
  BY DEF Line
<1> HIDE DEF es2, way, x
<1>6. Gone(es2, way2) = Gone(es, way)
  <2>1. \A p \in way : p[1] \in DOMAIN es2 <=> p[1] \in DOMAIN es
    BY <1>4 DEF way
  <2>2. <<t, code>>[1] \in DOMAIN es2
    BY <1>4
  <2> QED BY <2>1, <2>2 DEF Gone
<1>7. Lined(k, es2, q2, sup, way2)
  <2>1. \A p \in way2 : p = <<p[1], p[2]>> /\ p[1] \in 1 .. k /\ p[1] \notin q2
    <3>1. \A u \in 1 .. n : u \in 1 .. k
      OBVIOUS
    <3>2. \A p \in way : p = <<p[1], p[2]>> /\ p[1] \in 1 .. n /\ p[1] \notin q
      BY <1>5 DEF Lined
    <3> QED BY <3>1, <3>2
  <2>2. \A p \in way2 : p[1] \in DOMAIN es2 => es2[p[1]].code = p[2]
    <3>1. \A p \in way : p[1] \in DOMAIN es2 => p[1] \in DOMAIN es
      BY <1>4 DEF way
    <3>2. \A p \in way : p[1] \in DOMAIN es2 => es2[p[1]].code = p[2]
      BY <1>4, <1>5, <3>1 DEF Lined
    <3> QED BY <1>4, <3>2
  <2>3. /\ \A p \in Gone(es2, way2) : p[2] = "Arm" /\ sup
        /\ sup => Gone(es2, way2) # {}
        /\ \A p, r \in Gone(es2, way2) : p = r
    BY <1>5, <1>6 DEF Lined
  <2>4. \A p \in Gone(es2, way2) : \A u \in Holding(es2, "Arm") : p[1] < u
    <3> SUFFICES ASSUME NEW p \in Gone(es, way), NEW u \in Holding(es2, "Arm") PROVE p[1] < u
      BY <1>6
    <3>1. p \in way /\ p[2] = "Arm"
      BY <1>5 DEF Lined, Gone
    <3>2. CASE u = t
      BY <1>4, <3>1, <3>2 DEF Holding, way
    <3>3. CASE u # t
      BY <1>4, <1>5, <3>3 DEF Holding, Lined
    <3> QED BY <3>2, <3>3
  <2>5. \A u \in DOMAIN es2 : es2[u].code # "Autotune" => <<u, es2[u].code>> \in way2
    BY <1>4, <1>5 DEF Lined
  <2>6. \A c \in {"Arm", "Autotune"} : \A u, v \in Holding(es2, c) : u = v
    <3> SUFFICES ASSUME NEW c \in {"Arm", "Autotune"}, NEW u \in Holding(es2, c),
                        NEW v \in Holding(es2, c)
                 PROVE  u = v
      OBVIOUS
    <3>1. /\ u = t \/ u \in Holding(es, c)
          /\ v = t \/ v \in Holding(es, c)
      BY <1>4 DEF Holding
    <3>2. u = t \/ v = t => c = code
      BY <1>4 DEF Holding
    <3>3. u \in Holding(es, c) /\ v \in Holding(es, c) => u = v
      BY <1>5 DEF Lined
    <3> QED BY <3>1, <3>2, <3>3
  <2> QED BY <2>1, <2>2, <2>3, <2>4, <2>5, <2>6 DEF Lined
<1> QED BY <1>3, <1>7 DEF Line, es2

\* The vehicle leaves the line as it is, but for an autotune in progress.
LEMMA LinedShrinks ==
  ASSUME NEW n, NEW es, NEW q, NEW sup, NEW way, NEW way2 \in SUBSET way,
         Lined(n, es, q, sup, way), \A p \in way : p \in way2 \/ p[2] = "Autotune"
  PROVE  Lined(n, es, q, sup, way2)
<1>1. \A p \in Gone(es, way) : p \in Gone(es, way2)
  BY DEF Lined, Gone
<1>2. \A p \in Gone(es, way2) : p \in Gone(es, way)
  BY DEF Gone
<1>3. Gone(es, way2) = Gone(es, way)
  BY <1>1, <1>2
<1>4. \A t \in DOMAIN es : es[t].code # "Autotune" => <<t, es[t].code>> \in way2
  <2>1. \A t \in DOMAIN es : <<t, es[t].code>>[2] = es[t].code
    OBVIOUS
  <2> QED BY <2>1 DEF Lined
<1> QED BY <1>3, <1>4 DEF Lined

\* How often a command was sent, and what else was asked, is nothing to the line.
LEMMA LinedAlike ==
  ASSUME NEW n \in Nat, NEW k \in Nat, n <= k, NEW es, NEW es2, NEW q, NEW q2, NEW sup, NEW way,
         Lined(n, es, q, sup, way),
         DOMAIN es2 = DOMAIN es, \A t \in DOMAIN es : es2[t].code = es[t].code,
         \A p \in way : p[1] \in q2 => p[1] \in q
  PROVE  Lined(k, es2, q2, sup, way)
<1>1. Gone(es2, way) = Gone(es, way) /\ \A code : Holding(es2, code) = Holding(es, code)
  BY DEF Gone, Holding
<1>2. \A u \in 1 .. n : u \in 1 .. k
  OBVIOUS
<1> QED BY <1>1, <1>2 DEF Lined

\* The first of a line is of the superseded arm if there is one, and otherwise of the
\* entry that has waited longest.
LEMMA LinedHead ==
  ASSUME NEW n \in Nat, NEW es, NEW q, NEW sup, NEW way, NEW way2, NEW g, NEW code,
         DOMAIN es \subseteq Nat,
         Lined(n, es, q, sup, way),
         <<g, code>> \notin way2, way = way2 \cup {<<g, code>>},
         \A p \in way2 : p[2] = code => g < p[1]
  PROVE  /\ sup /\ code = "Arm" => g \notin DOMAIN es /\ Lined(n, es, q, FALSE, way2)
         /\ ~(sup /\ code = "Arm") =>
              /\ g \in Holding(es, code) /\ First(Holding(es, code)) = g
              /\ Lined(n, Without(es, {g}), q, sup, way2)
         /\ g \in 1 .. n
<1>1. <<g, code>> \in way /\ <<g, code>>[1] = g /\ <<g, code>>[2] = code /\ way2 \subseteq way
  OBVIOUS
<1>2. g \in 1 .. n
  BY <1>1 DEF Lined
<1>3. ASSUME sup, code = "Arm"
      PROVE  g \notin DOMAIN es /\ Lined(n, es, q, FALSE, way2)
  <2>1. PICK p \in way : p[1] \notin DOMAIN es /\ p[2] = "Arm" /\ p[1] \in 1 .. n
    BY <1>3 DEF Lined, Gone
  <2>2. g \notin DOMAIN es
    <3> SUFFICES ASSUME g \in DOMAIN es PROVE FALSE
      OBVIOUS
    <3>1. p \in way2
      BY <1>1, <2>1
    <3>2. g < p[1]
      BY <1>3, <2>1, <3>1
    <3>3. g \in Holding(es, "Arm")
      BY <1>1, <1>3 DEF Lined, Holding
    <3>4. p \in Gone(es, way)
      BY <2>1 DEF Gone
    <3>5. p[1] < g
      BY <3>3, <3>4 DEF Lined
    <3> QED BY <1>2, <2>1, <3>2, <3>5
  <2>3. Gone(es, way2) = {}
    <3>1. <<g, code>> \in Gone(es, way)
      BY <1>1, <2>2 DEF Gone
    <3>2. \A p2 \in Gone(es, way2) : p2 \in Gone(es, way)
      BY <1>1 DEF Gone
    <3>3. \A p2 \in Gone(es, way2) : p2 = <<g, code>>
      BY <3>1, <3>2 DEF Lined
    <3> QED BY <3>3 DEF Gone
  <2>4. \A t \in DOMAIN es : es[t].code # "Autotune" => <<t, es[t].code>> \in way2
    <3> SUFFICES ASSUME NEW t \in DOMAIN es, es[t].code # "Autotune"
                 PROVE  <<t, es[t].code>> \in way2
      OBVIOUS
    <3>1. <<t, es[t].code>> \in way
      BY DEF Lined
    <3>2. <<t, es[t].code>> # <<g, code>>
      BY <2>2
    <3> QED BY <3>1, <3>2
  <2>5. Lined(n, es, q, FALSE, way2)
    BY <1>1, <2>3, <2>4 DEF Lined
  <2> QED BY <2>2, <2>5
<1>4. ASSUME ~(sup /\ code = "Arm")
      PROVE  /\ g \in Holding(es, code) /\ First(Holding(es, code)) = g
             /\ Lined(n, Without(es, {g}), q, sup, way2)
  <2>1. g \in DOMAIN es
    BY <1>1, <1>4 DEF Lined, Gone
  <2>2. es[g].code = code
    BY <1>1, <2>1 DEF Lined
  <2>3. g \in Holding(es, code)
    BY <2>1, <2>2 DEF Holding
  <2>4. \A u \in Holding(es, code) : g <= u
    <3> SUFFICES ASSUME NEW u \in Holding(es, code) PROVE g <= u
      OBVIOUS
    <3>1. u \in DOMAIN es /\ es[u].code = code /\ u \in Nat
      BY DEF Holding
    <3>2. CASE code = "Autotune"
      <4>1. u = g
        BY <2>3, <3>2 DEF Lined
      <4> QED BY <3>1, <4>1
    <3>3. CASE code # "Autotune"
      <4>1. <<u, code>> \in way
        BY <3>1, <3>3 DEF Lined
      <4>2. CASE <<u, code>> \in way2
        <5>1. <<u, code>>[1] = u /\ <<u, code>>[2] = code
          OBVIOUS
        <5>2. g < u
          BY <4>2, <5>1
        <5> QED BY <1>2, <3>1, <5>2
      <4>3. CASE u = g
        BY <3>1, <4>3
      <4> QED BY <4>1, <4>2, <4>3
    <3> QED BY <3>2, <3>3
  <2>5. First(Holding(es, code)) = g
    <3>1. Holding(es, code) \in SUBSET Nat
      BY DEF Holding
    <3> QED BY <2>3, <2>4, <3>1, FirstIsLeast
  <2> DEFINE es2 == Without(es, {g})
  <2>6. DOMAIN es2 = DOMAIN es \ {g} /\ \A u \in DOMAIN es2 : es2[u] = es[u]
    BY DEF Without
  <2> HIDE DEF es2
  <2>7. \A p \in way2 : p[1] # g
    <3> SUFFICES ASSUME NEW p \in way2, p[1] = g PROVE FALSE
      OBVIOUS
    <3>1. p = <<p[1], p[2]>> /\ es[p[1]].code = p[2]
      BY <1>1, <2>1 DEF Lined
    <3>2. p = <<g, code>>
      BY <2>2, <3>1
    <3> QED BY <3>2
  <2>8. Gone(es2, way2) = Gone(es, way)
    <3>1. \A p \in way2 : p[1] \in DOMAIN es2 <=> p[1] \in DOMAIN es
      BY <2>6, <2>7
    <3>2. <<g, code>>[1] \in DOMAIN es
      BY <2>1
    <3> QED BY <3>1, <3>2 DEF Gone
  <2>9. \A c : \A u \in Holding(es2, c) : u \in Holding(es, c)
    BY <2>6 DEF Holding
  <2>10. \A u \in DOMAIN es2 : es2[u].code # "Autotune" => <<u, es2[u].code>> \in way2
    <3> SUFFICES ASSUME NEW u \in DOMAIN es2, es2[u].code # "Autotune"
                 PROVE  <<u, es2[u].code>> \in way2
      OBVIOUS
    <3>1. <<u, es2[u].code>> \in way /\ u # g
      BY <2>6 DEF Lined
    <3> QED BY <3>1
  <2>11. Lined(n, es2, q, sup, way2)
    <3>1. \A p \in way2 : p[1] \in DOMAIN es2 => es2[p[1]].code = p[2]
      BY <1>1, <2>6 DEF Lined
    <3> QED BY <1>1, <2>8, <2>9, <2>10, <3>1 DEF Lined
  <2> QED BY <2>3, <2>5, <2>11 DEF es2
<1> QED BY <1>2, <1>3, <1>4

\* Served by the queue: the request that goes out was in it.
LEMMA ServedInLine ==
  ASSUME Calm, NEW n \in 0 .. MaxAsks, NEW held, NEW active, NEW results, NEW sup,
         NEW ts \in Seq(StationMessage), toVehicle \in Seq(VehicleMessage),
         Continue(held, active, results),
         DOMAIN active = {} => Holding(held, "Request") = {},
         DOMAIN queued \subseteq 1 .. n, queued \in [DOMAIN queued -> Messages],
         \A t \in DOMAIN queued : t \notin DOMAIN held,
         Line(n, held, DOMAIN queued, sup, ts, toVehicle)
  PROVE  /\ Line(n, entries', DOMAIN queued', sup, ts, toVehicle')
         /\ DOMAIN entries' \cup DOMAIN queued' = DOMAIN held \cup DOMAIN queued
         /\ told' = After(results)
<1>1. CASE DOMAIN active # {} \/ DOMAIN queued = {}
  BY <1>1 DEF Continue, Tell
<1>2. CASE ~(DOMAIN active # {} \/ DOMAIN queued = {})
  <2> DEFINE next == First(DOMAIN queued)
  <2>1. Holding(held, "Request") = {} /\ DOMAIN queued \in SUBSET Nat
    <3>1. DOMAIN active = {}
      BY <1>2
    <3>2. 1 .. n \subseteq Nat
      BY ConstantsAssumption
    <3> QED BY <3>1, <3>2
  <2>2. next \in DOMAIN queued
    BY <1>2, <2>1, FirstIsMember
  <2>3. /\ entries' = Added(held, next, NewEntry("Request"))
        /\ queued' = Without(queued, {next})
        /\ ToVehicle(next, "Request", queued[next])
        /\ told' = After(results)
    BY <1>2, <2>1 DEF Continue, Tell
  <2>4. DOMAIN queued' = DOMAIN queued \ {next} /\ DOMAIN entries' = DOMAIN held \cup {next}
    BY <2>3 DEF Without, Added
  <2>5. /\ next \in 1 .. n /\ next \in 0 .. MaxAsks /\ queued[next] \in Messages \cup {NoMessage}
        /\ next \notin DOMAIN held /\ n \in Nat /\ n <= n /\ "Request" \in Codes
    BY <2>2, ConstantsAssumption DEF Codes
  <2>6. \A p \in OnTheWay(ts, toVehicle) : p[1] # next /\ (p[2] = "Request" => p[1] < next)
    <3> SUFFICES ASSUME NEW p \in OnTheWay(ts, toVehicle)
                 PROVE  p[1] # next /\ p[2] # "Request"
      OBVIOUS
    <3>1. p[1] # next
      BY <2>2 DEF Line, Lined
    <3>2. p[1] \in DOMAIN held => held[p[1]].code = p[2]
      BY DEF Line, Lined
    <3>3. p[1] \notin DOMAIN held => p[2] = "Arm"
      BY DEF Line, Lined, Gone
    <3> QED BY <2>1, <3>1, <3>2, <3>3 DEF Holding
  <2>7. DOMAIN queued' \in SUBSET DOMAIN queued /\ next \notin DOMAIN queued'
    BY <2>4
  <2>8. Line(n, Added(held, next, NewEntry("Request")), DOMAIN queued', sup, ts, toVehicle')
    <3> HIDE DEF next
    <3>1. ~Lossy
      BY DEF Calm
    <3> QED BY <2>3, <2>5, <2>6, <2>7, <3>1, SentInLine
  <2> QED BY <2>2, <2>3, <2>4, <2>8
<1> QED BY <1>1, <1>2

\* Who is told what: the answers given are those heard, and nobody who was heard or
\* may yet be heard goes unanswered.
LEMMA AfterLast ==
  ASSUME told \in [Asks -> Seq(Outcomes)], NEW results, NEW t \in Asks, NEW r,
         After(results)[t] = <<r>>
  PROVE  \/ t \notin DOMAIN results /\ told[t] = <<r>>
         \/ t \in DOMAIN results /\ results[t] = r
<1>1. told[t] \in Seq(Outcomes)
  OBVIOUS
<1>2. ASSUME t \in DOMAIN results PROVE results[t] = r
  <2>1. Append(told[t], results[t]) = <<r>>
    BY <1>2 DEF After
  <2>2. \A s \in Seq(Outcomes) : \A x : Append(s, x) = <<r>> => x = r
    <3> TAKE s \in Seq(Outcomes)
    <3> TAKE x
    <3>1. Append(s, x)[Len(s) + 1] = x /\ Len(Append(s, x)) = Len(s) + 1 /\ Len(s) \in Nat
      OBVIOUS
    <3>2. Len(<<r>>) = 1 /\ <<r>>[1] = r
      OBVIOUS
    <3> QED BY <3>1, <3>2
  <2> QED BY <1>1, <2>1, <2>2
<1> QED BY <1>2 DEF After

LEMMA ToldAndHeard ==
  ASSUME told \in [Asks -> Seq(Outcomes)], NEW results,
         NEW n \in 0 .. MaxAsks, NEW k \in 0 .. MaxAsks, n <= k,
         NEW pending, NEW pending2, NEW hd, NEW hd2, hd \subseteq hd2,
         Heard(n, pending, told, hd),
         pending2 \subseteq 1 .. k,
         \A t \in pending2 : t \in pending \/ (told[t] = <<>> /\ t \notin 1 .. n),
         \A a \in hd2 : a \in hd \/ (a[1] \in pending /\ a[1] \in 1 .. n /\ a[1] \notin pending2),
         \A t \in DOMAIN results :
           /\ results[t] \in {"Accepted", "Denied"} => <<t, results[t]>> \in hd2
           /\ results[t] = "NoResponse" => t \notin pending2 /\ \A a \in hd2 : a[1] # t
  PROVE  Heard(k, pending2, After(results), hd2)
<1>1. 1 .. n \subseteq 1 .. k /\ 1 .. k \subseteq Asks
  BY ConstantsAssumption DEF Asks
<1>2. ASSUME NEW t \in Asks, told[t] # <<"NoResponse">>,
             t \in DOMAIN results => results[t] # "NoResponse"
      PROVE  After(results)[t] # <<"NoResponse">>
  BY <1>2, AfterLast
<1>3. \A a \in hd2 : a[1] \in 1 .. n /\ told[a[1]] # <<"NoResponse">>
  BY DEF Heard
<1>4. \A a \in hd2 : a[1] \in 1 .. k /\ a[1] \notin pending2
                       /\ After(results)[a[1]] # <<"NoResponse">>
  <2> TAKE a \in hd2
  <2>1. a[1] \in 1 .. n /\ a[1] \in Asks /\ told[a[1]] # <<"NoResponse">>
    BY <1>1, <1>3
  <2>2. a[1] \notin pending2
    BY <2>1 DEF Heard
  <2>3. a[1] \in DOMAIN results => results[a[1]] # "NoResponse"
    OBVIOUS
  <2> QED BY <1>1, <1>2, <2>1, <2>2, <2>3
<1>5. \A t \in pending2 : After(results)[t] # <<"NoResponse">>
  <2> TAKE t \in pending2
  <2>1. t \in Asks
    BY <1>1
  <2>2. <<>> # <<"NoResponse">>
    OBVIOUS
  <2>3. told[t] # <<"NoResponse">>
    BY <2>2 DEF Heard
  <2> QED BY <1>2, <2>1, <2>3
<1>6. ASSUME NEW t \in Asks, NEW result \in {"Accepted", "Denied"},
             After(results)[t] = <<result>>
      PROVE  <<t, result>> \in hd2
  <2>1. \/ t \notin DOMAIN results /\ told[t] = <<result>>
        \/ t \in DOMAIN results /\ results[t] = result
    BY <1>6, AfterLast
  <2>2. told[t] = <<result>> => <<t, result>> \in hd
    BY DEF Heard
  <2> QED BY <2>1, <2>2
<1> QED BY <1>4, <1>5, <1>6 DEF Heard

-----------------------------------------------------------------------------
(* The steps keep every answer with its ask.                               *)

\* What holds of a new ask: nothing of its number is anywhere.
LEMMA NewAsk ==
  ASSUME IInv, Own, NEW t \in Asks, Ask(t)
  PROVE  /\ asks' = t /\ asks \in Nat /\ t \in Nat /\ asks <= t /\ t \in 1 .. t
         /\ t \in 0 .. MaxAsks /\ asks \in 0 .. MaxAsks /\ t \notin 1 .. asks
         /\ told \in [Asks -> Seq(Outcomes)] /\ told[t] = <<>>
         /\ t \notin DOMAIN entries /\ t \notin DOMAIN queued
         /\ DOMAIN entries \subseteq 1 .. t /\ DOMAIN queued \subseteq 1 .. t
         /\ toStation \in Seq(StationMessage) /\ toVehicle \in Seq(VehicleMessage)
         /\ \A p \in OnTheWay(toStation, toVehicle) : p[1] # t /\ p[1] < t
<1>1. /\ asks' = t /\ asks' \in 0 .. MaxAsks /\ told[t] = <<>>
      /\ t \notin DOMAIN entries /\ t \notin DOMAIN queued
      /\ Good(t, entries, requests, queued, told)
  BY SettledAsk
<1>2. asks \in 0 .. MaxAsks /\ asks \in Nat /\ t = asks + 1
  BY DEF IInv, Ask
<1>3. t \in Nat /\ asks <= t /\ t \in 1 .. t /\ t \notin 1 .. asks
  BY <1>2
<1>4. \A p \in OnTheWay(toStation, toVehicle) : p[1] # t /\ p[1] < t
  <2>1. \A p \in OnTheWay(toStation, toVehicle) : p[1] \in 1 .. asks
    BY DEF Own, Line, Lined
  <2>2. \A u \in 1 .. asks : u # t /\ u < t
    BY <1>2
  <2> QED BY <2>1, <2>2
<1> QED BY <1>1, <1>2, <1>3, <1>4 DEF Good, Settled, IInv

\* Whoever asks and is refused at once changes nothing for the others.
LEMMA RefusedOwn ==
  ASSUME IInv, Own, NEW t \in Asks, Ask(t), NEW results,
         told' = After(results),
         \A u \in DOMAIN results : results[u] \in {"Duplicate", "Failed"},
         UNCHANGED <<entries, queued, superseded, stops, toVehicle, toStation, heard>>
  PROVE  Own'
<1>1. /\ asks' = t /\ asks \in Nat /\ t \in Nat /\ asks <= t
      /\ t \in 0 .. MaxAsks /\ asks \in 0 .. MaxAsks
      /\ told \in [Asks -> Seq(Outcomes)]
      /\ DOMAIN entries \subseteq 1 .. t /\ DOMAIN queued \subseteq 1 .. t
  BY NewAsk
<1>2. /\ Line(asks, entries, DOMAIN queued, superseded, toStation, toVehicle)
      /\ Heard(asks, DOMAIN entries \cup DOMAIN queued, told, heard)
      /\ stops = 0 => ~superseded
  BY DEF Own
<1>3. Line(t, entries, DOMAIN queued, superseded, toStation, toVehicle)
  BY <1>1, <1>2, LinedAlike DEF Line
<1>4. Heard(t, DOMAIN entries \cup DOMAIN queued, After(results), heard)
  <2>1. \A u \in DOMAIN results : results[u] # "Accepted" /\ results[u] # "Denied"
                                    /\ results[u] # "NoResponse"
    OBVIOUS
  <2>2. \A a \in heard : a[1] \in 1 .. asks
    BY <1>2 DEF Heard
  <2> QED BY <1>1, <1>2, <2>1, <2>2, ToldAndHeard
<1> QED BY <1>1, <1>2, <1>3, <1>4 DEF Own

\* A command is refused, or takes the last place of its line.
LEMMA EnqueueOwn ==
  ASSUME Calm, IInv, Own, NEW t \in Asks, Ask(t), NEW code \in Codes \ {"Request"},
         NEW kept, NEW results, NEW sup, Enqueue(t, code, kept, results),
         DOMAIN kept \subseteq DOMAIN entries,
         \A u \in DOMAIN results : results[u] = "Failed",
         Line(asks, kept, DOMAIN queued, sup, toStation, toVehicle)
  PROVE  /\ Line(t, entries', DOMAIN queued, sup, toStation, toVehicle')
         /\ Heard(t, DOMAIN entries' \cup DOMAIN queued, told', heard)
<1>1. /\ asks \in Nat /\ t \in Nat /\ asks <= t /\ t \in 1 .. t
      /\ t \in 0 .. MaxAsks /\ asks \in 0 .. MaxAsks /\ t \notin 1 .. asks
      /\ told \in [Asks -> Seq(Outcomes)] /\ told[t] = <<>>
      /\ t \notin DOMAIN entries /\ t \notin DOMAIN queued
      /\ DOMAIN entries \subseteq 1 .. t /\ DOMAIN queued \subseteq 1 .. t
      /\ toStation \in Seq(StationMessage) /\ toVehicle \in Seq(VehicleMessage)
      /\ \A p \in OnTheWay(toStation, toVehicle) : p[1] # t /\ p[1] < t
  BY NewAsk
<1>2. Heard(asks, DOMAIN entries \cup DOMAIN queued, told, heard)
  BY DEF Own
<1>3. \A a \in heard : a[1] \in 1 .. asks
  BY <1>2 DEF Heard
<1>4. CASE Holding(kept, code) # {} /\ ~CanDuplicate(code)
  <2> DEFINE given == Added(results, t, "Duplicate")
  <2>1. entries' = kept /\ told' = After(given) /\ toVehicle' = toVehicle
    BY <1>4 DEF Enqueue, Tell
  <2>2. \A u \in DOMAIN given : given[u] \in {"Duplicate", "Failed"}
    BY DEF Added
  <2> HIDE DEF given
  <2>3. \A u \in DOMAIN given : given[u] # "Accepted" /\ given[u] # "Denied"
                                  /\ given[u] # "NoResponse"
    BY <2>2
  <2>4. Heard(t, DOMAIN kept \cup DOMAIN queued, After(given), heard)
    <3>1. DOMAIN kept \cup DOMAIN queued \subseteq DOMAIN entries \cup DOMAIN queued
      OBVIOUS
    <3> QED BY <1>1, <1>2, <1>3, <2>3, <3>1, ToldAndHeard
  <2>5. Line(t, kept, DOMAIN queued, sup, toStation, toVehicle)
    BY <1>1, LinedAlike DEF Line
  <2> QED BY <2>1, <2>4, <2>5
<1>5. CASE ~(Holding(kept, code) # {} /\ ~CanDuplicate(code))
  <2>1. /\ entries' = Added(kept, t, NewEntry(code)) /\ told' = After(results)
        /\ ToVehicle(t, code, NoMessage)
    BY <1>5 DEF Enqueue, Tell
  <2>2. DOMAIN entries' = DOMAIN kept \cup {t}
    BY <2>1 DEF Added
  <2>3. Line(t, entries', DOMAIN queued, sup, toStation, toVehicle')
    <3>1. code \in {"Arm", "Autotune"} => Holding(kept, code) = {}
      BY <1>5 DEF CanDuplicate
    <3>2. ~Lossy /\ code \in Codes /\ t \notin DOMAIN kept
          /\ NoMessage \in Messages \cup {NoMessage}
          /\ DOMAIN queued \in SUBSET DOMAIN queued
      BY <1>1 DEF Calm
    <3> QED BY <1>1, <2>1, <3>1, <3>2, SentInLine
  <2>4. Heard(t, DOMAIN kept \cup {t} \cup DOMAIN queued, After(results), heard)
    <3>1. /\ DOMAIN kept \cup {t} \cup DOMAIN queued \subseteq 1 .. t
          /\ \A u \in DOMAIN kept \cup {t} \cup DOMAIN queued :
               u \in DOMAIN entries \cup DOMAIN queued \/ (told[u] = <<>> /\ u \notin 1 .. asks)
      BY <1>1
    <3>2. \A u \in DOMAIN results : results[u] # "Accepted" /\ results[u] # "Denied"
                                      /\ results[u] # "NoResponse"
      OBVIOUS
    <3> QED BY <1>1, <1>2, <3>1, <3>2, ToldAndHeard
  <2> QED BY <2>1, <2>2, <2>3, <2>4
<1> QED BY <1>4, <1>5

LEMMA SendOwn ==
  ASSUME Calm, IInv, Own, NEW t \in Asks, NEW code \in Codes, Send(t, code)
  PROVE  Own'
<1>1. Ask(t) /\ asks' = t /\ code \in Codes \ {"Request"}
  BY DEF Send, Ask
<1>2. /\ Enqueue(t, code, entries, Nothing)
      /\ UNCHANGED <<queued, superseded, stops, toStation, heard>>
  BY DEF Send
<1>3. DOMAIN Nothing = {}
  BY DEF Nothing
<1>4. /\ Line(t, entries', DOMAIN queued, superseded, toStation, toVehicle')
      /\ Heard(t, DOMAIN entries' \cup DOMAIN queued, told', heard)
  BY <1>1, <1>2, <1>3, EnqueueOwn DEF Own
<1> QED BY <1>1, <1>2, <1>4 DEF Own

\* A stop takes the arm out of the entries and leaves its command or ack on its way.
LEMMA StoppedInLine ==
  ASSUME NEW n \in Nat, NEW es, NEW q, NEW way, Lined(n, es, q, FALSE, way)
  PROVE  Lined(n, Without(es, Holding(es, "Arm")), q, Holding(es, "Arm") # {}, way)
<1> DEFINE older == Holding(es, "Arm")
           es2 == Without(es, older)
<1>1. DOMAIN es2 = DOMAIN es \ older /\ \A u \in DOMAIN es2 : es2[u] = es[u]
  BY DEF Without
<1>2. \A u \in older : u \in DOMAIN es /\ es[u].code = "Arm"
  BY DEF Holding
<1>3. \A u \in DOMAIN es : es[u].code = "Arm" => u \in older
  BY DEF Holding
<1> HIDE DEF es2, older
<1>4. \A p \in way : p[1] \in DOMAIN es
  BY DEF Lined, Gone
<1>5. \A p \in Gone(es2, way) : p \in way /\ p[1] \in older /\ p[2] = "Arm" /\ p = <<p[1], p[2]>>
  <2> TAKE p \in Gone(es2, way)
  <2>1. p \in way /\ p[1] \in older
    BY <1>1, <1>4 DEF Gone
  <2> QED BY <1>2, <2>1 DEF Lined
<1>6. \A u \in older : <<u, "Arm">> \in Gone(es2, way)
  <2> TAKE u \in older
  <2>1. <<u, "Arm">> \in way
    BY <1>2 DEF Lined
  <2>2. <<u, "Arm">>[1] \notin DOMAIN es2
    BY <1>1
  <2> QED BY <2>1, <2>2 DEF Gone
<1>7. \A u, v \in older : u = v
  BY DEF Lined, older
<1>8. \A p, r \in Gone(es2, way) : p = r
  BY <1>5, <1>7
<1>9. Holding(es2, "Arm") = {}
  BY <1>1, <1>3 DEF Holding
<1>10. \A c : \A u \in Holding(es2, c) : u \in Holding(es, c)
  BY <1>1 DEF Holding
<1>11. Lined(n, es2, q, older # {}, way)
  BY <1>1, <1>5, <1>6, <1>8, <1>9, <1>10 DEF Lined
<1> QED BY <1>11 DEF es2, older

LEMMA EmergencyStopOwn ==
  ASSUME Calm, IInv, Own, NEW t \in Asks, EmergencyStop(t)
  PROVE  Own'
<1> DEFINE older == Holding(entries, "Arm")
           kept == Without(entries, older)
<1>1. Ask(t) /\ asks' = t
  BY DEF EmergencyStop, Ask
<1>2. /\ stops < MaxStops /\ stops' = stops + 1 /\ superseded' = (superseded \/ older # {})
      /\ Enqueue(t, "Arm", kept, Telling(older, "Failed"))
      /\ UNCHANGED <<queued, toStation, heard>>
  BY DEF EmergencyStop, Supersede
<1>3. stops = 0 /\ stops' # 0
  <2>1. stops \in 0 .. MaxStops /\ MaxStops \in Nat /\ MaxStops <= 1
    BY ConstantsAssumption DEF IInv, Calm
  <2> QED BY <1>2, <2>1
<1>4. superseded = FALSE
  BY <1>3 DEF Own, IInv
<1>5. superseded' = (older # {})
  BY <1>2, <1>4
<1>6. Line(asks, kept, DOMAIN queued, older # {}, toStation, toVehicle)
  <2>1. asks \in Nat
    BY DEF IInv
  <2> QED BY <1>4, <2>1, StoppedInLine DEF Own, Line
<1>7. \A u \in DOMAIN Telling(older, "Failed") : Telling(older, "Failed")[u] = "Failed"
  BY DEF Telling
<1>8. DOMAIN kept \subseteq DOMAIN entries
  BY DEF Without
<1>9. "Arm" \in Codes \ {"Request"}
  BY DEF Codes
<1> HIDE DEF kept, older
<1>10. /\ Line(t, entries', DOMAIN queued, older # {}, toStation, toVehicle')
       /\ Heard(t, DOMAIN entries' \cup DOMAIN queued, told', heard)
  BY <1>1, <1>2, <1>6, <1>7, <1>8, <1>9, EnqueueOwn
<1> QED BY <1>1, <1>2, <1>3, <1>5, <1>10 DEF Own

LEMMA SendToAllOwn ==
  ASSUME IInv, Own, NEW t \in Asks, SendToAll(t)
  PROVE  Own'
<1> DEFINE results == Telling({t}, "Failed")
<1>1. Ask(t) /\ told' = After(results)
      /\ UNCHANGED <<entries, queued, superseded, stops, toVehicle, toStation, heard>>
  BY DEF SendToAll, Tell, coordinator
<1>2. \A u \in DOMAIN results : results[u] \in {"Duplicate", "Failed"}
  BY DEF Telling
<1> HIDE DEF results
<1> QED BY <1>1, <1>2, RefusedOwn

LEMMA RequestMessageOwn ==
  ASSUME Calm, IInv, Own, NEW t \in Asks, NEW message \in Messages, RequestMessage(t, message)
  PROVE  Own'
<1>1. /\ asks' = t /\ asks \in Nat /\ t \in Nat /\ asks <= t /\ t \in 1 .. t
      /\ t \in 0 .. MaxAsks /\ asks \in 0 .. MaxAsks /\ t \notin 1 .. asks
      /\ told \in [Asks -> Seq(Outcomes)] /\ told[t] = <<>>
      /\ t \notin DOMAIN entries /\ t \notin DOMAIN queued
      /\ DOMAIN entries \subseteq 1 .. t /\ DOMAIN queued \subseteq 1 .. t
      /\ toStation \in Seq(StationMessage) /\ toVehicle \in Seq(VehicleMessage)
      /\ \A p \in OnTheWay(toStation, toVehicle) : p[1] # t /\ p[1] < t
  BY NewAsk DEF RequestMessage
<1>2. /\ Line(asks, entries, DOMAIN queued, superseded, toStation, toVehicle)
      /\ Heard(asks, DOMAIN entries \cup DOMAIN queued, told, heard)
      /\ stops = 0 => ~superseded
  BY DEF Own
<1>3. Ask(t) /\ UNCHANGED <<superseded, stops, toStation, heard>>
  BY DEF RequestMessage
<1>4. \A a \in heard : a[1] \in 1 .. asks
  BY <1>2 DEF Heard
<1>5. told = After(Nothing) /\ DOMAIN Nothing = {}
  BY <1>1, NobodyAnswered
<1>6. ASSUME NEW pending, pending = DOMAIN entries \cup DOMAIN queued \cup {t}
      PROVE  Heard(t, pending, told, heard)
  <2>1. /\ pending \subseteq 1 .. t
        /\ \A u \in pending :
             u \in DOMAIN entries \cup DOMAIN queued \/ (told[u] = <<>> /\ u \notin 1 .. asks)
    BY <1>1, <1>6
  <2> QED BY <1>1, <1>2, <1>5, <2>1, ToldAndHeard
<1>7. CASE told' = After(Telling({t}, "Duplicate")) /\ UNCHANGED <<entries, queued, toVehicle>>
  <2> DEFINE results == Telling({t}, "Duplicate")
  <2>1. \A u \in DOMAIN results : results[u] \in {"Duplicate", "Failed"}
    BY DEF Telling
  <2> HIDE DEF results
  <2> QED BY <1>3, <1>7, <2>1, RefusedOwn DEF results
<1>8. CASE queued' = Added(queued, t, message) /\ UNCHANGED <<entries, toVehicle, told>>
  <2>1. DOMAIN queued' = DOMAIN queued \cup {t}
    BY <1>8 DEF Added
  <2>2. Line(t, entries, DOMAIN queued', superseded, toStation, toVehicle)
    <3>1. \A p \in OnTheWay(toStation, toVehicle) : p[1] \in DOMAIN queued' => p[1] \in DOMAIN queued
      BY <1>1, <2>1
    <3> QED BY <1>1, <1>2, <3>1, LinedAlike DEF Line
  <2>3. Heard(t, DOMAIN entries \cup DOMAIN queued', told, heard)
    BY <1>6, <2>1
  <2> QED BY <1>1, <1>2, <1>3, <1>8, <2>2, <2>3 DEF Own
<1>9. CASE /\ Holding(entries, "Request") = {}
           /\ entries' = Added(entries, t, NewEntry("Request"))
           /\ ToVehicle(t, "Request", message) /\ UNCHANGED <<queued, told>>
  <2>1. DOMAIN entries' = DOMAIN entries \cup {t}
    BY <1>9 DEF Added
  <2>2. Line(t, entries', DOMAIN queued, superseded, toStation, toVehicle')
    <3>1. /\ ~Lossy /\ "Request" \in Codes /\ message \in Messages \cup {NoMessage}
          /\ DOMAIN queued \in SUBSET DOMAIN queued
      BY DEF Calm, Codes
    <3> QED BY <1>1, <1>2, <1>9, <3>1, SentInLine
  <2>3. Heard(t, DOMAIN entries' \cup DOMAIN queued, told, heard)
    BY <1>6, <2>1
  <2> QED BY <1>1, <1>2, <1>3, <1>9, <2>2, <2>3 DEF Own
<1> QED BY <1>7, <1>8, <1>9 DEF RequestMessage, Tell

\* A timer runs out with nothing on its way: it is an autotune's, or a message's.
LEMMA TickOwn ==
  ASSUME Calm, IInv, Own, Tick
  PROVE  Own'
<1>1. PICK due \in SUBSET DOMAIN entries, gone \in {{}} \cup {{t} : t \in Waiting} :
        Expire(due, gone)
  BY DEF Tick
<1>2. /\ toVehicle = <<>> /\ toStation = <<>>
      /\ UNCHANGED <<asks, stops, outside, superseded, toStation, heard>>
  BY DEF Tick, Calm, counters
<1>3. /\ Line(asks, entries, DOMAIN queued, superseded, toStation, toVehicle)
      /\ Heard(asks, DOMAIN entries \cup DOMAIN queued, told, heard)
      /\ stops = 0 => ~superseded
  BY DEF Own
<1>4. OnTheWay(toStation, toVehicle) = {}
  BY <1>2 DEF OnTheWay, Finals
<1>5. Good(asks, entries, requests, queued, told) /\ asks \in 0 .. MaxAsks /\ asks \in Nat
      /\ toVehicle \in Seq(VehicleMessage) /\ toStation \in Seq(StationMessage)
  BY DEF IInv
<1>6. \A t \in DOMAIN entries : entries[t].code = "Autotune" /\ entries[t].max = 1
  <2>1. \A t \in DOMAIN entries : entries[t].code = "Autotune"
    BY <1>3, <1>4 DEF Line, Lined
  <2> QED BY <1>5, <2>1 DEF Good, Settled
<1>7. ~superseded
  BY <1>3, <1>4 DEF Line, Lined, Gone
<1>8. \A t \in due : entries[t].tries >= entries[t].max
  <2>1. \A t \in DOMAIN entries : entries[t].tries \in 1 .. MaxRetry
    BY <1>5 DEF Good, Settled, Entry
  <2> QED BY <1>6, <2>1, ConstantsAssumption
<1> DEFINE lost == {t \in due : entries[t].tries >= entries[t].max}
           again == due \ lost
           held == [t \in DOMAIN entries \ lost |->
                      IF t \in again THEN [entries[t] EXCEPT !.tries = @ + 1] ELSE entries[t]]
           unanswered == {t \in lost : t \in DOMAIN requests => ~requests[t].received}
           results == [t \in unanswered \cup gone |->
                         IF t \in gone THEN "NoMessage" ELSE "NoResponse"]
           closed == (lost \cup gone) \cap DOMAIN requests
           left == Without(requests, closed)
<1>9. lost = due /\ again = {}
  BY <1>8
<1>10. DOMAIN held = DOMAIN entries \ due /\ \A t \in DOMAIN held : held[t] = entries[t]
  BY <1>9
<1>11. \A t \in DOMAIN results :
         /\ results[t] # "Accepted" /\ results[t] # "Denied"
         /\ results[t] = "NoResponse" => t \in due /\ t \in DOMAIN entries
  OBVIOUS
<1>12. \/ Continue(held, left, results)
       \/ entries' = held /\ told' = After(results) /\ UNCHANGED <<queued, toVehicle>>
  <2>1. IF closed # {} THEN Continue(held, left, results)
        ELSE /\ entries' = held /\ Tell(results)
             /\ IF again = {} THEN UNCHANGED toVehicle
                ELSE \E t \in again : ToVehicle(t, entries[t].code, requests[t].message)
             /\ UNCHANGED <<requests, queued>>
    BY <1>1 DEF Expire
  <2> HIDE DEF closed, held, left, results, again
  <2> QED BY <1>9, <2>1 DEF Tell
<1> HIDE DEF closed, held, left, results, again, lost, unanswered
<1>13. Line(asks, held, DOMAIN queued, superseded, toStation, toVehicle)
  <2>1. \A code : \A t \in Holding(held, code) : t \in Holding(entries, code)
    BY <1>10 DEF Holding
  <2>2. Lined(asks, held, DOMAIN queued, superseded, {})
    BY <1>3, <1>4, <1>6, <1>7, <1>10, <2>1 DEF Line, Lined, Gone
  <2> QED BY <1>3, <1>4, <2>2 DEF Line
<1>14. Holding(held, "Request") = {}
  BY <1>6, <1>10 DEF Holding
<1>15. /\ Line(asks, entries', DOMAIN queued', superseded, toStation, toVehicle')
       /\ DOMAIN entries' \cup DOMAIN queued' = DOMAIN held \cup DOMAIN queued
       /\ told' = After(results)
  <2>1. CASE Continue(held, left, results)
    <3>1. /\ DOMAIN queued \subseteq 1 .. asks /\ queued \in [DOMAIN queued -> Messages]
          /\ \A t \in DOMAIN queued : t \notin DOMAIN held
      BY <1>5, <1>10 DEF Good, Settled
    <3> QED BY <1>5, <1>13, <1>14, <2>1, <3>1, ServedInLine
  <2>2. CASE entries' = held /\ told' = After(results) /\ UNCHANGED <<queued, toVehicle>>
    BY <1>13, <2>2
  <2> QED BY <1>12, <2>1, <2>2
<1>16. Heard(asks, DOMAIN held \cup DOMAIN queued, After(results), heard)
  <2> DEFINE pending == DOMAIN entries \cup DOMAIN queued
             pending2 == DOMAIN held \cup DOMAIN queued
  <2>1. /\ pending2 \subseteq 1 .. asks /\ told \in [Asks -> Seq(Outcomes)] /\ asks <= asks
        /\ \A t \in pending2 : t \in pending
    BY <1>5, <1>10 DEF Good, Settled
  <2>2. \A t \in due : t \notin pending2 /\ t \in pending
    BY <1>5, <1>10 DEF Good, Settled
  <2>3. \A a \in heard : a[1] \notin pending
    BY <1>3 DEF Heard
  <2>4. \A t \in DOMAIN results : results[t] = "NoResponse" =>
          t \notin pending2 /\ \A a \in heard : a[1] # t
    BY <1>11, <2>2, <2>3
  <2> HIDE DEF pending2
  <2>5. Heard(asks, pending2, After(results), heard)
    BY <1>3, <1>5, <1>11, <2>1, <2>4, ToldAndHeard
  <2> QED BY <2>5 DEF pending2
<1> QED BY <1>2, <1>3, <1>15, <1>16 DEF Own

\* The vehicle answers: its acks take the place of their commands.
LEMMA VehicleReceiveOwn ==
  ASSUME Calm, IInv, Own, VehicleReceive
  PROVE  Own'
<1>1. /\ toVehicle # <<>> /\ toVehicle' = Tail(toVehicle)
      /\ UNCHANGED <<asks, stops, entries, queued, superseded, told, heard>>
  BY DEF VehicleReceive, counters, coordinator
<1>2. PICK reply \in Replies(Head(toVehicle)) : toStation' = toStation \o reply
  <2>1. \A reply : Arriving(reply) = {reply}
    BY DEF Arriving, Calm
  <2> QED BY <2>1 DEF VehicleReceive
<1>3. toStation \in Seq(StationMessage) /\ toVehicle \in Seq(VehicleMessage)
  BY DEF IInv
<1>4. /\ InTurn(toStation, toVehicle)
      /\ Lined(asks, entries, DOMAIN queued, superseded, OnTheWay(toStation, toVehicle))
  BY DEF Own, Line
<1>5. /\ InTurn(toStation \o reply, Tail(toVehicle))
      /\ OnTheWay(toStation \o reply, Tail(toVehicle)) \subseteq OnTheWay(toStation, toVehicle)
      /\ \A p \in OnTheWay(toStation, toVehicle) :
           p \in OnTheWay(toStation \o reply, Tail(toVehicle)) \/ p[2] = "Autotune"
  BY <1>1, <1>3, <1>4, AnsweredInTurn
<1>6. Lined(asks, entries, DOMAIN queued, superseded,
            OnTheWay(toStation \o reply, Tail(toVehicle)))
  BY <1>4, <1>5, LinedShrinks
<1> QED BY <1>1, <1>2, <1>5, <1>6 DEF Own, Line

\* A message ends or marks the request under way; no ack is taken for its own.
LEMMA MessageOwn ==
  ASSUME Calm, IInv, Own, StationReceive, Head(toStation).type = "Message",
         OnMessage(Head(toStation).message)
  PROVE  Own'
<1> DEFINE m == Head(toStation)
           way == OnTheWay(toStation, toVehicle)
           way2 == OnTheWay(Tail(toStation), toVehicle)
<1>1. /\ toStation # <<>> /\ toStation' = Tail(toStation)
      /\ UNCHANGED <<asks, stops, superseded, heard>>
  BY DEF StationReceive, OnMessage, counters
<1>2. /\ Good(asks, entries, requests, queued, told) /\ asks \in 0 .. MaxAsks /\ asks \in Nat
      /\ toVehicle \in Seq(VehicleMessage) /\ toStation \in Seq(StationMessage)
  BY DEF IInv
<1>3. Tail(toStation) \in Seq(StationMessage)
  BY <1>1, <1>2, HeadTailProperties
<1>4. /\ Line(asks, entries, DOMAIN queued, superseded, toStation, toVehicle)
      /\ Heard(asks, DOMAIN entries \cup DOMAIN queued, told, heard)
      /\ stops = 0 => ~superseded
  BY DEF Own
<1>5. Line(asks, entries, DOMAIN queued, superseded, Tail(toStation), toVehicle)
  <2>1. InTurn(Tail(toStation), toVehicle) /\ OnTheWay(Tail(toStation), toVehicle) = way
    BY <1>1, <1>2, <1>4, ArrivedInTurn DEF Line
  <2> QED BY <1>4, <2>1 DEF Line
<1>6. told \in [Asks -> Seq(Outcomes)]
      /\ DOMAIN entries \cup DOMAIN queued \subseteq 1 .. asks /\ asks <= asks
  BY <1>2 DEF Good, Settled
<1>7. ASSUME NEW results, \A t \in DOMAIN results : results[t] = "Received"
      PROVE  Heard(asks, DOMAIN entries \cup DOMAIN queued, After(results), heard)
  <2>1. \A t \in DOMAIN results :
          results[t] # "Accepted" /\ results[t] # "Denied" /\ results[t] # "NoResponse"
    BY <1>7
  <2> QED BY <1>2, <1>4, <1>6, <2>1, ToldAndHeard
<1>8. CASE UNCHANGED <<entries, requests, queued, toVehicle, told>>
  BY <1>1, <1>4, <1>5, <1>8 DEF Own
<1>9. ASSUME NEW t \in DOMAIN requests, requests[t].acked,
             Continue(entries, Without(requests, {t}), Telling({t}, "Received"))
      PROVE  Own'
  <2> DEFINE results == Telling({t}, "Received")
             active == Without(requests, {t})
  <2>1. \A u \in DOMAIN results : results[u] = "Received"
    BY DEF Telling
  <2>2. Holding(entries, "Request") = {}
    <3>1. \A u \in DOMAIN entries : entries[u].code = "Request" => u \in DOMAIN requests
                                                                     /\ ~requests[u].acked
      BY <1>2 DEF Good, Settled
    <3>2. \A u \in DOMAIN requests : u = t
      BY <1>2 DEF Good, Settled
    <3> QED BY <1>9, <3>1, <3>2 DEF Holding
  <2>3. /\ DOMAIN queued \subseteq 1 .. asks /\ queued \in [DOMAIN queued -> Messages]
        /\ \A u \in DOMAIN queued : u \notin DOMAIN entries
    BY <1>2 DEF Good, Settled
  <2> HIDE DEF results, active
  <2>4. Continue(entries, active, results)
    BY <1>9 DEF results, active
  <2>5. /\ Line(asks, entries', DOMAIN queued', superseded, Tail(toStation), toVehicle')
        /\ DOMAIN entries' \cup DOMAIN queued' = DOMAIN entries \cup DOMAIN queued
        /\ told' = After(results)
    BY <1>2, <1>3, <1>5, <2>2, <2>3, <2>4, ServedInLine
  <2>6. Heard(asks, DOMAIN entries \cup DOMAIN queued, After(results), heard)
    BY <1>7, <2>1
  <2> QED BY <1>1, <1>4, <2>5, <2>6 DEF Own
<1>10. ASSUME NEW t \in DOMAIN requests, Tell(Telling({t}, "Received")),
              UNCHANGED <<entries, queued, toVehicle>>
       PROVE  Own'
  <2> DEFINE results == Telling({t}, "Received")
  <2>1. (\A u \in DOMAIN results : results[u] = "Received") /\ told' = After(results)
    BY <1>10 DEF Telling, Tell
  <2> HIDE DEF results
  <2>2. Heard(asks, DOMAIN entries \cup DOMAIN queued, After(results), heard)
    BY <1>7, <2>1
  <2> QED BY <1>1, <1>4, <1>5, <1>10, <2>1, <2>2 DEF Own
<1> QED BY <1>8, <1>9, <1>10 DEF OnMessage

\* An ack ends the entry it is of, or is that of the superseded arm and skipped.
LEMMA AckOwn ==
  ASSUME Calm, IInv, Own, StationReceive, Head(toStation).type = "Ack",
         OnAck(Head(toStation).code, Head(toStation).result),
         heard' = IF Head(toStation).tag \in DOMAIN entries
                       /\ Head(toStation).result # "InProgress"
                  THEN heard \cup {<<Head(toStation).tag, Head(toStation).result>>}
                  ELSE heard
  PROVE  Own'
<1>1. /\ toStation # <<>> /\ toStation' = Tail(toStation)
      /\ UNCHANGED <<asks, stops>>
  BY DEF StationReceive, counters
<1>2. /\ Good(asks, entries, requests, queued, told) /\ asks \in 0 .. MaxAsks /\ asks \in Nat
      /\ toVehicle \in Seq(VehicleMessage) /\ toStation \in Seq(StationMessage)
      /\ superseded \in BOOLEAN
  BY DEF IInv
<1>3. Tail(toStation) \in Seq(StationMessage) /\ Head(toStation) \in StationMessage
  BY <1>1, <1>2, HeadTailProperties
<1>4. /\ Line(asks, entries, DOMAIN queued, superseded, toStation, toVehicle)
      /\ Heard(asks, DOMAIN entries \cup DOMAIN queued, told, heard)
      /\ stops = 0 => ~superseded
  BY DEF Own
<1> DEFINE way == OnTheWay(toStation, toVehicle)
           way2 == OnTheWay(Tail(toStation), toVehicle)
<1>5. PICK g, code, result :
        g = Head(toStation).tag /\ code = Head(toStation).code /\ result = Head(toStation).result
  OBVIOUS
<1>6. code \in Codes /\ result \in AckResults
  BY <1>3, <1>5 DEF StationMessage
<1>7. /\ InTurn(Tail(toStation), toVehicle)
      /\ result = "InProgress" => way2 = way /\ code # "Arm"
      /\ result # "InProgress" =>
           /\ <<g, code>> \notin way2
           /\ way = way2 \cup {<<g, code>>}
           /\ \A p \in way2 : p[2] = code => g < p[1]
  BY <1>1, <1>2, <1>4, <1>5, ArrivedInTurn DEF Line
<1>8. Lined(asks, entries, DOMAIN queued, superseded, way)
  BY <1>4 DEF Line
<1>9. OnAck(code, result)
  BY <1>5
<1>10. heard' = IF g \in DOMAIN entries /\ result # "InProgress"
                THEN heard \cup {<<g, result>>} ELSE heard
  BY <1>5
<1>11. /\ told \in [Asks -> Seq(Outcomes)] /\ asks <= asks /\ DOMAIN entries \subseteq 1 .. asks
       /\ DOMAIN queued \subseteq 1 .. asks /\ queued \in [DOMAIN queued -> Messages]
       /\ \A t \in DOMAIN queued : t \notin DOMAIN entries
       /\ DOMAIN entries \subseteq Nat
  BY <1>2 DEF Good, Settled
<1> HIDE DEF way, way2
\* In progress: nothing is told, but on PX4.
<1>12. CASE result = "InProgress"
  <2>1. ~Swallowed(code)
    BY <1>7, <1>12 DEF Swallowed
  <2>2. /\ UNCHANGED <<superseded, queued, toVehicle, told, heard>>
        /\ DOMAIN entries' = DOMAIN entries
        /\ \A t \in DOMAIN entries : entries'[t].code = entries[t].code
    <3>1. CASE Holding(entries, code) = {}
      BY <1>9, <1>10, <1>12, <2>1, <3>1 DEF OnAck, coordinator
    <3>2. CASE Holding(entries, code) # {}
      <4>1. /\ \E t : entries' = [entries EXCEPT ![t].max = 1]
            /\ UNCHANGED <<superseded, queued, toVehicle, told, heard>>
        BY <1>9, <1>10, <1>12, <2>1, <3>2 DEF OnAck, Calm
      <4>2. PICK t : entries' = [entries EXCEPT ![t].max = 1]
        BY <4>1
      <4>3. \A u \in DOMAIN entries : entries[u] \in Entry
        BY <1>2 DEF Good, Settled
      <4>4. DOMAIN entries' = DOMAIN entries
        BY <4>2
      <4>5. \A u \in DOMAIN entries : entries'[u].code = entries[u].code
        BY <4>2, <4>3 DEF Entry
      <4> QED BY <4>1, <4>4, <4>5
    <3> QED BY <3>1, <3>2
  <2>3. Lined(asks, entries', DOMAIN queued, superseded, way2)
    <3>1. way2 = way
      BY <1>7, <1>12
    <3> QED BY <1>2, <1>8, <1>11, <2>2, <3>1, LinedAlike
  <2> QED BY <1>1, <1>4, <1>7, <2>2, <2>3 DEF Own, Line, way2
\* The end of the superseded arm.
<1>13. CASE result # "InProgress" /\ Swallowed(code)
  <2>1. superseded /\ code = "Arm"
    BY <1>13 DEF Swallowed
  <2>2. superseded' = FALSE /\ UNCHANGED <<entries, queued, toVehicle, told>>
    BY <1>9, <1>13 DEF OnAck
  <2>3. g \notin DOMAIN entries /\ Lined(asks, entries, DOMAIN queued, FALSE, way2)
    BY <1>2, <1>7, <1>8, <1>11, <1>13, <2>1, LinedHead
  <2>4. heard' = heard
    BY <1>10, <2>3
  <2> QED BY <1>1, <1>4, <1>7, <2>2, <2>3, <2>4 DEF Own, Line, way2
\* The end of an entry: of the one the ack is of.
<1>14. CASE result # "InProgress" /\ ~Swallowed(code)
  <2> DEFINE held == Without(entries, {g})
  <2>1. /\ g \in Holding(entries, code) /\ First(Holding(entries, code)) = g
        /\ Lined(asks, held, DOMAIN queued, superseded, way2)
    <3>1. ~(superseded /\ code = "Arm")
      BY <1>14 DEF Swallowed
    <3> QED BY <1>2, <1>7, <1>8, <1>11, <1>14, <3>1, LinedHead
  <2>2. g \in DOMAIN entries /\ g \in 1 .. asks /\ g \notin DOMAIN queued
        /\ Holding(entries, code) # {}
    BY <1>11, <2>1 DEF Holding
  <2>3. DOMAIN held = DOMAIN entries \ {g} /\ \A u \in DOMAIN held : held[u] = entries[u]
    BY DEF Without
  <2> HIDE DEF held
  <2>4. heard' = heard \cup {<<g, result>>}
    BY <1>10, <1>14, <2>2
  <2>5. result \in {"Accepted", "Denied"}
    BY <1>6, <1>14 DEF AckResults
  <2>6. UNCHANGED superseded
    BY <1>9, <1>14, <2>2 DEF OnAck
  <2>7. Line(asks, held, DOMAIN queued, superseded, Tail(toStation), toVehicle)
    BY <1>7, <2>1 DEF Line, way2
  <2>8. ASSUME NEW results, DOMAIN results \subseteq {g},
               \A t \in DOMAIN results : results[t] = result
        PROVE  Heard(asks, DOMAIN held \cup DOMAIN queued, After(results),
                     heard \cup {<<g, result>>})
    <3> DEFINE pending == DOMAIN entries \cup DOMAIN queued
               pending2 == DOMAIN held \cup DOMAIN queued
               hd2 == heard \cup {<<g, result>>}
    <3>1. pending2 \subseteq 1 .. asks /\ \A t \in pending2 : t \in pending
      BY <1>11, <2>3
    <3>2. \A a \in hd2 : a \in heard \/ (a[1] \in pending /\ a[1] \in 1 .. asks
                                           /\ a[1] \notin pending2)
      BY <2>2, <2>3
    <3>3. \A t \in DOMAIN results : <<t, results[t]>> \in hd2 /\ results[t] # "NoResponse"
      BY <2>5, <2>8
    <3>4. heard \subseteq hd2 /\ Heard(asks, pending, told, heard)
      BY <1>4
    <3> HIDE DEF pending, pending2, hd2
    <3>5. Heard(asks, pending2, After(results), hd2)
      BY <1>2, <1>11, <3>1, <3>2, <3>3, <3>4, ToldAndHeard
    <3> QED BY <3>5 DEF pending2, hd2
  <2>9. Heard(asks, DOMAIN held \cup DOMAIN queued, told, heard \cup {<<g, result>>})
    <3>1. After(Nothing) = told /\ DOMAIN Nothing = {}
      BY <1>11, NobodyAnswered
    <3> QED BY <2>8, <3>1
  <2>10. /\ DOMAIN Telling({g}, result) = {g}
         /\ \A t \in DOMAIN Telling({g}, result) : Telling({g}, result)[t] = result
    BY DEF Telling
  <2>11. CASE code # "Request"
    <3>1. entries' = held /\ Tell(Telling({g}, result)) /\ UNCHANGED <<queued, toVehicle>>
      BY <1>9, <1>14, <2>1, <2>2, <2>11 DEF OnAck, held
    <3>2. Heard(asks, DOMAIN held \cup DOMAIN queued, told', heard \cup {<<g, result>>})
      BY <2>8, <2>10, <3>1 DEF Tell
    <3> QED BY <1>1, <1>4, <2>4, <2>6, <2>7, <3>1, <3>2 DEF Own
  <2>12. CASE code = "Request"
    <3>1. RequestAcked(g, result, held)
      BY <1>9, <1>14, <2>1, <2>2, <2>12 DEF OnAck, held
    <3>2. Holding(held, "Request") = {}
      <4>1. \A u \in Holding(entries, "Request") : u = g
        <5>1. \A u \in Holding(entries, "Request") : u \in DOMAIN requests
          BY <1>2 DEF Good, Settled, Holding
        <5>2. g \in DOMAIN requests
          BY <2>1, <2>12, <5>1
        <5> QED BY <1>2, <5>1, <5>2 DEF Good, Settled
      <4> QED BY <2>3, <4>1 DEF Holding
    <3>3. ASSUME NEW results, DOMAIN results \subseteq {g},
                 \A t \in DOMAIN results : results[t] = result,
                 Continue(held, Without(requests, {g}), results)
          PROVE  Own'
      <4> DEFINE active == Without(requests, {g})
      <4> HIDE DEF active
      <4>1. Continue(held, active, results) /\ \A t \in DOMAIN queued : t \notin DOMAIN held
        BY <1>11, <2>3, <3>3 DEF active
      <4>2. /\ Line(asks, entries', DOMAIN queued', superseded, Tail(toStation), toVehicle')
            /\ DOMAIN entries' \cup DOMAIN queued' = DOMAIN held \cup DOMAIN queued
            /\ told' = After(results)
        BY <1>2, <1>3, <1>11, <2>7, <3>2, <4>1, ServedInLine
      <4>3. Heard(asks, DOMAIN held \cup DOMAIN queued, After(results),
                  heard \cup {<<g, result>>})
        BY <2>8, <3>3
      <4> QED BY <1>1, <1>4, <2>4, <2>6, <4>2, <4>3 DEF Own
    <3>4. CASE entries' = held /\ UNCHANGED <<queued, toVehicle, told>>
      BY <1>1, <1>4, <2>4, <2>6, <2>7, <2>9, <3>4 DEF Own
    <3>5. CASE Continue(held, Without(requests, {g}), Nothing)
      <4>1. DOMAIN Nothing = {}
        BY DEF Nothing
      <4> QED BY <3>3, <3>5, <4>1
    <3>6. CASE Continue(held, Without(requests, {g}), Telling({g}, result))
      BY <2>10, <3>3, <3>6
    <3> QED BY <3>1, <3>4, <3>5, <3>6 DEF RequestAcked
  <2> QED BY <2>11, <2>12
<1> QED BY <1>12, <1>13, <1>14

LEMMA OwnKept ==
  ASSUME Calm, IInv, Own, [Next]_vars
  PROVE  Own'
<1>1. ASSUME NEW t \in Asks, Caller(t) PROVE Own'
  BY <1>1, SendOwn, SendToAllOwn, EmergencyStopOwn, RequestMessageOwn DEF Caller
<1>2. ASSUME NEW message \in Messages, AskOutside(message) PROVE Own'
  <2>1. outside \in 0 .. 0 /\ outside < 0
    BY <1>2 DEF AskOutside, IInv, Calm
  <2> QED BY <2>1
<1>3. CASE StationReceive
  <2>1. CASE Head(toStation).type = "Message" /\ OnMessage(Head(toStation).message)
    BY <1>3, <2>1, MessageOwn
  <2>2. CASE ~(Head(toStation).type = "Message" /\ OnMessage(Head(toStation).message))
    <3>1. /\ Head(toStation).type = "Ack" /\ OnAck(Head(toStation).code, Head(toStation).result)
          /\ heard' = IF Head(toStation).tag \in DOMAIN entries
                           /\ Head(toStation).result # "InProgress"
                      THEN heard \cup {<<Head(toStation).tag, Head(toStation).result>>}
                      ELSE heard
      BY <1>3, <2>2 DEF StationReceive
    <3> QED BY <1>3, <3>1, AckOwn
  <2> QED BY <2>1, <2>2
<1>4. CASE UNCHANGED vars
  BY <1>4 DEF vars, counters, coordinator, Own
<1> QED BY <1>1, <1>2, <1>3, <1>4, TickOwn, VehicleReceiveOwn DEF Next

LEMMA InitIsOwn == Init => Own
<1> SUFFICES ASSUME Init PROVE Own
  OBVIOUS
<1>1. OnTheWay(toStation, toVehicle) = {} /\ InTurn(toStation, toVehicle)
  BY DEF Init, OnTheWay, InTurn, Finals
<1>2. DOMAIN entries = {} /\ DOMAIN queued = {} /\ superseded = FALSE /\ heard = {}
  BY DEF Init, Nothing
<1>3. Line(asks, entries, DOMAIN queued, superseded, toStation, toVehicle)
  BY <1>1, <1>2 DEF Line, Lined, Gone, Holding
<1>4. \A t \in Asks : told[t] = <<>>
  BY DEF Init
<1>5. \A r : <<>> # <<r>>
  OBVIOUS
<1> QED BY <1>2, <1>3, <1>4, <1>5 DEF Own, Heard

\* While nothing is lost, late or sent past the coordinator, and there is one stop at most,
\* whoever asked is told the vehicle's answer to that very command, whatever else of its
\* kind is pending, and no command whose answer came is reported unanswered (on_ack,
\* superseded, tick).
THEOREM AnswersStayOwn == Calm => (Spec => [](AnswersAreOwn /\ AcksAreHeard))
<1> SUFFICES ASSUME Calm PROVE Spec => [](AnswersAreOwn /\ AcksAreHeard)
  OBVIOUS
<1>1. Init => IInv
  BY InitIsGood
<1>2. Init => Own
  BY InitIsOwn
<1>3. IInv /\ [Next]_vars => IInv'
  BY NextStep
<1>4. IInv /\ Own /\ [Next]_vars => Own'
  BY OwnKept
<1>5. Own => AnswersAreOwn /\ AcksAreHeard
  BY DEF Own, Heard, AnswersAreOwn, AcksAreHeard
<1> QED BY <1>1, <1>2, <1>3, <1>4, <1>5, PTL DEF Spec
=============================================================================
