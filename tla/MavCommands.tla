---------------------------- MODULE MavCommands -----------------------------
(***************************************************************************)
(* The command coordinator of a vehicle (mavcmd.rs): what it holds for one *)
(* component, the component that answers, and the network between them.    *)
(* Nothing it holds for one component touches another, but that a tick     *)
(* gives up one message wait at a time.                                    *)
(*                                                                         *)
(* Each command, and each ask for a message, is numbered in the order it   *)
(* is made.  The vectors of the code only grow at their end, so each is a  *)
(* function on these numbers here: its first element is the one with the   *)
(* least number.                                                           *)
(***************************************************************************)
EXTENDS Integers, Sequences

CONSTANTS
  Messages,   \* message ids that may be requested
  Px4,        \* Commands.px4
  MaxRetry,   \* MAX_RETRY: how often a command that is retried goes out
  MaxAsks,    \* bound of the model: commands and requests made
  MaxStops,   \* bound of the model: emergency stops among them
  MaxOutside, \* bound of the model: requests sent past the coordinator
  Lossy,      \* the network may lose messages
  Prompt,     \* whatever arrives at all arrives before a timer fires
  Capacity    \* bound of the model: messages in flight per direction

ASSUME ConstantsAssumption ==
  /\ MaxRetry \in Nat /\ MaxRetry >= 1 /\ MaxAsks \in Nat /\ MaxStops \in Nat
  /\ MaxOutside \in Nat /\ Capacity \in Nat
  /\ Px4 \in BOOLEAN /\ Lossy \in BOOLEAN /\ Prompt \in BOOLEAN

VARIABLES
  asks,       \* how many commands and requests were made
  entries,    \* Commands.entries: sent and not answered
  requests,   \* Commands.requests: messages under way
  queued,     \* Commands.queued: messages that wait their turn
  superseded, \* Commands.superseded has the arm command
  stops, outside, \* emergency stops and outside requests so far
  toVehicle, toStation, \* in flight
  told,       \* history: the results given for each ask (of a request its RequestResult)
  heard       \* history: each ask's own answers that arrived while it was pending

coordinator == <<entries, requests, queued, superseded>>
counters == <<asks, stops, outside>>
vars == <<counters, coordinator, toVehicle, toStation, told, heard>>

Asks == 1 .. MaxAsks
Outside == 0 \* the number of whatever is sent past the coordinator
Codes == {"Arm", "Interval", "Autotune", "Request"}
AckResults == {"Accepted", "Denied", "InProgress"}
Outcomes == AckResults \cup {"Failed", "Duplicate", "NoResponse", "NoMessage", "Received"}

Nothing == [t \in {} |-> t]
Without(f, gone) == [t \in DOMAIN f \ gone |-> f[t]]
Added(f, t, value) == [u \in DOMAIN f \cup {t} |-> IF u = t THEN value ELSE f[u]]
First(set) == CHOOSE n \in set : \A m \in set : n <= m

\* retries: of the commands modelled only REQUEST_MESSAGE is sent again.
MaxTriesOnceMore(code) == \* fault: off by one
  IF code = "Request" THEN MaxRetry + 1 ELSE 1
MaxTries(code) == IF code = "Request" THEN MaxRetry ELSE 1
CanDuplicate(code) == code = "Interval"
Holding(held, code) == {t \in DOMAIN held : held[t].code = code}
NewEntry(code) == [code |-> code, tries |-> 1, max |-> MaxTries(code)]
NewRequest(message) == [message |-> message, acked |-> FALSE, received |-> FALSE]

-----------------------------------------------------------------------------
ToVehicle(t, code, message) ==
  toVehicle' \in (IF Lossy THEN {toVehicle} ELSE {}) \cup
    (IF Len(toVehicle) < Capacity
     THEN {Append(toVehicle, [tag |-> t, code |-> code, message |-> message])} ELSE {})

NoMessage == "None" \* a command that asks for no message

\* Out::Result and Out::RequestResult, for the asks in the domain of results.
After(results) ==
  [t \in Asks |-> IF t \in DOMAIN results THEN Append(told[t], results[t]) ELSE told[t]]
Tell(results) == told' = After(results)
Telling(set, outcome) == [t \in set |-> outcome]

ContinueForgetting(held, active, results) == \* fault: the queue is not served
  /\ entries' = held /\ requests' = active /\ Tell(results)
  /\ UNCHANGED <<queued, toVehicle>>

\* release and send_next, once entries and requests hold only held and active: the
\* next queued request goes out if none is under way.  Were a REQUEST_MESSAGE still
\* pending then, each queued one in turn would be refused as its duplicate.
Continue(held, active, results) ==
  IF DOMAIN active # {} \/ DOMAIN queued = {} THEN
    /\ entries' = held /\ requests' = active /\ Tell(results)
    /\ UNCHANGED <<queued, toVehicle>>
  ELSE IF Holding(held, "Request") # {} THEN
    /\ entries' = held /\ requests' = active /\ queued' = Nothing
    /\ Tell([t \in DOMAIN results \cup DOMAIN queued |->
               IF t \in DOMAIN results THEN results[t] ELSE "Duplicate"])
    /\ UNCHANGED toVehicle
  ELSE LET next == First(DOMAIN queued) IN
    /\ entries' = Added(held, next, NewEntry("Request"))
    /\ requests' = Added(active, next, NewRequest(queued[next]))
    /\ queued' = Without(queued, {next})
    /\ ToVehicle(next, "Request", queued[next])
    /\ Tell(results)

-----------------------------------------------------------------------------
(* Commands and requests.                                                  *)

Ask(t) == asks < MaxAsks /\ t = asks + 1 /\ asks' = t

\* enqueue, before those in kept only: a second of its kind is refused.
Enqueue(t, code, kept, results) ==
  IF Holding(kept, code) # {} /\ ~CanDuplicate(code) THEN
    /\ entries' = kept
    /\ Tell(Added(results, t, "Duplicate"))
    /\ UNCHANGED toVehicle
  ELSE
    /\ entries' = Added(kept, t, NewEntry(code))
    /\ Tell(results)
    /\ ToVehicle(t, code, NoMessage)

Send(t, code) ==
  /\ code # "Request"
  /\ Ask(t)
  /\ Enqueue(t, code, entries, Nothing)
  /\ UNCHANGED <<requests, queued, superseded, stops, outside, toStation, heard>>

\* COMP_ID_ALL has no coordinator: refused at once.
SendToAll(t) ==
  /\ Ask(t)
  /\ Tell(Telling({t}, "Failed"))
  /\ UNCHANGED <<coordinator, stops, outside, toVehicle, toStation, heard>>

Supersede(older) == superseded' = (superseded \/ older # {})

\* send, of an emergency stop: what waits for an arm or disarm gives way to it.
EmergencyStop(t) ==
  LET older == Holding(entries, "Arm") IN
  /\ stops < MaxStops /\ stops' = stops + 1
  /\ Ask(t)
  /\ Supersede(older)
  /\ Enqueue(t, "Arm", Without(entries, older), Telling(older, "Failed"))
  /\ UNCHANGED <<requests, queued, outside, toStation, heard>>

ActiveIgnored == FALSE \* fault: requests do not wait their turn
Active == DOMAIN requests # {}

RequestMessage(t, message) ==
  LET duplicate ==
        \/ \E u \in DOMAIN requests : requests[u].message = message /\ ~requests[u].received
        \/ \E u \in DOMAIN queued : queued[u] = message
  IN
  /\ Ask(t)
  /\ \/ /\ duplicate
        /\ Tell(Telling({t}, "Duplicate"))
        /\ UNCHANGED <<entries, requests, queued, toVehicle>>
     \/ /\ ~duplicate /\ Active
        /\ queued' = Added(queued, t, message)
        /\ UNCHANGED <<entries, requests, toVehicle, told>>
     \/ /\ ~duplicate /\ ~Active
        /\ IF Holding(entries, "Request") # {}
           THEN /\ Tell(Telling({t}, "Duplicate"))
                /\ UNCHANGED <<entries, requests, toVehicle>>
           ELSE /\ entries' = Added(entries, t, NewEntry("Request"))
                /\ requests' = Added(requests, t, NewRequest(message))
                /\ ToVehicle(t, "Request", message)
                /\ UNCHANGED told
        /\ UNCHANGED queued
  /\ UNCHANGED <<superseded, stops, outside, toStation, heard>>

\* tick_version_ask and camera_commands send REQUEST_MESSAGE on their own; its ack
\* comes back like any other.
AskOutside(message) ==
  /\ outside < MaxOutside /\ outside' = outside + 1
  /\ ToVehicle(Outside, "Request", message)
  /\ UNCHANGED <<asks, stops, coordinator, toStation, told, heard>>

\* tick: the entries in due have waited long enough for an ack, the requests in gone
\* (one at most) for their message.
Expire(due, gone) ==
  LET lost == {t \in due : entries[t].tries >= entries[t].max}
      again == due \ lost
      held == [t \in DOMAIN entries \ lost |->
                 IF t \in again THEN [entries[t] EXCEPT !.tries = @ + 1] ELSE entries[t]]
      unanswered == {t \in lost : t \in DOMAIN requests => ~requests[t].received}
      results == [t \in unanswered \cup gone |->
                    IF t \in gone THEN "NoMessage" ELSE "NoResponse"]
      closed == (lost \cup gone) \cap DOMAIN requests
  IN
  /\ due \cup gone # {}
  /\ IF closed # {}
     THEN Continue(held, Without(requests, closed), results)
     ELSE /\ entries' = held /\ Tell(results)
          /\ IF again = {} THEN UNCHANGED toVehicle
             ELSE \E t \in again : ToVehicle(t, entries[t].code, requests[t].message)
          /\ UNCHANGED <<requests, queued>>

Waiting == {t \in DOMAIN requests : requests[t].acked}

Tick ==
  /\ Prompt => toVehicle = <<>> /\ toStation = <<>>
  /\ \E due \in SUBSET DOMAIN entries :
       \E gone \in {{}} \cup {{t} : t \in Waiting} : Expire(due, gone)
  /\ UNCHANGED <<counters, superseded, toStation, heard>>

-----------------------------------------------------------------------------
(* Answers.                                                                *)

DeliveredTwice(t) == FALSE \* fault: a message that comes again is delivered again
Delivered(t) == requests[t].received

OnMessage(message) ==
  LET of == {t \in DOMAIN requests : requests[t].message = message} IN
  /\ \/ /\ \A t \in of : Delivered(t)
        /\ UNCHANGED <<entries, requests, queued, toVehicle, told>>
     \/ \E t \in of :
          /\ ~Delivered(t) /\ requests[t].acked
          /\ Continue(entries, Without(requests, {t}), Telling({t}, "Received"))
     \/ \E t \in of :
          /\ ~Delivered(t) /\ ~requests[t].acked
          /\ requests' = [requests EXCEPT ![t].received = TRUE]
          /\ Tell(Telling({t}, "Received"))
          /\ UNCHANGED <<entries, queued, toVehicle>>
  /\ UNCHANGED <<superseded, heard>>

\* request_acked, for the request t whose entry is gone.
RequestAcked(t, result, held) ==
  \/ /\ t \notin DOMAIN requests
     /\ entries' = held /\ UNCHANGED <<requests, queued, toVehicle, told>>
  \/ /\ t \in DOMAIN requests /\ requests[t].received
     /\ Continue(held, Without(requests, {t}), Nothing)
  \/ /\ t \in DOMAIN requests /\ ~requests[t].received /\ result # "Accepted"
     /\ Continue(held, Without(requests, {t}), Telling({t}, result))
  \/ /\ t \in DOMAIN requests /\ ~requests[t].received /\ result = "Accepted"
     /\ entries' = held
     /\ requests' = [requests EXCEPT ![t].acked = TRUE]
     /\ UNCHANGED <<queued, toVehicle, told>>

SwallowedAny(code) == superseded \* fault: any ack is taken for the superseded one
Swallowed(code) == superseded /\ code = "Arm"

OnAck(code, result) ==
  \/ /\ Swallowed(code)
     /\ superseded' = FALSE
     /\ UNCHANGED <<entries, requests, queued, toVehicle, told>>
  \/ /\ ~Swallowed(code) /\ Holding(entries, code) = {}
     /\ UNCHANGED <<coordinator, toVehicle, told>>
  \/ /\ ~Swallowed(code) /\ Holding(entries, code) # {}
     /\ LET t == First(Holding(entries, code))
            held == Without(entries, {t})
        IN
        \/ /\ result = "InProgress" /\ Px4 /\ code = "Autotune"
           /\ entries' = held /\ Tell(Telling({t}, result))
           /\ UNCHANGED <<requests, queued, toVehicle>>
        \/ /\ result = "InProgress" /\ ~(Px4 /\ code = "Autotune")
           /\ entries' = [entries EXCEPT ![t].max = 1]
           /\ UNCHANGED <<requests, queued, toVehicle, told>>
        \/ /\ result # "InProgress" /\ code # "Request"
           /\ entries' = held /\ Tell(Telling({t}, result))
           /\ UNCHANGED <<requests, queued, toVehicle>>
        \/ /\ result # "InProgress" /\ code = "Request"
           /\ RequestAcked(t, result, held)
     /\ UNCHANGED superseded

StationReceive ==
  /\ toStation # <<>>
  /\ LET m == Head(toStation) IN
       \/ m.type = "Message" /\ OnMessage(m.message)
       \/ /\ m.type = "Ack" /\ OnAck(m.code, m.result)
          /\ heard' = IF m.tag \in DOMAIN entries /\ m.result # "InProgress"
                      THEN heard \cup {<<m.tag, m.result>>} ELSE heard
  /\ toStation' = Tail(toStation)
  /\ UNCHANGED counters

-----------------------------------------------------------------------------
(* The component: it answers each command as it likes, and sends a message *)
(* it was asked for before its ack or after it.                            *)

Replies(m) ==
  LET Ack(result) == [type |-> "Ack", tag |-> m.tag, code |-> m.code, result |-> result]
      message == [type |-> "Message", message |-> m.message]
  IN CASE m.code \in {"Arm", "Interval"} -> {<<Ack("Accepted")>>, <<Ack("Denied")>>}
       [] m.code = "Autotune" ->
            {<<Ack("InProgress")>>, <<Ack("InProgress"), Ack("Accepted")>>, <<Ack("Denied")>>}
       [] m.code = "Request" ->
            {<<Ack("InProgress"), Ack("Denied")>>, <<Ack("Accepted")>>,
             <<Ack("Accepted"), message>>, <<message, Ack("Accepted")>>}

\* What is left of a reply on its way.
Arriving(reply) ==
  {reply} \cup (IF Lossy THEN {<<>>} \cup {<<reply[i]>> : i \in DOMAIN reply} ELSE {})

VehicleReceive ==
  /\ toVehicle # <<>> /\ Len(toStation) < Capacity
  /\ \E reply \in Replies(Head(toVehicle)) :
       toStation' \in {toStation \o arriving : arriving \in Arriving(reply)}
  /\ toVehicle' = Tail(toVehicle)
  /\ UNCHANGED <<counters, coordinator, told, heard>>

-----------------------------------------------------------------------------
Init ==
  /\ asks = 0 /\ stops = 0 /\ outside = 0
  /\ entries = Nothing /\ requests = Nothing /\ queued = Nothing
  /\ superseded = FALSE
  /\ toVehicle = <<>> /\ toStation = <<>>
  /\ told = [t \in Asks |-> <<>>] /\ heard = {}

Caller(t) ==
  \/ \E code \in Codes : Send(t, code)
  \/ SendToAll(t)
  \/ EmergencyStop(t)
  \/ \E message \in Messages : RequestMessage(t, message)

Next ==
  \/ \E t \in Asks : Caller(t)
  \/ \E message \in Messages : AskOutside(message)
  \/ Tick \/ StationReceive \/ VehicleReceive

Spec == Init /\ [][Next]_vars

\* Every tick looks at every entry and every wait, and clocks run on, so one that
\* stays is found due.
TickOf(t) ==
  /\ Prompt => toVehicle = <<>> /\ toStation = <<>>
  /\ \/ t \in DOMAIN entries /\ Expire({t}, {})
     \/ t \in Waiting /\ Expire({}, {t})
  /\ UNCHANGED <<counters, superseded, toStation, heard>>

Fairness ==
  /\ WF_vars(StationReceive) /\ WF_vars(VehicleReceive)
  /\ \A t \in Asks : WF_vars(TickOf(t))

FairSpec == Spec /\ Fairness

-----------------------------------------------------------------------------
(* Properties.                                                             *)

Entry == [code : Codes, tries : 1 .. MaxRetry, max : 1 .. MaxRetry]
Request == [message : Messages, acked : BOOLEAN, received : BOOLEAN]
Holds(held, range) == DOMAIN held \subseteq 1 .. asks /\ held \in [DOMAIN held -> range]

VehicleMessage ==
  [tag : 0 .. MaxAsks, code : Codes, message : Messages \cup {NoMessage}]
StationMessage ==
  [type : {"Ack"}, tag : 0 .. MaxAsks, code : Codes, result : AckResults]
    \cup [type : {"Message"}, message : Messages \cup {NoMessage}]

\* Every variable keeps its type; only asks that were made are held, and no command
\* goes out more often than MAX_RETRY.
TypeOK ==
  /\ asks \in 0 .. MaxAsks /\ stops \in 0 .. MaxStops /\ outside \in 0 .. MaxOutside
  /\ Holds(entries, Entry)
  /\ Holds(requests, Request)
  /\ Holds(queued, Messages)
  /\ superseded \in BOOLEAN
  /\ told \in [Asks -> Seq(Outcomes)]
  /\ toVehicle \in Seq(VehicleMessage) /\ toStation \in Seq(StationMessage)

\* A component is asked for one message at a time, and a REQUEST_MESSAGE is pending
\* exactly while the request under way has no ack: so the ack that comes is for that
\* request, nothing queued is refused as a duplicate of it, and nothing stays queued
\* with no request under way to make room for it.
OneRequestAtATime ==
  /\ \A t, u \in DOMAIN requests : t = u
  /\ Holding(entries, "Request") = {t \in DOMAIN requests : ~requests[t].acked}
  /\ \A t \in DOMAIN requests : ~(requests[t].acked /\ requests[t].received)
  /\ DOMAIN queued # {} => DOMAIN requests # {}

Promise == INSTANCE CommandPromise WITH asked <- 1 .. asks, answer <- told

\* Each command and each request is answered at most once, by an ack, a message, a
\* timeout, a refusal or a stop, whichever of them come and in whatever order.
KeepsPromise == Promise!Spec

\* While nothing is lost or late, whoever asked is told what the vehicle answered to
\* that very command, never its answer to another.
AnswersAreOwn ==
  \A t \in Asks : \A result \in {"Accepted", "Denied"} :
    told[t] = <<result>> => <<t, result>> \in heard

\* A command whose answer arrived while it was waited for is not reported unanswered.
AcksAreHeard == \A answer \in heard : told[answer[1]] # <<"NoResponse">>

\* Every command and every request is answered in the end, those in the queue too.
EveryAskIsAnswered == \A t \in Asks : (t <= asks) ~> (told[t] # <<>>)
=============================================================================
