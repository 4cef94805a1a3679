----------------------------- MODULE ParamWrites ----------------------------
(***************************************************************************)
(* The reads and writes of parameters by name (params.rs), once the list   *)
(* of them is loaded: the requests of one component, the link to it and    *)
(* the vehicle that answers.  A value is the number of the write that gave *)
(* it (0: the vehicle's own).                                              *)
(***************************************************************************)
EXTENDS Integers, Sequences, FiniteSets

CONSTANTS
  Names,
  Values,
  MaxInFlight, \* MAX_WRITES_IN_FLIGHT
  MaxResends,  \* MAX_READ_WRITE_RETRY
  Fresh,       \* no value is written to a parameter twice
  Prompt,      \* an answer comes within VALUE_ACK_TIMEOUT_MS or not at all
  Apart,       \* a calibration does not ask for a parameter that is being read
  MaxAsks,     \* bound of the model: writes and reads asked for
  Capacity     \* bound of the model: messages in flight each way

ASSUME ParamAssumption ==
  /\ IsFiniteSet(Names) /\ 0 \in Values
  /\ MaxInFlight \in Nat \ {0} /\ MaxResends \in Nat
  /\ Fresh \in BOOLEAN /\ Prompt \in BOOLEAN /\ Apart \in BOOLEAN
  /\ MaxAsks \in Nat /\ Capacity \in Nat

VARIABLES
  facts,     \* facts: the values the station shows
  reads,     \* requests: the Read ones, by name
  writes,    \* requests: the Write ones, by name
  toVehicle, \* PARAM_SET and PARAM_REQUEST_READ in flight
  toStation, \* PARAM_VALUE and PARAM_ERROR in flight
  onBoard,   \* the vehicle's values
  treats,    \* what the vehicle does with a PARAM_SET
  tried,     \* values written so far
  unwritten, \* names with a WriteFailed since they were last written
  unread,    \* names with a ReadFailed since their value last came
  asks       \* requests of the operator and of calibrations so far

paramVars == <<facts, reads, writes, toVehicle, toStation, onBoard, treats, tried,
          unwritten, unread, asks>>
requests == <<reads, writes>>
reports == <<unwritten, unread>>
vehicle == <<onBoard, treats>>

Treatments == {"takes", "keeps", "refuses", "lacks"}
Sends == [send : {"set"}, name : Names, value : Values] \cup [send : {"read"}, name : Names]
Answers ==
  [answer : {"value"}, name : Names, value : Values] \cup
  [answer : {"error"}, name : Names, exists : BOOLEAN]

ParamTypeOK ==
  /\ facts \in [Names -> Values]
  /\ DOMAIN reads \subseteq Names
  /\ \A n \in DOMAIN reads : reads[n] \in [sends : 1 .. MaxResends + 1, quiet : BOOLEAN]
  /\ DOMAIN writes \subseteq Names
  /\ \A n \in DOMAIN writes : writes[n] \in [sends : 0 .. MaxResends + 1, value : Values]
  /\ toVehicle \in Seq(Sends)
  /\ toStation \in Seq(Answers)
  /\ onBoard \in [Names -> Values]
  /\ treats \in [Names -> Treatments]
  /\ tried \in [Names -> SUBSET Values]
  /\ unwritten \subseteq Names /\ unread \subseteq Names
  /\ asks \in 0 .. MaxAsks

NoRequests == [n \in {} |-> 0]

ParamInit ==
  /\ facts = [n \in Names |-> 0]
  /\ reads = NoRequests /\ writes = NoRequests
  /\ toVehicle = <<>> /\ toStation = <<>>
  /\ onBoard = [n \in Names |-> 0]
  /\ treats \in [Names -> Treatments]
  /\ tried = [n \in Names |-> {}]
  /\ unwritten = {} /\ unread = {}
  /\ asks = 0

-----------------------------------------------------------------------------
(* The requests.                                                           *)

With(f, n, request) == [m \in DOMAIN f \cup {n} |-> IF m = n THEN request ELSE f[m]]
Without(f, names) == [m \in DOMAIN f \ names |-> f[m]]

ReadOf(n) == [send |-> "read", name |-> n]
SetOf(n, value) == [send |-> "set", name |-> n, value |-> value]

Held(ws) == {n \in DOMAIN ws : ws[n].sends = 0}
InFlightAndHeld(ws) == DOMAIN ws \* fault: the writes held back count too
InFlight(ws) == {n \in DOMAIN ws : ws[n].sends > 0}

Full(ws) == Cardinality(InFlight(ws)) >= MaxInFlight

\* The writes become ws, and release_writes lets one of the held go if there is
\* room: a handler ends one write, so there is room for one. sent goes first.
Releasing(ws, sent) ==
  \/ /\ Held(ws) = {} \/ Full(ws)
     /\ writes' = ws
     /\ toVehicle' = toVehicle \o sent
  \/ /\ ~Full(ws)
     /\ \E n \in Held(ws) :
          /\ writes' = [ws EXCEPT ![n].sends = 1]
          /\ toVehicle' = toVehicle \o sent \o <<SetOf(n, ws[n].value)>>

\* ask of a read: what was asked before for the name is replaced.
Asking(rs, n, quiet) == With(rs, n, [sends |-> 1, quiet |-> quiet])

MayAsk == asks < MaxAsks /\ Len(toVehicle) < Capacity

\* write: the value is shown at once; the request waits while MaxInFlight
\* others are in flight.
Write(n, value) ==
  /\ MayAsk
  /\ Fresh => value \notin tried[n] \cup {0}
  /\ LET held == ~(n \in DOMAIN writes /\ writes[n].sends > 0) /\ Full(writes) IN
     /\ writes' = With(writes, n, [sends |-> IF held THEN 0 ELSE 1, value |-> value])
     /\ toVehicle' = IF held THEN toVehicle ELSE Append(toVehicle, SetOf(n, value))
  /\ facts' = [facts EXCEPT ![n] = value]
  /\ tried' = [tried EXCEPT ![n] = @ \cup {value}]
  /\ unwritten' = unwritten \ {n}
  /\ asks' = asks + 1
  /\ UNCHANGED <<reads, toStation, vehicle, unread>>

\* refresh by the operator, refresh_quietly by a calibration
ReadParam(n, quiet) ==
  /\ MayAsk
  /\ quiet /\ Apart => n \notin DOMAIN reads
  /\ reads' = Asking(reads, n, quiet)
  /\ toVehicle' = Append(toVehicle, ReadOf(n))
  /\ asks' = asks + 1
  /\ UNCHANGED <<facts, writes, toStation, vehicle, tried, reports>>

-----------------------------------------------------------------------------
(* request_timed_out, VALUE_ACK_TIMEOUT_MS after a send.                   *)

MayResend(sends) == sends <= MaxResends

InTransit(n) ==
  \/ \E i \in DOMAIN toVehicle : toVehicle[i].name = n
  \/ \E i \in DOMAIN toStation : toStation[i].name = n

Due(n) == (Prompt => ~InTransit(n)) /\ Len(toVehicle) < Capacity

ReadTimesOut(n) ==
  /\ n \in DOMAIN reads /\ Due(n)
  /\ \/ /\ MayResend(reads[n].sends)
        /\ reads' = [reads EXCEPT ![n].sends = @ + 1]
        /\ toVehicle' = Append(toVehicle, ReadOf(n))
        /\ UNCHANGED <<writes, unread>>
     \/ /\ ~MayResend(reads[n].sends)
        /\ reads' = Without(reads, {n})
        /\ unread' = IF reads[n].quiet THEN unread ELSE unread \cup {n}
        /\ Releasing(writes, <<>>)
  /\ UNCHANGED <<facts, toStation, vehicle, tried, unwritten, asks>>

Resent(n) == [writes EXCEPT ![n].sends = @] \* fault: the sends are not counted
Counted(n) == [writes EXCEPT ![n].sends = @ + 1]

LeftAsWritten(n) == /\ Releasing(Without(writes, {n}), <<>>) \* fault: not read again
                    /\ UNCHANGED reads
ReadAgain(n) ==
  /\ reads' = Asking(reads, n, FALSE)
  /\ Releasing(Without(writes, {n}), <<ReadOf(n)>>)

WriteTimesOut(n) ==
  /\ n \in InFlight(writes) /\ Due(n)
  /\ \/ /\ MayResend(writes[n].sends)
        /\ writes' = Counted(n)
        /\ toVehicle' = Append(toVehicle, SetOf(n, writes[n].value))
        /\ UNCHANGED <<reads, unwritten>>
     \/ /\ ~MayResend(writes[n].sends)
        /\ ReadAgain(n)
        /\ unwritten' = unwritten \cup {n}
  /\ UNCHANGED <<facts, toStation, vehicle, tried, unread, asks>>

-----------------------------------------------------------------------------
(* The answers.                                                            *)

Answer(kind) == toStation # <<>> /\ toStation[1].answer = kind /\ toStation' = Tail(toStation)

AnyAnswers(n, value) == IF n \in DOMAIN writes THEN {n} ELSE {} \* fault: values not compared
Acknowledges(n, value) == {m \in DOMAIN writes : m = n /\ writes[m].value = value}

\* on_param_value: a value answers a read of the name, and a write of that value.
ParamValue ==
  /\ Answer("value")
  /\ LET n == toStation[1].name
         value == toStation[1].value IN
     /\ reads' = Without(reads, {n})
     /\ Releasing(Without(writes, Acknowledges(n, value)), <<>>)
     /\ facts' = [facts EXCEPT ![n] = value]
     /\ unread' = unread \ {n}
  /\ UNCHANGED <<vehicle, tried, unwritten, asks>>

\* on_param_error: every request of the name fails, and a write is read again
\* unless the parameter does not exist.
ParamError ==
  /\ Answer("error")
  /\ LET n == toStation[1].name
         again == n \in DOMAIN writes /\ toStation[1].exists IN
     /\ reads' = IF again THEN Asking(reads, n, FALSE) ELSE Without(reads, {n})
     /\ Releasing(Without(writes, {n}), IF again THEN <<ReadOf(n)>> ELSE <<>>)
     /\ unread' = IF n \in DOMAIN reads /\ ~reads[n].quiet THEN unread \cup {n} ELSE unread
     /\ unwritten' = IF n \in DOMAIN writes THEN unwritten \cup {n} ELSE unwritten
  /\ UNCHANGED <<facts, vehicle, tried, asks>>

-----------------------------------------------------------------------------
(* The vehicle and the link.                                               *)

Answering(answer) == toStation' = Append(toStation, answer)

VehicleAnswers ==
  /\ toVehicle # <<>> /\ Len(toStation) < Capacity
  /\ LET asked == toVehicle[1]
         n == asked.name IN
     \/ /\ asked.send = "set" /\ treats[n] = "takes"
        /\ onBoard' = [onBoard EXCEPT ![n] = asked.value]
        /\ Answering([answer |-> "value", name |-> n, value |-> asked.value])
     \/ /\ IF asked.send = "set" THEN treats[n] = "keeps" ELSE treats[n] # "lacks"
        /\ Answering([answer |-> "value", name |-> n, value |-> onBoard[n]])
        /\ UNCHANGED onBoard
     \/ /\ IF asked.send = "set" THEN treats[n] \in {"refuses", "lacks"} ELSE treats[n] = "lacks"
        /\ Answering([answer |-> "error", name |-> n, exists |-> treats[n] # "lacks"])
        /\ UNCHANGED onBoard
  /\ toVehicle' = Tail(toVehicle)
  /\ UNCHANGED <<facts, requests, treats, tried, reports, asks>>

Lose ==
  /\ \/ toVehicle # <<>> /\ toVehicle' = Tail(toVehicle) /\ UNCHANGED toStation
     \/ toStation # <<>> /\ toStation' = Tail(toStation) /\ UNCHANGED toVehicle
  /\ UNCHANGED <<facts, requests, vehicle, tried, reports, asks>>

TimesOut(n) == ReadTimesOut(n) \/ WriteTimesOut(n)

ParamNext ==
  \/ \E n \in Names :
       \/ \E value \in Values : Write(n, value)
       \/ \E quiet \in BOOLEAN : ReadParam(n, quiet)
       \/ TimesOut(n)
  \/ ParamValue \/ ParamError \/ VehicleAnswers \/ Lose

ParamSpec == ParamInit /\ [][ParamNext]_paramVars

\* The station's timers run, and what is in flight is handled or lost.
ParamFairness ==
  /\ \A n \in Names : WF_paramVars(TimesOut(n))
  /\ WF_paramVars(ParamValue \/ ParamError) /\ WF_paramVars(VehicleAnswers)
ParamFairSpec == ParamSpec /\ ParamFairness

-----------------------------------------------------------------------------
(* What is promised of a write.                                            *)

\* A write is held back only while MaxInFlight others are in flight, so none is
\* forgotten, and the vehicle never has more than that to acknowledge
\* (writes_in_flight, release_writes).
HeldWritesWaitForRoom ==
  /\ Cardinality(InFlight(writes)) <= MaxInFlight
  /\ Held(writes) # {} => Full(writes)

\* A write leaves the requests only when the vehicle has the value, or with its
\* failure reported (answer_requests, request_timed_out, on_param_error).
EndsKeptOrFailed ==
  [][\A n \in DOMAIN writes :
       n \notin DOMAIN writes' => onBoard[n] = writes[n].value \/ n \in unwritten']_paramVars

\* With nothing asked and nothing in flight the station shows the vehicle's
\* value, unless it said that it could not read it.
ShownIsTheVehicles ==
  DOMAIN reads = {} /\ DOMAIN writes = {} /\ toVehicle = <<>> /\ toStation = <<>> =>
    \A n \in Names : facts[n] = onBoard[n] \/ n \in unread \/ treats[n] = "lacks"

\* Every write of a burst ends, those held back too.
EveryWriteEnds == \A n \in Names : n \in DOMAIN writes ~> n \notin DOMAIN writes
=============================================================================
