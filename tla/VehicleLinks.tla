---------------------------- MODULE VehicleLinks ----------------------------
(***************************************************************************)
(* The links one vehicle is heard on (hub.rs): which of them is primary,   *)
(* which have gone silent, on which commands go out, and how a high        *)
(* latency link is started and stopped.  Three threads meet here: a reader *)
(* per link, which decodes frames under one lock and hands them to the hub *)
(* under another; the pump, which looks which links are open and then      *)
(* tells the hub (pump_once); and whoever closes a link.                   *)
(*                                                                         *)
(* Link ids are fresh: a link that is closed does not come back.           *)
(***************************************************************************)
EXTENDS Integers, FiniteSets

CONSTANTS
  Carriers,  \* link ids
  Kinds,     \* what kinds the links may have: sets of "cloud", "usb", "high latency"
  MaxTroubles  \* bound: silences, losses of a relay and changes of the settings

NoLink == "NoLink"

ASSUME LinksAssumption ==
  /\ IsFiniteSet(Carriers) /\ NoLink \notin Carriers
  /\ Kinds \subseteq [Carriers -> SUBSET {"cloud", "usb", "high latency"}]
  /\ MaxTroubles \in Nat

VARIABLES
  kind,     \* the links' kinds
  wire,     \* of a link in the registry: "new", "up", "down", "closed"
  inHand,   \* links with frames decoded that the hub has yet to be given
  closing,  \* links closed, of which the hub has yet to be told
  seen,     \* what the pump saw: links that are open, and those of them that are down
  known,    \* links whose kind the hub knows (LinkKinds)
  discard,  \* links of a vehicle closed for its silence (PENDING_CLOSE)
  vehicle,  \* Vehicle, or NoVehicle
  quiet,    \* its links that said nothing for LINK_SILENT_MS
  troubles  \* what MaxTroubles counts

wires == <<wire, inHand, closing>>
pump == <<seen, known, discard>>
linksVars == <<kind, wires, pump, vehicle, quiet, troubles>>

NotSeen == [pumping |-> FALSE, open |-> {}, down |-> {}]
NoVehicle == [present |-> FALSE]

\* Vehicle::new, on the link of its first heartbeat. Of a link, control is the last
\* CMD_CONTROL_HIGH_LATENCY sent on it.
NewVehicle(l) ==
  [present |-> TRUE,
   heard |-> [k \in {} |-> 0], \* link_states: its links, and how many are before each
   lost |-> {},         \* the lost ones among them
   primary |-> NoLink,  \* primary_link
   sendsOn |-> l,       \* link
   lostAll |-> FALSE,   \* connection_lost
   watching |-> TRUE,   \* comm_lost_enabled, and no calibration mutes it
   auto |-> FALSE,      \* auto_disconnect
   pending |-> FALSE,   \* a CMD_CONTROL_HIGH_LATENCY waits for its ack
   control |-> [k \in Carriers |-> "none"]]

Open(l) == wire[l] \in {"up", "down"}
Links == IF vehicle.present THEN DOMAIN vehicle.heard ELSE {}

LinksTypeOK ==
  /\ kind \in Kinds
  /\ wire \in [Carriers -> {"new", "up", "down", "closed"}]
  /\ inHand \subseteq Carriers /\ closing \subseteq Carriers /\ discard \subseteq Carriers
  /\ seen \in [pumping : BOOLEAN, open : SUBSET Carriers, down : SUBSET Carriers]
  /\ known \subseteq Carriers /\ quiet \subseteq Links /\ troubles \in 0 .. MaxTroubles
  /\ vehicle.present =>
       /\ Links \subseteq Carriers /\ vehicle.heard \in [Links -> 0 .. Cardinality(Links) - 1]
       /\ vehicle.lost \subseteq Links /\ vehicle.primary \in Links \cup {NoLink}
       /\ vehicle.control \in [Carriers -> {"none", "start", "stop"}]

LinksInit ==
  /\ kind \in Kinds
  /\ wire = [l \in Carriers |-> "new"] /\ inHand = {} /\ closing = {}
  /\ seen = NotSeen /\ known = {} /\ discard = {}
  /\ vehicle = NoVehicle /\ quiet = {} /\ troubles = 0

Troubled == troubles < MaxTroubles /\ troubles' = troubles + 1

-----------------------------------------------------------------------------
(* The primary link of a vehicle v, with the kinds the hub knows.          *)

OfKind(k, knows) == {l \in knows : k \in kind[l]}
HighLatency(knows) == OfKind("high latency", knows)
Live(v) == DOMAIN v.heard \ v.lost

\* A link heard after the others, and those that are kept.
After(heard, l) ==
  [m \in DOMAIN heard \cup {l} |-> IF m \in DOMAIN heard THEN heard[m] ELSE Cardinality(DOMAIN heard)]
Kept(heard, links) ==
  [m \in DOMAIN heard \cap links |->
     Cardinality({k \in DOMAIN heard \cap links : heard[k] < heard[m]})]

\* The first of some links of v, and what is taken when there is none.
FirstOf(v, links) ==
  IF links \cap DOMAIN v.heard = {} THEN NoLink
  ELSE CHOOSE l \in links \cap DOMAIN v.heard :
         \A m \in links \cap DOMAIN v.heard : v.heard[l] <= v.heard[m]
OrElse(l, m) == IF l = NoLink THEN m ELSE l

\* best_primary_link
BestPrimary(v, knows) ==
  LET normal == Live(v) \ HighLatency(knows)
      cloud == OfKind("cloud", knows)
  IN OrElse(FirstOf(v, Live(v) \cap OfKind("usb", knows)),
     OrElse(FirstOf(v, normal \ cloud),
     OrElse(FirstOf(v, normal \cap cloud),
     OrElse(FirstOf(v, {v.primary} \cap HighLatency(knows)),
            FirstOf(v, Live(v) \cap HighLatency(knows))))))

DirectLinkAlive(v, knows) == Live(v) \ (OfKind("cloud", knows) \cup HighLatency(knows)) # {}

Keeps(v, knows) ==
  /\ v.primary \in Live(v) \ HighLatency(knows)
  /\ v.primary \in OfKind("cloud", knows) => ~DirectLinkAlive(v, knows)

\* The CMD_CONTROL_HIGH_LATENCY of a change of the primary: to stop the one left and
\* to start the one taken. While one waits for its ack another is refused, and so is
\* the second of the two.
Controlled(v, next, knows) ==
  CASE v.pending \/ HighLatency(knows) \cap {v.primary, next} = {} -> v
    [] ~v.pending /\ v.primary \in HighLatency(knows) ->
         [v EXCEPT !.pending = TRUE, !.control[v.primary] = "stop"]
    [] OTHER -> [v EXCEPT !.pending = TRUE, !.control[next] = "start"]

\* update_primary_link, with send_on.
UpdatedKeepingCloud(v, knows) == \* fault: a live cloud link is kept like any other
  LET best == BestPrimary(v, knows) IN
  IF \/ v.primary \in Live(v) \ HighLatency(knows)
     \/ v.primary \in DOMAIN v.heard /\ best = NoLink
     \/ best = v.primary
  THEN v
  ELSE [Controlled(v, best, knows) EXCEPT !.primary = best, !.sendsOn = IF best = NoLink THEN @ ELSE best]
Updated(v, knows) ==
  LET best == BestPrimary(v, knows) IN
  IF \/ Keeps(v, knows)
     \/ v.primary \in DOMAIN v.heard /\ best = NoLink
     \/ best = v.primary
  THEN v
  ELSE [Controlled(v, best, knows) EXCEPT !.primary = best, !.sendsOn = IF best = NoLink THEN @ ELSE best]

-----------------------------------------------------------------------------
(* The readers.                                                            *)

LinkOpens(l) ==
  /\ wire[l] = "new" /\ wire' = [wire EXCEPT ![l] = "up"]
  /\ UNCHANGED <<kind, inHand, closing, pump, vehicle, quiet, troubles>>

\* A cloud link loses its relay, and finds it again (set_up).
RelayState(l) ==
  /\ "cloud" \in kind[l] /\ Open(l) /\ (wire[l] = "up" => troubles < MaxTroubles)
  /\ wire' = [wire EXCEPT ![l] = IF @ = "up" THEN "down" ELSE "up"]
  /\ troubles' = IF wire[l] = "up" THEN troubles + 1 ELSE troubles
  /\ UNCHANGED <<kind, inHand, closing, pump, vehicle, quiet>>

\* bytes_in, of a link that is open; what was decoded is handed on in any case.
Decode(l) ==
  /\ wire[l] = "up" /\ l \notin inHand /\ inHand' = inHand \cup {l}
  /\ UNCHANGED <<kind, wire, closing, pump, vehicle, quiet, troubles>>

NotedUnchosen(v, l) == \* fault: on a link that is regained the primary is not chosen anew
  IF l \notin DOMAIN v.heard THEN Updated([v EXCEPT !.heard = After(@, l)], known)
  ELSE IF l \in v.lost THEN [v EXCEPT !.lost = @ \ {l}, !.lostAll = FALSE]
  ELSE v
\* note_link
Noted(v, l) ==
  IF l \notin DOMAIN v.heard THEN Updated([v EXCEPT !.heard = After(@, l)], known)
  ELSE IF l \in v.lost THEN Updated([v EXCEPT !.lost = @ \ {l}, !.lostAll = FALSE], known)
  ELSE v

\* is_standby
Standby(v, l) ==
  /\ v.primary \notin {NoLink, l} /\ Cardinality(DOMAIN v.heard) >= 2
  /\ {l, v.primary} \cap OfKind("cloud", known) # {}

\* on_frame: a heartbeat makes the vehicle, and tells one that is not on standby that
\* the vehicle is heard.
Frame(l, heartbeat) ==
  /\ l \in inHand /\ inHand' = inHand \ {l}
  /\ quiet' = quiet \ {l}
  /\ LET v == Noted(IF vehicle.present THEN vehicle ELSE NewVehicle(l), l) IN
     vehicle' = CASE ~vehicle.present /\ ~heartbeat -> vehicle
                  [] heartbeat /\ ~Standby(v, l) -> [v EXCEPT !.lostAll = FALSE]
                  [] OTHER -> v
  /\ UNCHANGED <<kind, wire, closing, pump, troubles>>

\* LINK_SILENT_MS pass without a frame.
FallsQuiet(l) ==
  /\ l \in Links \ (quiet \cup inHand) /\ quiet' = quiet \cup {l}
  /\ Troubled
  /\ UNCHANGED <<kind, wires, pump, vehicle>>

-----------------------------------------------------------------------------
(* Links that close, and the pump.                                         *)

\* The operator closes a link (registry_close), which the hub is told next; or its
\* reader finds it closed, and the hub learns of it from the pump.
LinkCloses(l) ==
  /\ Open(l) /\ wire' = [wire EXCEPT ![l] = "closed"]
  /\ closing' \in {closing, closing \cup {l}}
  /\ UNCHANGED <<kind, inHand, pump, vehicle, quiet, troubles>>

RetainedUnchosen(v, links) == \* fault: the primary is not chosen anew
  LET w == [v EXCEPT !.heard = Kept(@, links), !.lost = @ \cap links]
      instead == OrElse(w.primary, FirstOf(w, Carriers))
  IN IF ~v.present THEN v
     ELSE IF w.sendsOn \in links THEN w
     ELSE IF instead = NoLink THEN NoVehicle ELSE [w EXCEPT !.sendsOn = instead]
\* keep_vehicles_on: of the links that are gone nothing is kept, and a vehicle that
\* has no other is removed.
Retained(v, links) ==
  LET w == Updated([v EXCEPT !.heard = Kept(@, links), !.lost = @ \cap links], known)
      instead == OrElse(w.primary, FirstOf(w, Carriers))
  IN IF ~v.present THEN v
     ELSE IF w.sendsOn \in links THEN w
     ELSE IF instead = NoLink THEN NoVehicle ELSE [w EXCEPT !.sendsOn = instead]

Still(v) == quiet' = IF v.present THEN quiet \cap DOMAIN v.heard ELSE {}

\* link_closed
HubHearsOfClose(l) ==
  /\ l \in closing /\ closing' = closing \ {l}
  /\ vehicle' = Retained(vehicle, Carriers \ {l}) /\ Still(vehicle')
  /\ UNCHANGED <<kind, wire, inHand, pump, troubles>>

\* The pump's next look at the links, or the end of its turn.
PumpTurns ==
  seen' = IF seen.pumping THEN NotSeen
          ELSE [pumping |-> TRUE, open |-> {l \in Carriers : Open(l)},
                down |-> {l \in Carriers : wire[l] = "down"}]

PumpSees ==
  /\ ~seen.pumping /\ PumpTurns
  /\ UNCHANGED <<kind, wires, known, discard, vehicle, quiet, troubles>>

\* check_links of the vehicle, when its timer is due.
Silenced(v) ==
  (Live(v) \cap (quiet \cup seen.down)) \ HighLatency(seen.open)
Checked(v) ==
  LET lost == v.lost \cup Silenced(v)
      all == DOMAIN v.heard # {} /\ DOMAIN v.heard \subseteq lost
  IN IF ~v.watching THEN v
     ELSE Updated([v EXCEPT !.lost = lost, !.lostAll = all], seen.open)

\* retain_links and check_links of the hub: first the links that were not open go, then
\* the kinds of the others become known, and if its timer is due the vehicle is checked.
PumpTells ==
  /\ seen.pumping /\ PumpTurns /\ known' = seen.open
  /\ LET retained == Retained(vehicle, seen.open) IN
     \E v \in {retained} \cup (IF retained.present THEN {Checked(retained)} ELSE {}) :
       LET closes == v.present /\ v.lostAll /\ v.auto IN
       /\ vehicle' = IF closes THEN NoVehicle ELSE v
       /\ discard' = IF closes THEN discard \cup DOMAIN v.heard ELSE discard
  /\ Still(vehicle')
  /\ UNCHANGED <<kind, wires, troubles>>

\* close_if_due
CloseDiscarded ==
  /\ discard # {} /\ discard' = {}
  /\ wire' = [l \in Carriers |-> IF l \in discard /\ Open(l) THEN "closed" ELSE wire[l]]
  /\ UNCHANGED <<kind, inHand, closing, seen, known, vehicle, quiet, troubles>>

-----------------------------------------------------------------------------
(* The operator and the vehicle's answers.                                 *)

\* set_link_flag, the end of a download of logs and of a calibration.
SetFlag(flag) ==
  /\ vehicle.present /\ vehicle' = [vehicle EXCEPT ![flag] = ~@]
  /\ Troubled
  /\ UNCHANGED <<kind, wires, pump, quiet>>

\* The ack of a CMD_CONTROL_HIGH_LATENCY comes, or is given up.
ControlAnswered ==
  /\ vehicle.present /\ vehicle.pending
  /\ vehicle' = [vehicle EXCEPT !.pending = FALSE]
  /\ UNCHANGED <<kind, wires, pump, quiet, troubles>>

LinksNext ==
  \/ \E l \in Carriers :
       \/ LinkOpens(l) \/ RelayState(l) \/ Decode(l) \/ FallsQuiet(l)
       \/ LinkCloses(l) \/ HubHearsOfClose(l)
       \/ \E heartbeat \in BOOLEAN : Frame(l, heartbeat)
  \/ PumpSees \/ PumpTells \/ CloseDiscarded \/ ControlAnswered
  \/ \E flag \in {"watching", "auto"} : SetFlag(flag)

LinksSpec == LinksInit /\ [][LinksNext]_linksVars

\* The pump runs ten times a second.
LinksFairness == WF_seen(PumpTurns)
LinksFairSpec == LinksSpec /\ LinksFairness

-----------------------------------------------------------------------------
(* What is promised of the primary link.                                   *)

\* While a link of the vehicle is live the primary is a live one, commands go out on
\* it, and a vehicle always has a link to send on, whatever closes, falls silent or is
\* heard again, and in whatever order (update_primary_link wherever a link changes).
PrimaryIsLive ==
  vehicle.present =>
    /\ Live(vehicle) # {} => vehicle.primary \in Live(vehicle)
    /\ vehicle.primary # NoLink => vehicle.sendsOn = vehicle.primary
    /\ vehicle.sendsOn \in Links

\* A cloud link gives the primary up to a direct one that is heard, also when the kinds
\* of the two become known only later ("leaves a cloud primary once a direct link is
\* alive", hub.rs:11769).
OnCloud ==
  /\ vehicle.present
  /\ vehicle.primary \in OfKind("cloud", known) /\ DirectLinkAlive(vehicle, known)
CloudGivesWay == OnCloud ~> ~OnCloud
=============================================================================
