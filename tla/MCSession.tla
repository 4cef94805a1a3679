----------------------------- MODULE MCSession ------------------------------
(***************************************************************************)
(* What the hub keeps of one vehicle while it is connected, on small       *)
(* instances: the links it is heard on, the signing of one of them, its    *)
(* events, its parameters as they are loaded, and a plan as it is          *)
(* transferred.  They share no state; a behaviour exercises one part while *)
(* the others rest.                                                        *)
(***************************************************************************)
EXTENDS VehicleLinks, SigningChannel, EventReceiver, ParamLoad, MCPlans

CONSTANTS l1, l2, kept, foreign
MCCarriers == {l1, l2}
MCKeys == {kept, foreign}
MCStored == {kept}
MCFirst == {0, Modulus - 2}

Pair(a, b) == [l \in MCCarriers |-> IF l = l1 THEN a ELSE b]
MCKinds == {Pair({"usb"}, {"cloud"}), Pair({}, {"high latency"})}

\* The autopilot's parameters and those of a camera.
MCComponents == {1, 2}
MCCount == [c \in MCComponents |-> IF c = 1 THEN 2 ELSE 1]
MCSilences == {{}, {1}}

VARIABLE part \* what the behaviour exercises

\* The parts that rest start in one state.
MCInit ==
  /\ LinksInit /\ SigningInit /\ EventInit /\ LoadInit /\ PlansInit
  /\ part \in {"links", "signing", "events", "load", "plans"}
  /\ part # "links" => kind = Pair({"usb"}, {"cloud"})
  /\ part # "signing" => vehicleKey = NoKey /\ ~camera
  /\ part # "events" => newest = 0 /\ told
  /\ part # "load" => ~px4 /\ byFile /\ silent = {}
  /\ part # "plans" => on = "slow"

MCNext ==
  \/ part = "links" /\ LinksNext /\ UNCHANGED <<part, signingVars, eventVars, loadVars, PlansVars>>
  \/ part = "signing" /\ SigningNext /\ UNCHANGED <<part, linksVars, eventVars, loadVars, PlansVars>>
  \/ part = "events" /\ EventNext /\ UNCHANGED <<part, linksVars, signingVars, loadVars, PlansVars>>
  \/ part = "load" /\ LoadNext /\ UNCHANGED <<part, linksVars, signingVars, eventVars, PlansVars>>
  \/ part = "plans" /\ PlansNext /\ UNCHANGED <<part, linksVars, signingVars, eventVars, loadVars>>

MCVars == <<linksVars, signingVars, eventVars, loadVars, PlansVars, part>>

Of(name, step) == part = name /\ step

\* The fairness of each module, in the behaviours that exercise it.
MCSpec ==
  /\ MCInit /\ [][MCNext]_MCVars
  /\ WF_seen(Of("links", PumpTurns))
  /\ WF_signingVars(Of("signing", Heartbeat("autopilot")))
  /\ WF_signingVars(Of("signing", FrameArrives))
  /\ WF_signingVars(Of("signing", SetupArrives))
  /\ WF_signingVars(Of("signing", GiveUp))
  /\ WF_signingVars(Of("signing", CooldownEnds))
  /\ WF_eventVars(Of("events", CurrentSent))
  /\ WF_eventVars(Of("events", Serve))
  /\ WF_eventVars(Of("events", MessageArrives))
  /\ WF_eventVars(Of("events", Tick))
  /\ WF_vars(Of("plans", Among(Timeout, InTime!Timeout, OfPx4!Timeout)))
  /\ WF_vars(Of("plans", Among(StationReceive, InTime!StationReceive, OfPx4!StationReceive)))
  /\ WF_vars(Of("plans", Among(VehicleReceive, InTime!VehicleReceive, OfPx4!VehicleReceive)))

\* The type invariant of each part; that of the plans is TypeOK.
MCTypeOK == LinksTypeOK /\ SigningTypeOK /\ EventTypeOK /\ LoadTypeOK
=============================================================================
