--------------------------- MODULE SigningChannel ---------------------------
(***************************************************************************)
(* MAVLink signing on the link of one vehicle (signing.rs): the operator   *)
(* switches it on and off, the change is sent, repeated, confirmed by a    *)
(* heartbeat, refused or given up, and a vehicle that signs with a stored  *)
(* key is recognised.  Messages arrive in order or not at all.             *)
(*                                                                         *)
(* Left out: timestamps and signatures as such (a message is signed with a *)
(* key or with none), the alert after bad signatures, several links.       *)
(***************************************************************************)
EXTENDS Integers, Sequences

CONSTANTS
  Keys,        \* all keys there are
  Stored,      \* those the station keeps
  MaxChanges,  \* bound: changes the operator asks for
  MaxLosses    \* bound: messages lost

ASSUME SigningAssumption == Stored \subseteq Keys /\ {MaxChanges, MaxLosses} \subseteq Nat

VARIABLES
  channel,    \* the link's Channel, or NoChannel
  cooldown,   \* detect_cooldown: the stored keys are not tried again yet
  vehicleKey, \* the key the vehicle signs with and asks for, or NoKey
  camera,     \* a component of the vehicle sends heartbeats and does not sign
  setups,     \* SETUP_SIGNING on its way to the vehicle
  frames,     \* heartbeats and texts on their way to the station
  changes, losses, \* what the bounds count
  astray      \* history: a disable ended without the vehicle's say

air == <<setups, frames>>
counts == <<changes, losses>>
signingVars == <<channel, cooldown, vehicleKey, camera, air, counts, astray>>

NoKey == "NoKey"
SETUP_COPIES == 2

\* A channel signs what goes out (sign_outgoing) unless it is "enabling", and is Strict
\* when it is "on": while Busy it takes unsigned heartbeats and texts too (Pending).
NoChannel == [op |-> "off", key |-> NoKey]
Channel(op, k) == [op |-> op, key |-> k]
Signs(c) == c.op \in {"on", "disabling"}
Busy == channel.op \in {"enabling", "disabling"}

MaybeKey == Keys \cup {NoKey}
Frames == [what : {"heartbeat", "refusal"}, by : MaybeKey, of : {"autopilot", "camera"}]

SigningTypeOK ==
  /\ channel \in {NoChannel} \cup [op : {"enabling", "on", "disabling"}, key : Keys]
  /\ cooldown \in BOOLEAN /\ camera \in BOOLEAN /\ astray \in BOOLEAN
  /\ vehicleKey \in MaybeKey
  /\ setups \in Seq([key : MaybeKey, by : MaybeKey]) /\ frames \in Seq(Frames)
  /\ changes \in 0 .. MaxChanges /\ losses \in 0 .. MaxLosses

SigningInit ==
  /\ channel = NoChannel /\ cooldown = FALSE
  /\ vehicleKey \in MaybeKey /\ camera \in BOOLEAN
  /\ setups = <<>> /\ frames = <<>>
  /\ changes = 0 /\ losses = 0 /\ astray = FALSE

-----------------------------------------------------------------------------
(* The operator.                                                           *)

\* send_setup: signed as the channel signs (outbound). At most one batch waits here.
Sent(k, c) ==
  [i \in 1 .. SETUP_COPIES |-> [key |-> k, by |-> IF Signs(c) THEN c.key ELSE NoKey]]

Ask == ~Busy /\ setups = <<>> /\ changes < MaxChanges /\ changes' = changes + 1

\* begin_enable: whatever the channel was.
BeginEnable(k) ==
  /\ Ask /\ channel' = Channel("enabling", k)
  /\ setups' = Sent(k, channel')
  /\ UNCHANGED <<cooldown, vehicleKey, camera, frames, losses, astray>>

\* begin_disable
BeginDisable ==
  /\ Ask /\ channel.op = "on"
  /\ channel' = Channel("disabling", channel.key)
  /\ setups' = Sent(NoKey, channel')
  /\ UNCHANGED <<cooldown, vehicleKey, camera, frames, losses, astray>>

\* The timer of tick repeats the change.
Resend ==
  /\ Busy /\ setups = <<>>
  /\ setups' = Sent(IF channel.op = "enabling" THEN channel.key ELSE NoKey, channel)
  /\ UNCHANGED <<channel, cooldown, vehicleKey, camera, frames, counts, astray>>

-----------------------------------------------------------------------------
(* How a change ends.                                                      *)

FailedKept(c) == Channel("on", c.key) \* fault: what was being enabled stays as well
\* fail: what was being enabled is dropped, what was being disabled stays.
Failed(c) == IF c.op = "enabling" THEN NoChannel ELSE Channel("on", c.key)

\* The vehicle took the disable that is given up, or may yet.
Unheard == channel.op = "disabling" /\ (vehicleKey = NoKey \/ setups # <<>>)

\* tick after CONFIRM_TIMEOUT_MS, and cancel_pending when the primary link changes.
GiveUp ==
  /\ Busy /\ channel' = Failed(channel) /\ astray' = (astray \/ Unheard)
  /\ UNCHANGED <<cooldown, vehicleKey, camera, air, counts>>

CooldownEnds ==
  /\ cooldown /\ cooldown' = FALSE
  /\ UNCHANGED <<channel, vehicleKey, camera, air, counts, astray>>

\* inbound with no channel: a signed frame is tried with the stored keys.
Detect(m) ==
  IF m.by = NoKey \/ cooldown THEN UNCHANGED <<channel, cooldown>>
  ELSE IF m.by \in Stored THEN channel' = Channel("on", m.by) /\ UNCHANGED cooldown
  ELSE cooldown' = TRUE /\ UNCHANGED channel

\* advance: of an enable a heartbeat signed with the key, of a disable an unsigned one.
Confirmed(c, m) ==
  m.what = "heartbeat" /\ m.by = (IF c.op = "enabling" THEN c.key ELSE NoKey)

\* inbound, advance
Inbound(m) ==
  \/ channel = NoChannel /\ Detect(m) /\ UNCHANGED astray
  \/ /\ channel # NoChannel /\ UNCHANGED cooldown
     /\ IF ~Busy \/ ~(m.what = "refusal" \/ Confirmed(channel, m))
        THEN UNCHANGED <<channel, astray>>
        ELSE IF m.what = "refusal"
        THEN channel' = Failed(channel) /\ astray' = (astray \/ Unheard)
        ELSE /\ channel' = IF channel.op = "enabling" THEN Channel("on", channel.key) ELSE NoChannel
             /\ astray' = (astray \/ (channel.op = "disabling" /\ m.of = "camera"))

FrameArrives ==
  /\ frames # <<>> /\ frames' = Tail(frames) /\ Inbound(Head(frames))
  /\ UNCHANGED <<vehicleKey, camera, setups, counts>>

-----------------------------------------------------------------------------
(* The vehicle and the air.                                                *)

Says(what, k, of) ==
  Len(frames) < 2 /\ frames' = Append(frames, [what |-> what, by |-> k, of |-> of])

\* The autopilot's heartbeat, and one of a component that does not sign.
Heartbeat(of) ==
  /\ of = "camera" => camera /\ \A i \in DOMAIN frames : frames[i].of # "camera"
  /\ Says("heartbeat", IF of = "camera" THEN NoKey ELSE vehicleKey, of)
  /\ UNCHANGED <<channel, cooldown, vehicleKey, camera, setups, counts, astray>>

\* The vehicle takes the change, or refuses it with a text; once it signs it hears only
\* what is signed with its key.
SetupArrives ==
  LET s == Head(setups)
      heard == vehicleKey \in {NoKey, s.by}
  IN
  /\ setups # <<>> /\ setups' = Tail(setups)
  /\ \/ ~heard /\ UNCHANGED <<vehicleKey, frames>>
     \/ heard /\ vehicleKey' = s.key /\ UNCHANGED frames
     \/ heard /\ Says("refusal", vehicleKey, "autopilot") /\ UNCHANGED vehicleKey
  /\ UNCHANGED <<channel, cooldown, camera, counts, astray>>

Lost ==
  /\ losses < MaxLosses /\ losses' = losses + 1
  /\ \/ setups # <<>> /\ setups' = Tail(setups) /\ UNCHANGED frames
     \/ frames # <<>> /\ frames' = Tail(frames) /\ UNCHANGED setups
  /\ UNCHANGED <<channel, cooldown, vehicleKey, camera, changes, astray>>

SigningNext ==
  \/ \E k \in Stored : BeginEnable(k)
  \/ BeginDisable \/ Resend \/ GiveUp \/ CooldownEnds
  \/ FrameArrives \/ SetupArrives \/ Lost
  \/ \E of \in {"autopilot", "camera"} : Heartbeat(of)

SigningSpec == SigningInit /\ [][SigningNext]_signingVars

\* The vehicle beats, what is sent arrives if it is not lost, and timers run out.
SigningFairness ==
  /\ WF_signingVars(Heartbeat("autopilot"))
  /\ WF_signingVars(FrameArrives) /\ WF_signingVars(SetupArrives)
  /\ WF_signingVars(GiveUp) /\ WF_signingVars(CooldownEnds)
SigningFairSpec == SigningSpec /\ SigningFairness

-----------------------------------------------------------------------------
(* What is promised.                                                       *)

\* The station takes the vehicle's frames (inbound), the vehicle the station's.
Heard == channel = NoChannel \/ channel.key = vehicleKey
Obeyed ==
  vehicleKey \in Stored => channel # NoChannel /\ channel.key = vehicleKey /\ Signs(channel)
Understood == Heard /\ Obeyed

\* However a change ends (confirmed, refused, given up, its messages lost), station and
\* vehicle come to understand each other again by themselves, unless a disable the
\* vehicle took was given up, or a component of it that does not sign confirmed it.
UnderstandAgain == (~Understood /\ ~astray) ~> (Understood \/ astray)
=============================================================================
