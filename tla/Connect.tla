------------------------------ MODULE Connect -------------------------------
(***************************************************************************)
(* The initial connect of a vehicle (connect.rs and its handlers in        *)
(* hub.rs): one step after another, each of which is ended by an engine    *)
(* that others use meanwhile: the command coordinator, the downloads over  *)
(* FTP and HTTP, the parameter load and the three plan transfers.  Of each *)
(* engine this module keeps whether it is at work; that it then ends is    *)
(* what MavCommands, PlanTransfer and FtpDownload are about, and, for the  *)
(* load, ParamLoad: it ends with a report or, if no parameter of the       *)
(* autopilot was heard, without one.                                       *)
(***************************************************************************)
EXTENDS Integers, FiniteSets

CONSTANTS
  Autopilots,  \* the autopilots considered
  Replay,      \* the vehicle is played back from a log
  Modes,       \* how many standard modes the vehicle lists
  MaxRetry,    \* MAX_INITIAL_REQUEST_LIST_RETRY
  Unheard,     \* of its parameters nothing may arrive, while those of a camera do
  RefreshesAt, \* bound of the model: steps the operator refreshes parameters at
  MaxRefreshes,\* bound of the model: how often
  ValuesAt,    \* bound of the model: steps a PARAM_VALUE comes unasked at
  JobsAt,      \* bound of the model: steps the operator starts a file job at
  GuidedAt     \* bound of the model: steps a guided item is sent at

\* STEPS.  Complete ends itself: whoever is there is connected.
AutopilotVersion == 1
StandardModes == 2
ComponentInformation == 3
Parameters == 4
Mission == 5
GeoFence == 6
RallyPoints == 7
Complete == 8
Steps == AutopilotVersion .. Complete
Plans == {Mission, GeoFence, RallyPoints} \* a plan goes by the step that loads it

ASSUME ConstantsAssumption ==
  /\ Autopilots \subseteq {"PX4", "ArduPilot", "Other"} /\ Replay \in BOOLEAN
  /\ Modes \in Nat \ {0} /\ MaxRetry \in Nat \ {0} /\ MaxRefreshes \in Nat
  /\ Unheard \in BOOLEAN
  /\ RefreshesAt \subseteq Steps /\ ValuesAt \subseteq Steps
  /\ JobsAt \subseteq Steps /\ GuidedAt \subseteq Steps

VARIABLES
  autopilot,   \* Vehicle.autopilot, known from the heartbeat that creates the vehicle
  step,        \* Connect.index
  asked, mode, \* the message the connect waits for, and which mode
  supported,   \* the plans among capabilities
  fetch, http, \* what is downloaded over FTP (Vehicle.fetch) and over HTTP
  fallback,    \* that the metadata downloaded has another source
  job,         \* Files.busy: a file operation of the operator is under way
  loading,     \* the parameter engine has a timer running for its load
  loaded,      \* Params.initial_complete
  packDue, packDeclined, packRetries, \* of ArduPilot's parameter file
  plans,       \* what each plan's transfer is doing
  highLatency, flying, \* the primary link, and skips_download_flying
  refreshes    \* refreshes so far

messages == <<asked, mode>>
metadata == <<http, fallback>>
pack == <<packDue, packDeclined, packRetries>>
link == <<highLatency, flying>>
connecting == <<step, messages, supported, fetch, metadata, job, loading, loaded, pack, plans,
                link, refreshes>>
vars == <<autopilot, connecting>>

None == "None"
Messages == {"Version", "Modes", "Metadata", "Information"}
Metadata == {"General", "Parameter", "Events", "Actuators"}
Transfers == {"Idle", "Transfer", "GuidedItem"} \* a Transfer reads, writes or removes

-----------------------------------------------------------------------------
(* The order of steps.                                                     *)

Px4 == autopilot = "PX4"
Apm == autopilot = "ArduPilot"
Quiet == highLatency \/ Replay
CacheOnly == flying /\ Px4 /\ ~Replay /\ ~highLatency
SkipsParameters == IF CacheOnly THEN loaded ELSE flying \/ Quiet

\* What advance, or the handler of the action it returns, passes by at once.
Skipped ==
  (IF Quiet THEN {AutopilotVersion, ComponentInformation} ELSE {})
    \cup (IF Replay THEN {StandardModes} ELSE {})
    \cup (IF SkipsParameters THEN {Parameters} ELSE {})
    \cup (IF Quiet \/ flying THEN Plans ELSE {})
    \cup {plan \in {GeoFence, RallyPoints} : plan \notin supported}

\* start and advance: the first step from s on that is not passed by.
Stop(s) ==
  CHOOSE t \in s .. Complete :
    /\ t = Complete \/ t \notin Skipped
    /\ \A u \in s .. t - 1 : u \in Skipped

StepDoneAnyStep(s) == \* fault: the step is not compared
  step' = IF step < Complete THEN Stop(step + 1) ELSE step

\* step_done, and advance for the step it ends.  What the step reached begins is said
\* below, of each engine.
StepDone(s) == step' = IF step = s THEN Stop(s + 1) ELSE step

Begins(s) == step' = s /\ step # s
Passes(s) == step < s /\ step' > s

AsksOf(s) ==
  CASE s = AutopilotVersion -> "Version"
    [] s = StandardModes -> "Modes"
    [] s = ComponentInformation -> "Metadata"
    [] OTHER -> None

\* follow_connect: RequestMessage, RequestStandardModes, RequestComponentInformation.
MessagesFollow ==
  /\ asked' = IF step' # step THEN AsksOf(step') ELSE asked
  /\ mode' = IF Begins(StandardModes) THEN 1 ELSE mode

\* follow_connect: LoadMission, LoadGeoFence, LoadRallyPoints.  load does nothing while a
\* transfer of the plan is under way.
PlansFollow(now) ==
  plans' = [plan \in Plans |->
    IF Begins(plan) /\ now[plan] = "Idle" THEN "Transfer" ELSE now[plan]]

TriesPack == Apm /\ ~packDeclined

\* start_pack, once the download in self.fetch is freed.
StartPackUnchecked(freed) == \* fault: the operator's transfer is not noticed
  /\ packDue' = (packDue \/ ~loaded)
  /\ fetch' = "Pack"
StartPack(freed) ==
  /\ packDue' = (packDue \/ ~loaded)
  /\ fetch' = IF job \/ freed # None THEN freed ELSE "Pack"

StartDownloadUntimed == UNCHANGED loading \* fault: asked for, and not timed

\* start_download and the checks before it: once loaded no timer is started.
StartDownload == loading' = (loading \/ ~loaded)

\* follow_connect: RefreshParameters.
ParametersFollow(freed) ==
  /\ IF Begins(Parameters) /\ ~CacheOnly /\ TriesPack
     THEN StartPack(freed)
     ELSE packDue' = packDue /\ fetch' = freed
  /\ IF Begins(Parameters) /\ (CacheOnly \/ ~TriesPack)
     THEN StartDownload
     ELSE UNCHANGED loading
  /\ loaded' = (loaded \/ (Passes(Parameters) /\ highLatency /\ ~Replay /\ ~flying))

\* What step_done leads to, for an engine whose end leaves the plan transfers as in now
\* and the FTP download as in freed.
Follow(now, freed) ==
  /\ MessagesFollow
  /\ ParametersFollow(freed)
  /\ PlansFollow(now)

-----------------------------------------------------------------------------
(* Messages.                                                               *)

VersionAnswered == \* received, or given up and assumed
  /\ asked = "Version"
  /\ supported' \in SUBSET {GeoFence, RallyPoints}
  /\ step' = Stop(step + 1) \* on_autopilot_version
  /\ Follow(plans, fetch)
  /\ UNCHANGED <<metadata, job, packDeclined, packRetries, link, refreshes>>

ModesEndOneLate == mode > Modes \* fault: off by one
ModesEnd == mode >= Modes

ModeReceived ==
  /\ asked = "Modes"
  /\ IF ModesEnd
     THEN StepDone(StandardModes) /\ Follow(plans, fetch)
     ELSE /\ mode' = mode + 1
          /\ UNCHANGED <<step, asked, fetch, packDue, loading, loaded, plans>>
  /\ UNCHANGED <<supported, metadata, job, packDeclined, packRetries, link, refreshes>>

ModeFailed ==
  /\ asked = "Modes"
  /\ StepDone(StandardModes)
  /\ Follow(plans, fetch)
  /\ UNCHANGED <<supported, metadata, job, packDeclined, packRetries, link, refreshes>>

MetadataFailed ==
  /\ asked = "Metadata"
  /\ asked' = "Information"
  /\ UNCHANGED <<step, mode, supported, fetch, metadata, job, loading, loaded, pack, plans,
                 link, refreshes>>

InformationFailed ==
  /\ asked = "Information"
  /\ StepDone(ComponentInformation)
  /\ Follow(plans, fetch)
  /\ UNCHANGED <<supported, metadata, job, packDeclined, packRetries, link, refreshes>>

-----------------------------------------------------------------------------
(* Component metadata: each kind that the general file lists, in turn.     *)

After(kind) ==
  CASE kind = "General" -> {"Parameter", "Events", "Actuators"}
    [] kind = "Parameter" -> {"Events", "Actuators"}
    [] kind = "Events" -> {"Actuators"}
    [] kind = "Actuators" -> {}

\* start_fetch, of a source that is neither cached nor empty nor refused.
StartFetch(kind, another, freed) ==
  /\ \/ fetch' = kind /\ http' = None
     \/ http' = kind /\ fetch' = freed
  /\ fallback' = another
  /\ asked' = None
  /\ UNCHANGED <<step, mode, packDue, loading, loaded, plans>>

\* after_general_metadata and the others: what is not listed, or is there at once, or
\* cannot be started is passed by.
GoOn(kind, freed) ==
  \/ \E next \in After(kind), another \in BOOLEAN : StartFetch(next, another, freed)
  \/ /\ StepDone(ComponentInformation)
     /\ Follow(plans, freed)
     /\ http' = None /\ fallback' = FALSE

\* COMPONENT_METADATA or COMPONENT_INFORMATION names the general file.  Nothing keeps
\* its download from taking the place of another, or from running beside a file job.
GeneralNamed ==
  /\ asked \in {"Metadata", "Information"}
  /\ StartFetch("General", FALSE, fetch) \/ GoOn("General", fetch)
  /\ UNCHANGED <<supported, job, packDeclined, packRetries, link, refreshes>>

\* metadata_received, or fetch_failed: a fallback is tried before going on.
FetchEnded(kind, freed) ==
  /\ GoOn(kind, freed) \/ (fallback /\ StartFetch(kind, FALSE, freed))
  /\ UNCHANGED <<supported, job, packDeclined, packRetries, link, refreshes>>

\* The download ends, fails, or is abandoned as too slow.
FtpMetadataEnds == fetch \in Metadata /\ FetchEnded(fetch, None)
HttpEnds == http # None /\ FetchEnded(http, fetch)

-----------------------------------------------------------------------------
(* Parameters: ArduPilot's file over FTP, or the load that params.rs times. *)

Unshared == <<supported, metadata, job, link>>

LoadReady == \* Ready
  /\ loading /\ ~loaded
  /\ loaded' = TRUE /\ loading' = FALSE
  /\ StepDone(Parameters)
  /\ MessagesFollow /\ PlansFollow(plans)
  /\ UNCHANGED <<fetch, pack, Unshared, refreshes>>

\* NoResponse, or CacheOnlyFailed, beside which another load may go on.
LoadFails ==
  /\ loading
  /\ loading' \in BOOLEAN
  /\ StepDone(Parameters)
  /\ MessagesFollow /\ PlansFollow(plans)
  /\ UNCHANGED <<loaded, fetch, pack, Unshared, refreshes>>

\* on_waiting_timeout and check_initial_load_complete: the last timer runs out, and nobody
\* is told. So it is after skip_load; and before the parameters are loaded, when values of
\* another component stopped the list's timer and of the autopilot's none came.
LoadEndsUnheard ==
  /\ loading /\ (loaded \/ Unheard)
  /\ loading' = FALSE
  /\ UNCHANGED <<step, messages, plans, loaded, fetch, pack, Unshared, refreshes>>

ParametersDone ==
  /\ StepDone(Parameters)
  /\ MessagesFollow /\ PlansFollow(plans)
  /\ UNCHANGED loading

Nothing == UNCHANGED <<step, messages, plans, loading>>

\* Params.on_initial_timeout.
InitialTimeout ==
  \/ StartDownload /\ UNCHANGED <<step, messages, plans>>
  \/ ParametersDone \* NoResponse

PackProgress == \* the file has begun to come
  /\ fetch = "Pack"
  /\ packDue' = FALSE
  /\ Nothing
  /\ UNCHANGED <<fetch, packDeclined, packRetries, loaded, Unshared, refreshes>>

PackReceived ==
  /\ fetch = "Pack" /\ fetch' = None
  /\ packDue' = FALSE
  /\ loaded' = TRUE
  /\ IF loaded THEN Nothing ELSE ParametersDone \* Ready, once
  /\ UNCHANGED <<packDeclined, packRetries, Unshared, refreshes>>

RetryPackForgotten == packDue' = FALSE \* fault: no timer for the next attempt
RetryPack == packDue' = TRUE

\* pack_failed and decline_pack, the file being absent, or the failure early.  A file that
\* cannot be read is declined too.
PackFailed(absent, early) ==
  LET declines == absent \/ early \/ packRetries = 1
      atOnce == absent /\ packRetries = 0
  IN
  /\ fetch = "Pack" /\ fetch' = None
  /\ packDeclined' = (packDeclined \/ declines)
  /\ packRetries' = IF declines THEN 0 ELSE packRetries
  /\ IF atOnce THEN packDue' = FALSE /\ InitialTimeout ELSE RetryPack /\ Nothing
  /\ UNCHANGED <<loaded, Unshared, refreshes>>

MoreRetries == IF packRetries > MaxRetry THEN packRetries ELSE packRetries + 1 \* caps it

\* pack_list_timeout
PackTimer ==
  /\ packDue
  /\ IF ~TriesPack THEN
       /\ packDue' = FALSE
       /\ InitialTimeout
       /\ UNCHANGED <<fetch, packRetries>>
     ELSE
       /\ packRetries' = MoreRetries
       /\ IF packRetries < MaxRetry
          THEN StartPack(fetch) /\ Nothing
          ELSE packDue' = FALSE /\ ParametersDone /\ UNCHANGED fetch \* NoResponse
  /\ UNCHANGED <<packDeclined, loaded, Unshared, refreshes>>

\* start_guided: refreshParameters.
Refresh ==
  /\ step \in RefreshesAt
  /\ refreshes < MaxRefreshes /\ refreshes' = refreshes + 1
  /\ IF TriesPack
     THEN StartPack(fetch) /\ UNCHANGED loading
     ELSE StartDownload /\ UNCHANGED <<fetch, packDue>>
  /\ UNCHANGED <<step, messages, plans, packDeclined, packRetries, loaded, Unshared>>

\* took_value, of a PARAM_VALUE that another ground station asked for.
UnaskedValue ==
  /\ step \in ValuesAt
  /\ ~loaded /\ ~TriesPack
  /\ loading' = TRUE
  /\ UNCHANGED <<step, messages, plans, fetch, pack, loaded, Unshared, refreshes>>

-----------------------------------------------------------------------------
(* Plans and files, and the operator's use of them.                        *)

TransferEndsUnheard(plan) == UNCHANGED step \* fault: follow_plan reports to nobody

\* follow_plan: Done, which a guided item keeps to itself.
EndOfTransfer(plan) ==
  IF plans[plan] = "GuidedItem" THEN UNCHANGED step ELSE StepDone(plan)

TransferEnds(plan) ==
  /\ plans[plan] # "Idle"
  /\ EndOfTransfer(plan)
  /\ MessagesFollow
  /\ PlansFollow([plans EXCEPT ![plan] = "Idle"])
  /\ UNCHANGED <<fetch, pack, loading, loaded, Unshared, refreshes>>

Engines == <<fetch, metadata, job, loading, loaded, pack>>

OperatorTransfer(plan) == \* load, write or remove_all
  /\ plans[plan] = "Idle"
  /\ plans' = [plans EXCEPT ![plan] = "Transfer"]
  /\ UNCHANGED <<step, messages, supported, Engines, link, refreshes>>

GuidedItem ==
  /\ step \in GuidedAt
  /\ plans[Mission] = "Idle"
  /\ plans' = [plans EXCEPT ![Mission] = "GuidedItem"]
  /\ UNCHANGED <<step, messages, supported, Engines, link, refreshes>>

JobStarts == \* file_job
  /\ step \in JobsAt
  /\ ~job /\ fetch = None
  /\ job' = TRUE
  /\ UNCHANGED <<step, messages, supported, fetch, metadata, loading, loaded, pack, plans,
                 link, refreshes>>

JobEnds ==
  /\ job
  /\ job' = FALSE
  /\ UNCHANGED <<step, messages, supported, fetch, metadata, loading, loaded, pack, plans,
                 link, refreshes>>

LinkChanges ==
  /\ ~Replay
  /\ \/ highLatency' = ~highLatency /\ UNCHANGED flying
     \/ flying' = ~flying /\ UNCHANGED highLatency
  /\ UNCHANGED <<step, messages, supported, Engines, plans, refreshes>>

-----------------------------------------------------------------------------
\* begin_connect, as the vehicle is created.
Init ==
  /\ autopilot \in Autopilots
  /\ supported = {} /\ refreshes = 0
  /\ highLatency \in BOOLEAN /\ flying \in BOOLEAN
  /\ fetch = None /\ http = None /\ fallback = FALSE /\ job = FALSE
  /\ loading = FALSE
  /\ packDeclined = FALSE /\ packRetries = 0 /\ packDue = FALSE
  /\ plans = [plan \in Plans |-> "Idle"]
  /\ loaded = FALSE
  /\ step = Stop(AutopilotVersion)
  /\ asked = AsksOf(step) /\ mode = 1

ConnectStep ==
  VersionAnswered \/ ModeReceived \/ ModeFailed \/ MetadataFailed \/ InformationFailed
    \/ GeneralNamed \/ FtpMetadataEnds \/ HttpEnds

ParameterStep ==
  \/ LoadReady \/ LoadFails \/ LoadEndsUnheard \/ PackProgress \/ PackReceived
  \/ \E absent, early \in BOOLEAN : PackFailed(absent, early)
  \/ PackTimer \/ Refresh \/ UnaskedValue

OtherStep ==
  \/ \E plan \in Plans : TransferEnds(plan) \/ OperatorTransfer(plan)
  \/ GuidedItem \/ JobStarts \/ JobEnds \/ LinkChanges

Next == UNCHANGED autopilot /\ (ConnectStep \/ ParameterStep \/ OtherStep)
Spec == Init /\ [][Next]_vars

\* Every engine ends what it began: the coordinator answers each request (MavCommands),
\* a plan's transfer ends (PlanTransfer), a download runs out of retries or is abandoned
\* (FtpDownload), and the tick serves the timers. A load ends, with a report or unheard:
\* while it is not over something carries it on (ParamLoad, LoadIsWhole), and each of its
\* timers runs out a counted number of times.
Fairness ==
  /\ WF_connecting(VersionAnswered) /\ WF_connecting(ModeReceived \/ ModeFailed)
  /\ WF_connecting(MetadataFailed \/ InformationFailed \/ GeneralNamed)
  /\ WF_connecting(FtpMetadataEnds) /\ WF_connecting(HttpEnds)
  /\ WF_connecting(PackReceived \/ \E absent, early \in BOOLEAN : PackFailed(absent, early))
  /\ WF_connecting(LoadReady \/ LoadFails \/ LoadEndsUnheard)
  /\ WF_connecting(PackTimer)
  /\ \A plan \in Plans : WF_connecting(TransferEnds(plan))
FairSpec == Spec /\ Fairness

-----------------------------------------------------------------------------
(* Properties.                                                             *)

\* No variable leaves its range (autopilot never changes): a mode past the last is never
\* asked for, and retries of the parameter file stop one past their limit.
TypeOK ==
  /\ step \in Steps
  /\ asked \in Messages \cup {None} /\ mode \in 1 .. Modes
  /\ supported \subseteq {GeoFence, RallyPoints}
  /\ fetch \in Metadata \cup {"Pack", None} /\ http \in Metadata \cup {None}
  /\ fallback \in BOOLEAN /\ job \in BOOLEAN
  /\ loading \in BOOLEAN /\ loaded \in BOOLEAN
  /\ packDue \in BOOLEAN /\ packDeclined \in BOOLEAN /\ packRetries \in 0 .. MaxRetry + 1
  /\ plans \in [Plans -> Transfers]
  /\ highLatency \in BOOLEAN /\ flying \in BOOLEAN
  /\ refreshes \in 0 .. MaxRefreshes

\* Every step has something under way that ends it (connect.rs moves only when step_done
\* is called for its step, and no step has a timer of its own): a request that is
\* answered, a download of metadata, a load with a timer, a transfer that reports. With
\* Unheard the parameter step may have nothing.
StepIsUnderWay ==
  /\ step = AutopilotVersion => asked = "Version"
  /\ step = StandardModes => asked = "Modes"
  /\ step = ComponentInformation =>
       asked \in {"Metadata", "Information"} \/ fetch \in Metadata \/ http # None
  /\ step = Parameters => ~loaded /\ (loading \/ packDue \/ fetch = "Pack")
  /\ step \in Plans => plans[step] = "Transfer"

\* No request and no download of metadata outlives the step that it belongs to, so that
\* none can end another: on_autopilot_version advances whatever the step is.
NothingOutlivesItsStep ==
  /\ asked = "Version" => step = AutopilotVersion
  /\ asked = "Modes" => step = StandardModes
  /\ asked \in {"Metadata", "Information"} => step = ComponentInformation
  /\ fetch \in Metadata \/ http # None => step = ComponentInformation /\ asked = None
  /\ ~(fetch \in Metadata /\ http # None)

\* One transfer at a time uses the vehicle's FTP server: file_job refuses with FILES_BUSY
\* and start_pack waits.
FilesTakeTurns == ~(job /\ fetch # None)

\* The initial connect of every vehicle completes, whatever fails meanwhile; with Unheard
\* the code does not keep this.
ConnectCompletes == <>(step = Complete)
=============================================================================
