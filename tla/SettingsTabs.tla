---------------------------- MODULE SettingsTabs ----------------------------
(***************************************************************************)
(* The settings of the web app, open in several tabs of one browser.  Each *)
(* tab has a page (core/client.ts) and a worker that runs the core         *)
(* (core/worker.ts); page and worker exchange messages over two FIFO       *)
(* channels.  The pages share the browser's storage, one text of all the   *)
(* settings, and hear of each other's writes to it by storage events.      *)
(*                                                                         *)
(* A setting's value is the number of the change a core made it by (0: the *)
(* default), so a later change has the larger value.                       *)
(***************************************************************************)
EXTENDS Integers, Sequences, FiniteSets

CONSTANTS
  Tabs,
  Keys,
  LeavesTime, \* a tab changes a setting once all the other tabs saved has arrived
  LoadsAlone, \* no setting changes while another tab is being loaded
  MaxChanges, \* bound of the model: changes made
  MaxLoads,   \* bound of the model: times a page is loaded
  Capacity    \* bound of the model: messages in flight per channel

ASSUME TabsAssumption ==
  /\ LeavesTime \in BOOLEAN /\ LoadsAlone \in BOOLEAN
  /\ MaxChanges \in Nat /\ MaxLoads \in Nat /\ Capacity \in Nat

VARIABLES
  storage,  \* localStorage[SETTINGS_KEY]
  page,     \* the page: "closed", "opening" until settingsOpen is answered, "on"
  open,     \* settings.revision is not null in the worker
  values,   \* the core's settings
  unkept,   \* settingsRevision() differs from settings.revision
  toWorker, \* calls in flight to the worker
  toPage,   \* answers and settings in flight to the page
  heard,    \* storage events not yet delivered to the page
  changes,  \* changes made so far
  loads     \* pages loaded so far

vars == <<storage, page, open, values, unkept, toWorker, toPage, heard,
          changes, loads>>

Text == [Keys -> 0 .. MaxChanges]
Default == [k \in Keys |-> 0]

Calls ==
  [call : {"settingsOpen", "settingsAdopt"}, text : Text] \cup
  [call : {"set"}, key : Keys]
Posts == [settings : BOOLEAN, text : Text] \* settings FALSE: the answer to settingsOpen

TypeOK ==
  /\ storage \in Text
  /\ page \in [Tabs -> {"closed", "opening", "on"}]
  /\ open \in [Tabs -> BOOLEAN]
  /\ values \in [Tabs -> Text]
  /\ unkept \in [Tabs -> BOOLEAN]
  /\ toWorker \in [Tabs -> Seq(Calls)]
  /\ toPage \in [Tabs -> Seq(Posts)]
  /\ heard \in [Tabs -> Seq(Text)]
  /\ changes \in 0 .. MaxChanges
  /\ loads \in 0 .. MaxLoads

Init ==
  /\ storage = Default
  /\ page = [t \in Tabs |-> "closed"]
  /\ open = [t \in Tabs |-> FALSE]
  /\ values = [t \in Tabs |-> Default]
  /\ unkept = [t \in Tabs |-> FALSE]
  /\ toWorker = [t \in Tabs |-> <<>>]
  /\ toPage = [t \in Tabs |-> <<>>]
  /\ heard = [t \in Tabs |-> <<>>]
  /\ changes = 0 /\ loads = 0

-----------------------------------------------------------------------------
(* The operator and the browser.                                           *)

\* Nothing another tab wrote is still on its way to t.
CaughtUp(t) ==
  /\ heard[t] = <<>>
  /\ \A i \in DOMAIN toWorker[t] : toWorker[t][i].call = "set"

\* Nothing changed in t is on its way to the storage.
Saved(t) ==
  /\ \A i \in DOMAIN toPage[t] : ~toPage[t][i].settings
  /\ ~unkept[t]
  /\ \A i \in DOMAIN toWorker[t] : toWorker[t][i].call # "set"

MayChange(t) ==
  /\ LeavesTime => CaughtUp(t) /\ \A u \in Tabs \ {t} : Saved(u)
  /\ LoadsAlone => \A u \in Tabs \ {t} : page[u] # "opening"

SetsAsked == {call \in Tabs \X (1 .. Capacity) :
                /\ call[2] \in DOMAIN toWorker[call[1]]
                /\ toWorker[call[1]][call[2]].call = "set"}
Bounded == changes + Cardinality(SetsAsked) < MaxChanges

\* A page is loaded: startCore reads the storage at once and calls the worker,
\* which answers when the core has been fetched.
Load(t) ==
  /\ page[t] = "closed" /\ loads < MaxLoads
  /\ LoadsAlone => \A u \in Tabs : Saved(u)
  /\ page' = [page EXCEPT ![t] = "opening"]
  /\ toWorker' = [toWorker EXCEPT ![t] = <<[call |-> "settingsOpen", text |-> storage]>>]
  /\ loads' = loads + 1
  /\ UNCHANGED <<storage, open, values, unkept, toPage, heard, changes>>

\* A page is closed or reloaded, its worker and all that is in flight with it.
Close(t) ==
  /\ page[t] # "closed"
  /\ page' = [page EXCEPT ![t] = "closed"]
  /\ open' = [open EXCEPT ![t] = FALSE]
  /\ values' = [values EXCEPT ![t] = Default]
  /\ unkept' = [unkept EXCEPT ![t] = FALSE]
  /\ toWorker' = [toWorker EXCEPT ![t] = <<>>]
  /\ toPage' = [toPage EXCEPT ![t] = <<>>]
  /\ heard' = [heard EXCEPT ![t] = <<>>]
  /\ UNCHANGED <<storage, changes, loads>>

\* The operator changes a setting on the page.
Change(t, k) ==
  /\ page[t] # "closed" /\ Bounded /\ MayChange(t)
  /\ Len(toWorker[t]) < Capacity
  /\ toWorker' = [toWorker EXCEPT ![t] = Append(@, [call |-> "set", key |-> k])]
  /\ UNCHANGED <<storage, page, open, values, unkept, toPage, heard, changes, loads>>

-----------------------------------------------------------------------------
(* The worker.                                                             *)

\* keepSettings, with the core's settings given: the whole text is posted.
Keeping(t, text) ==
  /\ toPage' = [toPage EXCEPT ![t] = Append(@, [settings |-> TRUE, text |-> text])]
  /\ unkept' = [unkept EXCEPT ![t] = FALSE]

Handled(t) == toWorker[t][1]
Handling(t, call) ==
  /\ toWorker[t] # <<>> /\ Handled(t).call = call /\ Len(toPage[t]) < Capacity
  /\ toWorker' = [toWorker EXCEPT ![t] = Tail(@)]

\* openSettings and its answer; settings.revision is the core's, so nothing is kept.
SettingsOpen(t) ==
  /\ Handling(t, "settingsOpen")
  /\ values' = [values EXCEPT ![t] = Handled(t).text]
  /\ open' = [open EXCEPT ![t] = TRUE]
  /\ toPage' = [toPage EXCEPT ![t] = Append(@, [settings |-> FALSE, text |-> Default])]
  /\ unkept' = [unkept EXCEPT ![t] = FALSE]
  /\ UNCHANGED <<storage, page, heard, changes, loads>>

\* adoptSettings: every setting is replaced; what was not kept yet is forgotten.
AdoptingAnew(t) == \* fault: settings.revision is not taken from the core
  /\ values' = [values EXCEPT ![t] = Handled(t).text]
  /\ Keeping(t, Handled(t).text)
Adopting(t) ==
  /\ values' = [values EXCEPT ![t] = Handled(t).text]
  /\ unkept' = [unkept EXCEPT ![t] = FALSE]
  /\ UNCHANGED toPage

SettingsAdopt(t) ==
  /\ Handling(t, "settingsAdopt")
  /\ Adopting(t)
  /\ UNCHANGED <<storage, page, open, heard, changes, loads>>

SetKeptFirst(t) == \* fault: the settings are kept before the call is made
  /\ Handling(t, "set")
  /\ changes' = changes + 1
  /\ values' = [values EXCEPT ![t][Handled(t).key] = changes']
  /\ Keeping(t, values[t])
  /\ UNCHANGED <<storage, page, open, heard, loads>>

\* A call that writes a setting; its reply keeps the settings.
Set(t) ==
  /\ Handling(t, "set")
  /\ changes' = changes + 1
  /\ values' = [values EXCEPT ![t][Handled(t).key] = changes']
  /\ Keeping(t, values'[t])
  /\ UNCHANGED <<storage, page, open, heard, loads>>

\* The core changes a setting by itself: a link saved, a position remembered.
CoreChanges(t, k) ==
  /\ open[t] /\ Bounded /\ MayChange(t)
  /\ changes' = changes + 1
  /\ values' = [values EXCEPT ![t][k] = changes']
  /\ unkept' = [unkept EXCEPT ![t] = TRUE]
  /\ UNCHANGED <<storage, page, open, toWorker, toPage, heard, loads>>

\* pumpAndKeepSettings, every PUMP_MS.
Pump(t) ==
  /\ open[t] /\ unkept[t] /\ Len(toPage[t]) < Capacity
  /\ Keeping(t, values[t])
  /\ UNCHANGED <<storage, page, open, values, toWorker, heard, changes, loads>>

-----------------------------------------------------------------------------
(* The page.                                                               *)

\* The answer to settingsOpen: adoptOtherTabs listens from now on.
Opened(t) ==
  /\ toPage[t] # <<>> /\ ~toPage[t][1].settings
  /\ toPage' = [toPage EXCEPT ![t] = Tail(@)]
  /\ page' = [page EXCEPT ![t] = "on"]
  /\ UNCHANGED <<storage, open, values, unkept, toWorker, heard, changes, loads>>

\* The browser tells every other page of a write that changed the storage.
Telling(t, text) ==
  heard' = [u \in Tabs |->
              IF u # t /\ page[u] # "closed" /\ text # storage THEN Append(heard[u], text) ELSE heard[u]]

\* store
Store(t) ==
  /\ toPage[t] # <<>> /\ toPage[t][1].settings
  /\ \A u \in Tabs : Len(heard[u]) < Capacity
  /\ toPage' = [toPage EXCEPT ![t] = Tail(@)]
  /\ storage' = toPage[t][1].text
  /\ Telling(t, toPage[t][1].text)
  /\ UNCHANGED <<page, open, values, unkept, toWorker, changes, loads>>

\* A storage event reaches the page: the listener passes it on to the worker.
Hearing(t) ==
  /\ heard[t] # <<>> /\ page[t] = "on" /\ Len(toWorker[t]) < Capacity
  /\ heard' = [heard EXCEPT ![t] = Tail(@)]
  /\ toWorker' = [toWorker EXCEPT ![t] = Append(@, [call |-> "settingsAdopt", text |-> heard[t][1]])]
  /\ UNCHANGED <<storage, page, open, values, unkept, toPage, changes, loads>>

\* It reaches a page that does not listen yet.
NotHearing(t) ==
  /\ heard[t] # <<>> /\ page[t] = "opening"
  /\ heard' = [heard EXCEPT ![t] = Tail(@)]
  /\ UNCHANGED <<storage, page, open, values, unkept, toWorker, toPage, changes, loads>>

WorkerStep(t) == SettingsOpen(t) \/ SettingsAdopt(t) \/ Set(t) \/ Pump(t)
PageStep(t) == Opened(t) \/ Store(t) \/ Hearing(t) \/ NotHearing(t)

Next ==
  \E t \in Tabs :
    \/ Load(t) \/ Close(t)
    \/ WorkerStep(t) \/ PageStep(t)
    \/ \E k \in Keys : Change(t, k) \/ CoreChanges(t, k)

Spec == Init /\ [][Next]_vars

\* Both event loops run, and the browser delivers what it queued.
SettingsFairness == \A t \in Tabs : WF_vars(WorkerStep(t)) /\ WF_vars(PageStep(t))
FairSpec == Spec /\ SettingsFairness

-----------------------------------------------------------------------------
(* What the tabs promise each other.                                       *)

Quiet == \A t \in Tabs :
  page[t] # "opening" /\ ~unkept[t] /\ toWorker[t] = <<>> /\ toPage[t] = <<>> /\ heard[t] = <<>>

\* A tab that saves the whole text never puts an older value of a setting back
\* over a newer one another tab saved (store, adoptSettings).
NothingIsWiped == [][\A k \in Keys : storage'[k] >= storage[k]]_vars

\* The tabs do not answer each other's settings for ever (settings.revision taken on
\* adopting and on keeping), and once the exchange has died out every open tab shows
\* what is stored (keepSettings, adoptOtherTabs): no change is stuck in a worker.
ShowsStored(t) == page[t] = "on" => values[t] = storage
TabsAgree == <>[](Quiet /\ \A t \in Tabs : ShowsStored(t))
=============================================================================
