--------------------------- MODULE EntryLifecycle ---------------------------
(***************************************************************************)
(* The life of the config entry (__init__.py): runtimes are built, loaded, *)
(* published, started, closed and replaced while rules are saved, services *)
(* are called, checks run and Home Assistant stops.                        *)
(*                                                                         *)
(* The lifecycle of an entry is one task at a time (Home Assistant's       *)
(* setup_lock); what runs beside it are the update listener, the stop      *)
(* event, the close it may have started, watches, actions and service      *)
(* calls.  One TLA+ action is the code between two awaits.  Runtimes have  *)
(* an identity because old ones can be referred to after new ones exist.   *)
(* How actions contend for the lock and what they write is the subject of  *)
(* PatchRuntime, how a watch is kept that of Watcher; here an action is    *)
(* admitted, validated and reported.                                       *)
(***************************************************************************)
EXTENDS Naturals

CONSTANTS Rules,    \* ids of patch subentries
          Choices,  \* what each of them is set to in this environment
          Ids,      \* identities of runtimes, used again once one is garbage
          Faults    \* which of FaultKinds this environment exhibits

FaultKinds ==
  {"edit_in_setup",    \* a rule is saved between construction and listener
   "cleared_unloaded", \* a rule is deleted or disabled with no runtime there
   "refused_at_stop"}  \* an unload fails while Home Assistant stops

None == 0

\* What is saved for a rule: nothing, a disabled or an enabled definition, the
\* same with an address and no hash (from an older version), one that is refused.
Settings == {"absent", "off", "on", "unhashed_off", "unhashed", "broken"}
Enabled  == {"on", "unhashed"}
Unhashed == {"unhashed_off", "unhashed"}

ASSUME LifecycleAssumption ==
  /\ Choices \in [Rules -> SUBSET Settings]
  /\ Ids \subseteq Nat \ {None}
  /\ Faults \subseteq FaultKinds

Works    == {"no", "asked", "queued", "running"}
Closing  == {"no", "watcher", "drain", "save", "done"}
Steps    == {"idle", "imports", "load", "platforms", "start",
             "cleanup", "discard", "unload", "drain"}
States   == {"not_loaded", "setting_up", "loaded", "setup_error",
             "unloading", "failed_unload", "removed"}

VARIABLES
  saved,      \* entry.subentries
  defs,       \* definitions of each runtime
  closing,    \* runtimes whose closing flag is set
  close,      \* how far async_close of each runtime has come
  watching,   \* runtimes with a running observer
  failing,    \* per runtime: rules with an error, to be checked again, no hash
  unseen,     \* per runtime: enabled rules whose status is still UNKNOWN
  blind,      \* per runtime: rules whose directory is not watched
  work,       \* per runtime and rule: its action, from schedule to its end
  published,  \* hass.data[DOMAIN]["runtime"]
  services,   \* the actions are registered
  entities,   \* the runtime whose sensors exist
  ha,         \* ConfigEntry.state
  step, goal, \* the lifecycle task, and what an unload is for
  cur,        \* the runtime it works on
  listener,   \* the runtime whose update and stop listeners are registered
  signals,    \* runtimes whose updated() was called and has not run
  wanted,     \* a reload waits for setup_lock
  stopping,   \* EVENT_HOMEASSISTANT_STOP was fired
  repairs     \* rules with an issue in the registry

runtimeVars == <<defs, closing, close, watching, failing, unseen, blind, work>>
taskVars    == <<ha, step, goal, cur>>
hookVars    == <<listener, signals, wanted, stopping>>
hassVars    == <<published, services, entities>>
vars == <<saved, runtimeVars, taskVars, hookVars, hassVars, repairs>>

TypeOK ==
  /\ saved \in [Rules -> Settings]
  /\ defs \in [Ids -> [Rules -> Settings \ {"broken"}]]
  /\ closing \subseteq Ids
  /\ close \in [Ids -> Closing]
  /\ watching \subseteq Ids
  /\ {failing, unseen, blind} \subseteq [Ids -> SUBSET Rules]
  /\ work \in [Ids -> [Rules -> Works]]
  /\ {published, entities, cur, listener} \subseteq Ids \cup {None}
  /\ services \in BOOLEAN
  /\ ha \in States
  /\ step \in Steps
  /\ goal \in {"none", "reload", "unload", "remove"}
  /\ signals \subseteq Ids
  /\ wanted \in BOOLEAN
  /\ stopping \in BOOLEAN
  /\ repairs \subseteq Rules

Idle    == [r \in Rules |-> "no"]
NoRules == [r \in Rules |-> "absent"]

\* Home Assistant has started: the entry is loaded next.
Init ==
  /\ saved \in [Rules -> Settings]
  /\ \A r \in Rules : saved[r] \in Choices[r]
  /\ defs = [i \in Ids |-> NoRules]
  /\ closing = {}
  /\ close = [i \in Ids |-> "done"]
  /\ watching = {}
  /\ failing = [i \in Ids |-> {}] /\ unseen = failing /\ blind = failing
  /\ work = [i \in Ids |-> Idle]
  /\ published = None /\ services = FALSE /\ entities = None
  /\ ha = "not_loaded" /\ step = "idle" /\ goal = "none" /\ cur = None
  /\ listener = None /\ signals = {} /\ wanted = FALSE
  /\ stopping = FALSE
  /\ repairs = {}

-----------------------------------------------------------------------------
(* What the steps are made of.                                             *)

\* matches_entry; a broken definition is a PatchError and never matches.
Matches(i) == defs[i] = saved

\* _validate_current
Valid(i, r) == defs[i][r] # "absent" /\ saved[r] \in Enabled /\ Matches(i)

EnabledIn(i) == {r \in Rules : defs[i][r] \in Enabled}

\* Rules that may have an issue: one that lacks a hash even if it is disabled.
Reportable(i) == EnabledIn(i) \cup {r \in Rules : defs[i][r] \in Unhashed}

\* IssueManager.update for rules R: such a rule has an issue while it fails.
Reported(i, R, bad) == (repairs \ R) \cup (R \cap Reportable(i) \cap bad)

\* PatchAttentionSensor.is_on, for which a disabled rule and one that was never
\* checked have no answer.
Sensor(i, r) ==
  IF r \notin EnabledIn(i) \/ r \in unseen[i]
  THEN "unknown"
  ELSE IF r \in failing[i] THEN "on" ELSE "off"

\* async_register_services, async_remove_services
RegisterServices == services' = TRUE
RemoveServices == services' = FALSE

\* The sensors are made for one runtime.
SetUpEntities == entities' = cur

\* schedule
Ask(i, R) == [work EXCEPT ![i] =
  [r \in Rules |-> IF r \in R /\ @[r] = "no" THEN "asked" ELSE @[r]]]

\* async_close called: admission ends; a close that runs already is joined.
CloseCalled(i) ==
  /\ closing' = closing \cup {i}
  /\ close' = [close EXCEPT ![i] = IF @ = "no" THEN "watcher" ELSE @]

\* Nothing refers to a runtime any more.
Garbage(i) ==
  /\ i \notin {published, entities, cur, listener} \cup signals
  /\ close[i] = "done" /\ i \notin watching /\ work[i] = Idle

-----------------------------------------------------------------------------
(* Saving rules.                                                           *)

\* The faults of saving at a bad moment.  A rule without an issue leaves none.
Timely(r, d) ==
  /\ step \in {"load", "platforms", "start"} => "edit_in_setup" \in Faults
  /\ (d \notin Enabled /\ r \in repairs
       /\ (published = None \/ (published # None /\ close[published] = "done")))
     => "cleared_unloaded" \in Faults

SaveRule(r, d) ==
  /\ ha # "removed"
  /\ d \in Choices[r] \ {saved[r]}
  /\ Timely(r, d)
  /\ saved' = [saved EXCEPT ![r] = d]
  /\ signals' = signals \cup ({listener} \ {None})
  /\ UNCHANGED <<runtimeVars, taskVars, listener, wanted, stopping, hassVars,
                 repairs>>

\* A flow, under configuration_guard when there is a runtime; one that opens a
\* broken definition raises, and an address is saved with its hash.
FlowSaves(r) ==
  /\ published # None => published \notin closing /\ Matches(published)
  /\ saved[r] # "broken"
  /\ \E d \in {"on", "off"} : SaveRule(r, d)

\* Home Assistant deletes a subentry without asking the integration.
Delete(r) == SaveRule(r, "absent")

\* (A reload put off because an action runs.)
UpdatedWhenIdle(i) ==
  /\ i \in signals
  /\ signals' = signals \ {i}
  /\ wanted' = (wanted \/ (i \notin closing /\ ~Matches(i) /\ work[i] = Idle))
  /\ UNCHANGED <<saved, runtimeVars, taskVars, listener, stopping, hassVars,
                 repairs>>

\* updated(): reload unless the runtime is closing or was told of the change.
Updated(i) ==
  /\ i \in signals
  /\ signals' = signals \ {i}
  /\ wanted' = (wanted \/ (i \notin closing /\ ~Matches(i)))
  /\ UNCHANGED <<saved, runtimeVars, taskVars, listener, stopping, hassVars,
                 repairs>>

-----------------------------------------------------------------------------
(* async_setup_entry.                                                      *)

\* Home Assistant calls it; a published runtime makes it return False.
CallSetup ==
  /\ IF published = None
     THEN ha' = "setting_up" /\ step' = "imports"
     ELSE ha' = "setup_error" /\ step' = "idle"
  /\ UNCHANGED <<saved, runtimeVars, goal, cur, listener, signals, stopping,
                 hassVars, repairs>>

SetUp ==
  /\ step = "idle" /\ ha = "not_loaded" /\ ~stopping
  /\ CallSetup
  /\ UNCHANGED wanted

\* The constructor reads the definitions; one that is refused ends the setup.
Construct ==
  /\ step = "imports"
  /\ \A r \in Rules : saved[r] # "broken"
  /\ \E i \in Ids :
       /\ Garbage(i) /\ \A j \in Ids : Garbage(j) => i <= j
       /\ defs' = [defs EXCEPT ![i] = saved]
       /\ closing' = closing \ {i}
       /\ close' = [close EXCEPT ![i] = "no"]
       /\ failing' = [failing EXCEPT ![i] = {}]
       /\ unseen' = [unseen EXCEPT ![i] = {r \in Rules : saved[r] \in Enabled}]
       /\ blind' = [blind EXCEPT ![i] = Rules]
       /\ cur' = i
       /\ published' = i
  /\ step' = "load"
  /\ UNCHANGED <<saved, watching, work, ha, goal, hookVars, services, entities,
                 repairs>>

ConstructRefused ==
  /\ step = "imports"
  /\ \E r \in Rules : saved[r] = "broken"
  /\ step' = "idle" /\ ha' = "setup_error"
  /\ UNCHANGED <<saved, runtimeVars, goal, cur, hookVars, hassVars,
                 repairs>>

\* What async_load reports, given the rules whose gating error was restored: a
\* gate of an enabled rule, otherwise a missing hash of any rule.
Unfit(i, gates) ==
  {r \in Rules : \/ defs[i][r] \in Unhashed /\ r \notin gates
                 \/ defs[i][r] \in Enabled /\ r \in gates}

\* async_load.  (Any gates may have been stored, see PatchRuntime.)
Loaded ==
  /\ step = "load"
  /\ \E gates \in SUBSET {r \in Rules : defs[cur][r] # "absent"} :
       LET bad == Unfit(cur, gates) IN
       /\ failing' = [failing EXCEPT ![cur] = bad]
       /\ unseen' = [unseen EXCEPT ![cur] = @ \ bad]
       /\ repairs' = Reported(cur, bad, bad)
  /\ step' = "platforms"
  /\ UNCHANGED <<saved, defs, closing, close, watching, blind, work, ha, goal,
                 cur, hookVars, hassVars>>

Forwarded ==
  /\ step = "platforms"
  /\ step' = "start"
  /\ SetUpEntities
  /\ UNCHANGED <<saved, runtimeVars, ha, goal, cur, hookVars, published,
                 services, repairs>>

\* PatchWatcher.async_start has looked at the roots of rules R, not all of them
\* if it fails, and reports each as watched, lost or denied by the policy.
Looked(R) == \E lost \in SUBSET R : \E denied \in SUBSET lost :
  /\ blind' = [blind EXCEPT ![cur] = (@ \ R) \cup lost]
  /\ failing' = [failing EXCEPT ![cur] = @ \cup lost]
  /\ unseen' = [unseen EXCEPT ![cur] = @ \ denied]
  /\ repairs' = Reported(cur, R, failing[cur] \cup lost)
  /\ watching' = watching \cup (IF EnabledIn(cur) = {} THEN {} ELSE {cur})

\* async_start to the end of async_setup_entry: startup checks are scheduled,
\* the listeners added and the actions registered.
Started ==
  /\ step = "start"
  /\ Looked(EnabledIn(cur))
  /\ \E startup \in SUBSET EnabledIn(cur) : work' = Ask(cur, startup)
  /\ step' = "idle" /\ ha' = "loaded" /\ cur' = None
  /\ listener' = cur
  /\ RegisterServices
  /\ UNCHANGED <<saved, defs, closing, close, signals, wanted,
                 stopping, published, entities, goal>>

\* (A withdrawn runtime that was not closed.)
CleanUpUnclosed ==
  /\ step' = "discard"
  /\ UNCHANGED <<saved, defs, closing, close, work, ha, goal, cur, hookVars,
                 hassVars>>

\* The except clause: whatever failed, the runtime is closed first.
CleanUp ==
  /\ step' = "cleanup"
  /\ CloseCalled(cur)
  /\ UNCHANGED <<saved, defs, work, ha, goal, cur, hookVars, hassVars>>

SetupFails ==
  /\ \/ step \in {"load", "platforms"}
        /\ UNCHANGED <<watching, failing, unseen, blind, repairs>>
     \/ step = "start" /\ \E R \in SUBSET EnabledIn(cur) : Looked(R)
  /\ CleanUp

\* The platforms are unloaded once the close has ended, and in any case the
\* runtime is withdrawn.
CleanedUp ==
  /\ step = "cleanup" /\ close[cur] = "done"
  /\ step' = "discard"
  /\ UNCHANGED <<saved, runtimeVars, ha, goal, cur, hookVars, hassVars,
                 repairs>>

Discard ==
  /\ step = "discard"
  /\ entities' = None
  /\ published' = None
  /\ defs' = [defs EXCEPT ![cur] = NoRules]
  /\ step' = "idle" /\ ha' = "setup_error" /\ cur' = None
  /\ UNCHANGED <<saved, closing, close, watching, failing, unseen, blind, work,
                 goal, hookVars, services, repairs>>

-----------------------------------------------------------------------------
(* async_unload_entry and async_remove_entry.                              *)

CallUnload(g) ==
  /\ goal' = g
  /\ ha' = "unloading" /\ step' = "unload"
  /\ cur' = published
  /\ closing' = closing \cup {published}
  /\ UNCHANGED <<saved, defs, close, watching, failing, unseen, blind, work,
                 listener, signals, stopping, hassVars, repairs>>

\* async_reload, for a user or for updated(): refused after a failed unload.
Reload ==
  /\ step = "idle"
  /\ \/ ha = "loaded" /\ CallUnload("reload")
     \/ ha \in {"not_loaded", "setup_error"} /\ CallSetup

ReloadByUser == ~stopping /\ Reload /\ UNCHANGED wanted

ReloadWanted ==
  /\ wanted /\ step = "idle"
  /\ wanted' = FALSE
  /\ \/ Reload
     \/ ha \in {"failed_unload", "removed"}
        /\ UNCHANGED <<saved, runtimeVars, taskVars, listener, signals,
                       stopping, hassVars, repairs>>

UnloadByUser(g) ==
  /\ step = "idle" /\ ha = "loaded" /\ ~stopping
  /\ CallUnload(g)
  /\ UNCHANGED wanted

\* async_remove_entry clears the issues of the rules the entry still has.
Removed == repairs' = repairs \ {r \in Rules : saved[r] # "absent"}

RemoveUnloaded ==
  /\ step = "idle" /\ ha \in {"not_loaded", "setup_error"} /\ ~stopping
  /\ ha' = "removed"
  /\ Removed
  /\ UNCHANGED <<saved, runtimeVars, step, goal, cur, hookVars, hassVars>>

PlatformsUnloaded ==
  /\ step = "unload"
  /\ entities' = None
  /\ CloseCalled(cur)
  /\ step' = "drain"
  /\ UNCHANGED <<saved, defs, watching, failing, unseen, blind, work, ha, goal,
                 cur, hookVars, published, services, repairs>>

\* The platforms stay: admission is resumed, and what was missed while it was
\* closed is checked unless the call raised.  Home Assistant removes an entry
\* nevertheless.
UnloadFails ==
  /\ step = "unload"
  /\ stopping => "refused_at_stop" \in Faults
  /\ closing' = closing \ {cur}
  /\ work' \in {work, Ask(cur, EnabledIn(cur))}
  /\ step' = "idle" /\ cur' = None /\ goal' = "none"
  /\ IF goal = "remove"
     THEN ha' = "removed" /\ Removed
     ELSE ha' = "failed_unload" /\ UNCHANGED repairs
  /\ UNCHANGED <<saved, defs, close, watching, failing, unseen, blind, hookVars,
                 hassVars>>

\* The rest of the unload, Home Assistant's removal of the listeners, and what
\* the unload was for.
Unloaded ==
  /\ step = "drain" /\ close[cur] = "done"
  /\ published' = None /\ RemoveServices
  /\ listener' = None /\ cur' = None /\ goal' = "none"
  /\ defs' = [defs EXCEPT ![cur] = NoRules]
  /\ \/ goal = "reload" /\ ha' = "setting_up" /\ step' = "imports"
        /\ UNCHANGED repairs
     \/ goal = "unload" /\ ha' = "not_loaded" /\ step' = "idle"
        /\ UNCHANGED repairs
     \/ goal = "remove" /\ ha' = "removed" /\ step' = "idle" /\ Removed
  /\ UNCHANGED <<saved, closing, close, watching, failing, unseen, blind, work,
                 signals, wanted, stopping, entities>>

-----------------------------------------------------------------------------
(* async_close, and the stop event that calls it beside the lifecycle.     *)

Stop ==
  /\ ~stopping
  /\ stopping' = TRUE
  /\ IF listener = None
     THEN UNCHANGED <<closing, close>>
     ELSE CloseCalled(listener)
  /\ UNCHANGED <<saved, defs, watching, failing, unseen, blind, work, taskVars,
                 listener, signals, wanted, hassVars, repairs>>

CloseStep(i, from, to) ==
  /\ close[i] = from
  /\ close' = [close EXCEPT ![i] = to]
  /\ UNCHANGED <<saved, defs, closing, work, taskVars, hookVars, hassVars>>

CloseWatcher(i) ==
  /\ CloseStep(i, "watcher", "drain")
  /\ watching' = watching \ {i}
  /\ UNCHANGED <<failing, unseen, blind, repairs>>

CloseDrained(i) ==
  /\ work[i] = Idle
  /\ CloseStep(i, "drain", "save")
  /\ UNCHANGED <<watching, failing, unseen, blind, repairs>>

\* What a closed runtime knew of its rules is not used again.
Forgotten(i) ==
  /\ failing' = [failing EXCEPT ![i] = {}]
  /\ unseen' = [unseen EXCEPT ![i] = {}]
  /\ blind' = [blind EXCEPT ![i] = {}]

\* (A close that clears the issues of deleted rules only.)
CloseSavedOfPresent(i) ==
  /\ CloseStep(i, "save", "done")
  /\ repairs' = repairs \ {r \in Rules : /\ defs[i][r] # "absent"
                                         /\ saved[r] = "absent"}
  /\ Forgotten(i)
  /\ UNCHANGED watching

\* The states are saved; rules that are gone or disabled leave no issue.
CloseSaved(i) ==
  /\ CloseStep(i, "save", "done")
  /\ repairs' = repairs \ {r \in Rules : /\ defs[i][r] # "absent"
                                         /\ saved[r] \notin Enabled}
  /\ Forgotten(i)
  /\ UNCHANGED watching

-----------------------------------------------------------------------------
(* Actions, services and watches.                                          *)

SetWork(i, r, w) ==
  /\ work' = [work EXCEPT ![i][r] = w]
  /\ UNCHANGED <<saved, defs, closing, close, watching, blind, taskVars,
                 hookVars, hassVars>>

\* async_action.  The caller is a scheduled task, a watch, a service call or a
\* reconcile-all under way, which keeps the runtime it began with: whether that
\* runtime is still in use is for the admission to find out.
Admitted(i, r) == i \notin closing /\ Valid(i, r)

Admit(i, r) ==
  /\ work[i][r] \in {"no", "asked"}
  /\ Admitted(i, r)
  /\ SetWork(i, r, "queued")
  /\ UNCHANGED <<failing, unseen, repairs>>

\* A scheduled task that is refused, an action that is no longer valid when it
\* gets the lock.
Refuse(i, r) ==
  /\ \/ work[i][r] = "asked" /\ ~Admitted(i, r)
     \/ work[i][r] = "queued" /\ ~Valid(i, r)
  /\ SetWork(i, r, "no")
  /\ UNCHANGED <<failing, unseen, repairs>>

Begin(i, r) ==
  /\ work[i][r] = "queued" /\ Valid(i, r)
  /\ SetWork(i, r, "running")
  /\ UNCHANGED <<failing, unseen, repairs>>

\* _record_result and _publish: a success counts once the directory is watched;
\* what Home Assistant refuses because the directory is lost changes nothing.
Finish(i, r) ==
  /\ work[i][r] = "running"
  /\ \E ok, early \in BOOLEAN :
       LET bad == IF ok /\ r \notin blind[i] /\ defs[i][r] # "unhashed"
                  THEN failing[i] \ {r}
                  ELSE failing[i] \cup {r}
       IN /\ early => ~ok /\ r \in blind[i] \cap failing[i]
          /\ failing' = [failing EXCEPT ![i] = bad]
          /\ unseen' = [unseen EXCEPT ![i] = IF early THEN @ ELSE @ \ {r}]
          /\ repairs' = Reported(i, {r}, bad)
  /\ SetWork(i, r, "no")

\* watch_available, watch_denied: a root came back (and its rules stay to be
\* checked again), is lost, or is denied by the policy.
Watch(i, r) ==
  /\ i \in watching /\ r \in EnabledIn(i)
  /\ ~(step = "start" /\ cur = i)
  /\ \E back, denied \in BOOLEAN :
       /\ back => r \in blind[i] /\ ~denied
       /\ LET bad == IF back THEN failing[i] ELSE failing[i] \cup {r}
          IN failing' = [failing EXCEPT ![i] = bad]
             /\ repairs' = Reported(i, {r}, bad)
       /\ unseen' = [unseen EXCEPT ![i] = IF denied THEN @ \ {r} ELSE @]
       /\ blind' = [blind EXCEPT ![i] = IF back THEN @ \ {r} ELSE @ \cup {r}]
  /\ UNCHANGED <<saved, defs, closing, close, watching, work, taskVars,
                 hookVars, hassVars>>

-----------------------------------------------------------------------------
Lifecycle ==
  \/ Construct \/ ConstructRefused \/ Loaded \/ Forwarded \/ Started
  \/ SetupFails \/ CleanedUp \/ Discard
  \/ PlatformsUnloaded \/ UnloadFails \/ Unloaded

Requests ==
  \/ SetUp \/ ReloadByUser \/ UnloadByUser("unload") \/ UnloadByUser("remove")
  \/ RemoveUnloaded \/ Stop
  \/ \E r \in Rules : FlowSaves(r) \/ Delete(r)

Close(i) == CloseWatcher(i) \/ CloseDrained(i) \/ CloseSaved(i)
Work(i, r) == Refuse(i, r) \/ Begin(i, r) \/ Finish(i, r)

Next ==
  \/ Lifecycle \/ Requests \/ ReloadWanted
  \/ \E i \in Ids :
       \/ Close(i) \/ Updated(i)
       \/ \E r \in Rules : Work(i, r) \/ Admit(i, r) \/ Watch(i, r)

\* Tasks and executor jobs end; setup_lock is first come, first served.
Fairness ==
  /\ WF_vars(Lifecycle) /\ SF_vars(ReloadWanted)
  /\ \A i \in Ids :
       /\ WF_vars(Close(i)) /\ WF_vars(Updated(i))
       /\ \A r \in Rules : WF_vars(Work(i, r))

Spec == Init /\ [][Next]_vars /\ Fairness

-----------------------------------------------------------------------------
(* Properties.                                                             *)

\* Nothing is stranded: a runtime that nobody can reach through hass.data, or
\* that was closed, watches no directory and has no action scheduled, queued or
\* running, however setup, unload, stop and saves of rules interleave; sensors
\* and services belong to the published runtime; and when an entry is not
\* loaded, no runtime is in the way of the next setup (__init__.py:76-86,
\* 101-126).
OnlyPublishedWorks ==
  /\ \A i \in Ids : i \in watching \/ work[i] # Idle
                      => i = published /\ close[i] # "done"
  /\ entities \in {None, published}
  /\ services => published # None
  /\ ha \in {"not_loaded", "setup_error"} => published = None

\* Repairs belong to rules: while the entry is loaded and nothing is pending, a
\* rule whose problem sensor is on has an issue and one whose sensor is off has
\* none; where the sensor has no answer, a rule that was never checked has an
\* issue when its directory was lost and a disabled one when it lacks a hash (and
\* no gate was restored in its place).
\* When the entry is not loaded, only enabled rules have an issue, and none is
\* left by an entry that was removed (repairs.py:23-32, binary_sensor.py:39-50,
\* coordinator.py:81-100, 338-341, __init__.py:129).
RepairsBelong ==
  /\ ha = "loaded" /\ Matches(published) /\ close[published] = "no"
       => \A r \in Rules :
            /\ r \in repairs <=> \/ Sensor(published, r) = "on"
                                 \/ /\ Sensor(published, r) = "unknown"
                                    /\ r \in failing[published]
            /\ r \in repairs => saved[r] \in Enabled \cup Unhashed
  /\ ha \in {"not_loaded", "setup_error"}
       => \A r \in repairs : saved[r] \in Enabled
  /\ ha = "removed" /\ published = None => repairs = {}

\* What is saved while the entry is loaded is taken up: a runtime that runs with
\* other definitions, and so refuses every action, is replaced by one with the
\* saved ones, unless the entry is unloaded, an unload or the next setup fails,
\* or Home Assistant stops (updated(), __init__.py:88-90).
SavedTakenUp ==
  (ha = "loaded" /\ ~Matches(published))
    ~> \/ ha = "loaded" /\ Matches(published)
       \/ ha \in {"not_loaded", "setup_error", "failed_unload", "removed"}
       \/ stopping
=============================================================================
