------------------------ MODULE EntryLifecycleProofs ------------------------
(* Proofs about EntryLifecycle: that only the published runtime works, for  *)
(* any rules and any number of runtimes, if no unload fails while Home      *)
(* Assistant stops.                                                         *)
EXTENDS EntryLifecycle, TLAPS

-----------------------------------------------------------------------------
(* The inductive invariant                                                  *)

Building == {"load", "platforms", "start"}
Ending   == {"cleanup", "discard"}

\* Only the published runtime has definitions, listeners and sensors.
PublishedOnly ==
  /\ \A i \in Ids : i # published => defs[i] = NoRules
  /\ listener \in {None, published}
  /\ entities \in {None, published}

\* What the lifecycle task works on.
TaskKnown ==
  /\ step = "imports" => ha = "setting_up" /\ published = None /\ ~services
  /\ step \in Building \cup Ending =>
       ha = "setting_up" /\ cur \in Ids /\ cur = published
       /\ listener = None /\ ~services
  /\ step \in {"unload", "drain"} =>
       ha = "unloading" /\ cur \in Ids /\ cur = published
  /\ step = "idle" => ha \notin {"setting_up", "unloading"}
  /\ step = "drain" => entities = None

\* How far the runtime of the task has been closed.
TaskClosing ==
  /\ step \in Building => cur \notin closing /\ close[cur] = "no"
  /\ step \in Ending \cup {"drain"} => close[cur] # "no"
  /\ step = "discard" => close[cur] = "done"
  /\ step = "unload" /\ ~stopping => close[cur] = "no"

\* A loaded entry has its runtime, which is open until Home Assistant stops.
LoadedIsOpen ==
  /\ ha = "loaded" => published \in Ids
  /\ ha = "loaded" /\ ~stopping => close[published] = "no"

\* A close admits nothing, and stops watches and work in this order.
CloseInOrder ==
  \A i \in Ids :
    /\ close[i] \in {"watcher", "drain", "save"} => i \in closing
    /\ close[i] \in {"drain", "save"} => i \notin watching
    /\ close[i] = "save" => work[i] = Idle

\* The published runtime admits only if its close has not begun.
OpenAdmits == published \in Ids \ closing => close[published] = "no"

Ordered ==
  /\ PublishedOnly
  /\ TaskKnown
  /\ TaskClosing
  /\ LoadedIsOpen
  /\ CloseInOrder
  /\ OpenAdmits
  /\ OnlyPublishedWorks

IInv == TypeOK /\ Ordered

\* Only rules that are enabled have an action.
WorkEnabled ==
  \A i \in Ids, r \in Rules : work[i][r] # "no" => r \in EnabledIn(i)

\* Issues of rules that a runtime does not act for: none before it is loaded,
\* then those of the rules that lack a hash.
DisabledHeld ==
  /\ step = "load" => repairs \subseteq EnabledIn(cur)
  /\ step \in {"platforms", "start"} =>
       \A r \in Rules \ EnabledIn(cur) : r \in repairs <=> r \in failing[cur]

\* An issue is about a rule that may have one: in the runtime as long as that
\* reports, in what is saved otherwise.
RepairsHeld ==
  /\ published \in Ids /\ close[published] # "done"
       => failing[published] \subseteq Reportable(published)
  /\ published \in Ids /\ close[published] # "done" /\ ha # "removed"
       => repairs \subseteq Reportable(published)
  /\ published \in Ids /\ close[published] # "done" /\ ha = "loaded"
       => repairs = failing[published]
  /\ DisabledHeld
  /\ (published \in Ids => close[published] = "done") /\ ha # "removed"
       => \A r \in repairs : saved[r] \in Enabled
  /\ ha = "removed" /\ published = None => repairs = {}

-----------------------------------------------------------------------------
(* Types                                                                    *)

LEMMA NoneIsNoId == None \notin Ids
BY LifecycleAssumption DEF None

LEMMA IdleIsWork == Idle \in [Rules -> Works]
BY DEF Idle, Works

\* Asking for rules changes the work of one runtime only.
LEMMA AskType ==
  ASSUME TypeOK, NEW i \in Ids, NEW R \in SUBSET Rules
  PROVE  /\ Ask(i, R) \in [Ids -> [Rules -> Works]]
         /\ \A j \in Ids \ {i} : Ask(i, R)[j] = work[j]
BY DEF TypeOK, Ask, Works

LEMMA InitType == Init => TypeOK
<1> SUFFICES ASSUME Init PROVE TypeOK
  OBVIOUS
<1>1. saved \in [Rules -> Settings]
  BY DEF Init
<1>2. work \in [Ids -> [Rules -> Works]]
  BY IdleIsWork DEF Init
<1>3. defs \in [Ids -> [Rules -> Settings \ {"broken"}]]
  BY DEF Init, NoRules, Settings
<1> QED
  BY <1>1, <1>2, <1>3 DEF Init, TypeOK, Closing, States, Steps

\* What a call of Looked and a report leave.
LEMMA LookedType ==
  ASSUME TypeOK, cur \in Ids, NEW R \in SUBSET Rules, Looked(R)
  PROVE  /\ failing' \in [Ids -> SUBSET Rules]
         /\ unseen' \in [Ids -> SUBSET Rules]
         /\ blind' \in [Ids -> SUBSET Rules]
         /\ repairs' \subseteq Rules
         /\ watching' \subseteq watching \cup {cur}
<1>1. PICK lost \in SUBSET R :
        /\ blind' = [blind EXCEPT ![cur] = (@ \ R) \cup lost]
        /\ failing' = [failing EXCEPT ![cur] = @ \cup lost]
        /\ repairs' = Reported(cur, R, failing[cur] \cup lost)
  BY DEF Looked
<1>2. watching' \subseteq watching \cup {cur}
  BY DEF Looked
<1>3. repairs' \subseteq Rules
  BY <1>1 DEF Reported, TypeOK
<1>4. unseen' \in [Ids -> SUBSET Rules]
  BY DEF Looked, TypeOK
<1> QED
  BY <1>1, <1>2, <1>3, <1>4 DEF TypeOK

LEMMA ReloadType ==
  ASSUME TypeOK, NEW g \in {"reload", "unload", "remove"},
         \/ ha = "loaded" /\ published \in Ids /\ CallUnload(g)
         \/ CallSetup
  PROVE  wanted' \in BOOLEAN => TypeOK'
BY DEF CallUnload, CallSetup, TypeOK, Steps, States, runtimeVars, taskVars,
       hassVars

LEMMA SetupType ==
  ASSUME TypeOK, TaskKnown,
         Construct \/ ConstructRefused \/ Loaded \/ Forwarded \/ Started
  PROVE  TypeOK'
<1> USE DEF TypeOK, Steps, States, hookVars, hassVars, runtimeVars, taskVars
<1>1. CASE Construct
  <2>1. saved \in [Rules -> Settings \ {"broken"}]
    BY <1>1 DEF Construct
  <2> QED
    BY <1>1, <2>1 DEF Construct, Closing
<1>2. CASE ConstructRefused
  BY <1>2 DEF ConstructRefused
<1>3. CASE Loaded
  <2>1. PICK gates \in SUBSET Rules :
          /\ failing' = [failing EXCEPT ![cur] = Unfit(cur, gates)]
          /\ unseen' = [unseen EXCEPT ![cur] = @ \ Unfit(cur, gates)]
          /\ repairs' = Reported(cur, Unfit(cur, gates), Unfit(cur, gates))
    BY <1>3 DEF Loaded
  <2>2. Unfit(cur, gates) \subseteq Rules
    BY DEF Unfit
  <2>3. repairs' \subseteq Rules
    BY <2>1, <2>2 DEF Reported
  <2>4. /\ failing' \in [Ids -> SUBSET Rules]
        /\ unseen' \in [Ids -> SUBSET Rules]
    BY <2>1, <2>2
  <2> QED
    BY <1>3, <2>3, <2>4 DEF Loaded
<1>4. CASE Forwarded
  BY <1>4 DEF Forwarded, SetUpEntities
<1>5. CASE Started
  <2>1. cur \in Ids /\ EnabledIn(cur) \in SUBSET Rules
    BY <1>5 DEF Started, TaskKnown, Building, EnabledIn
  <2>2. Looked(EnabledIn(cur))
    BY <1>5 DEF Started
  <2>3. /\ failing' \in [Ids -> SUBSET Rules] /\ blind' \in [Ids -> SUBSET Rules]
        /\ unseen' \in [Ids -> SUBSET Rules]
        /\ repairs' \subseteq Rules /\ watching' \subseteq Ids
    BY <2>1, <2>2, LookedType
  <2>4. work' \in [Ids -> [Rules -> Works]]
    BY <1>5, <2>1, AskType DEF Started
  <2> QED
    BY <1>5, <2>1, <2>3, <2>4 DEF Started, RegisterServices
<1> QED
  BY <1>1, <1>2, <1>3, <1>4, <1>5

LEMMA EndType ==
  ASSUME TypeOK, TaskKnown,
         \/ SetupFails \/ CleanedUp \/ Discard
         \/ PlatformsUnloaded \/ UnloadFails \/ Unloaded
  PROVE  TypeOK'
<1> USE DEF TypeOK, Steps, States, hookVars, hassVars, runtimeVars, taskVars
<1>1. NoRules \in [Rules -> Settings \ {"broken"}]
  BY DEF NoRules, Settings
<1>2. CASE SetupFails
  <2>1. cur \in Ids
    BY <1>2 DEF SetupFails, TaskKnown, Building
  <2>2. /\ failing' \in [Ids -> SUBSET Rules] /\ blind' \in [Ids -> SUBSET Rules]
        /\ unseen' \in [Ids -> SUBSET Rules]
        /\ repairs' \subseteq Rules /\ watching' \subseteq Ids
    <3>1. CASE UNCHANGED <<watching, failing, unseen, blind, repairs>>
      BY <3>1
    <3>2. CASE \E R \in SUBSET EnabledIn(cur) : Looked(R)
      <4>1. PICK R \in SUBSET EnabledIn(cur) : Looked(R)
        BY <3>2
      <4>2. R \in SUBSET Rules
        BY DEF EnabledIn
      <4> QED
        BY <2>1, <4>1, <4>2, LookedType
    <3> QED
      BY <1>2, <3>1, <3>2 DEF SetupFails
  <2>3. CleanUp
    BY <1>2 DEF SetupFails
  <2> QED
    BY <2>1, <2>2, <2>3 DEF CleanUp, CloseCalled, Closing
<1>3. CASE CleanedUp
  BY <1>3 DEF CleanedUp
<1>4. CASE Discard
  BY <1>1, <1>4 DEF Discard
<1>5. CASE PlatformsUnloaded
  BY <1>5 DEF PlatformsUnloaded, CloseCalled, Closing, TaskKnown
<1>6. CASE UnloadFails
  <2>1. cur \in Ids /\ EnabledIn(cur) \in SUBSET Rules
    BY <1>6 DEF UnloadFails, TaskKnown, EnabledIn
  <2>2. work' \in [Ids -> [Rules -> Works]]
    BY <1>6, <2>1, AskType DEF UnloadFails
  <2> QED
    BY <1>6, <2>2 DEF UnloadFails, Removed
<1>7. CASE Unloaded
  BY <1>1, <1>7 DEF Unloaded, Removed, RemoveServices
<1> QED
  BY <1>2, <1>3, <1>4, <1>5, <1>6, <1>7

LEMMA RequestType ==
  ASSUME TypeOK, LoadedIsOpen, Requests \/ ReloadWanted
  PROVE  TypeOK'
<1> USE DEF TypeOK, hookVars, hassVars, runtimeVars, taskVars
<1>1. CASE SetUp
  BY <1>1, ReloadType DEF SetUp
<1>2. ASSUME Reload PROVE wanted' \in BOOLEAN => TypeOK'
  BY <1>2, ReloadType DEF Reload, LoadedIsOpen
<1>3. CASE ReloadByUser
  BY <1>2, <1>3 DEF ReloadByUser
<1>4. CASE UnloadByUser("unload") \/ UnloadByUser("remove")
  BY <1>4, ReloadType DEF UnloadByUser, LoadedIsOpen
<1>5. CASE RemoveUnloaded
  BY <1>5 DEF RemoveUnloaded, Removed, States
<1>6. CASE Stop
  BY <1>6 DEF Stop, CloseCalled, Closing
<1>7. ASSUME NEW r \in Rules, FlowSaves(r) \/ Delete(r)
      PROVE  TypeOK'
  <2>1. PICK d \in Settings : SaveRule(r, d)
    BY <1>7 DEF FlowSaves, Delete, Settings
  <2> QED
    BY <2>1 DEF SaveRule
<1>8. CASE ReloadWanted
  BY <1>2, <1>8 DEF ReloadWanted
<1> QED
  BY <1>1, <1>3, <1>4, <1>5, <1>6, <1>7, <1>8 DEF Requests

LEMMA RuntimeType ==
  ASSUME TypeOK, NEW i \in Ids,
         \/ Close(i) \/ Updated(i)
         \/ \E r \in Rules : Work(i, r) \/ Admit(i, r) \/ Watch(i, r)
  PROVE  TypeOK'
<1> USE DEF TypeOK, hookVars, hassVars, runtimeVars, taskVars
<1>1. CASE Close(i)
  <2> USE DEF CloseStep, Closing
  <2>1. CASE CloseWatcher(i)
    BY <2>1 DEF CloseWatcher
  <2>2. CASE CloseDrained(i)
    BY <2>2 DEF CloseDrained
  <2>3. CASE CloseSaved(i)
    BY <2>3 DEF CloseSaved, Forgotten
  <2> QED
    BY <1>1, <2>1, <2>2, <2>3 DEF Close
<1>2. CASE Updated(i)
  BY <1>2 DEF Updated
<1>3. ASSUME NEW r \in Rules, NEW w \in Works, SetWork(i, r, w),
             failing' \in [Ids -> SUBSET Rules],
             unseen' \in [Ids -> SUBSET Rules], repairs' \subseteq Rules
      PROVE  TypeOK'
  BY <1>3 DEF SetWork
<1>4. ASSUME NEW r \in Rules, Refuse(i, r) \/ Begin(i, r) \/ Admit(i, r)
      PROVE  TypeOK'
  <2>1. PICK w \in Works : SetWork(i, r, w)
    BY <1>4 DEF Refuse, Begin, Admit, Works
  <2> QED
    BY <1>3, <1>4, <2>1 DEF Refuse, Begin, Admit
<1>5. ASSUME NEW r \in Rules, Finish(i, r) PROVE TypeOK'
  <2>1. PICK bad \in {failing[i] \ {r}, failing[i] \cup {r}} :
          /\ failing' = [failing EXCEPT ![i] = bad]
          /\ repairs' = Reported(i, {r}, bad)
    BY <1>5 DEF Finish
  <2>2. failing' \in [Ids -> SUBSET Rules]
    BY <2>1
  <2>3. unseen' \in [Ids -> SUBSET Rules]
    BY <1>5 DEF Finish
  <2>4. repairs' \subseteq Rules
    BY <2>1 DEF Reported
  <2> QED
    BY <1>3, <1>5, <2>2, <2>3, <2>4 DEF Finish, Works
<1>6. ASSUME NEW r \in Rules, Watch(i, r) PROVE TypeOK'
  <2>1. repairs' \subseteq Rules
    BY <1>6 DEF Watch, Reported
  <2>2. failing' \in [Ids -> SUBSET Rules]
    BY <1>6 DEF Watch
  <2>3. blind' \in [Ids -> SUBSET Rules] /\ unseen' \in [Ids -> SUBSET Rules]
    BY <1>6 DEF Watch
  <2> QED
    BY <1>6, <2>1, <2>2, <2>3 DEF Watch
<1> QED
  BY <1>1, <1>2, <1>4, <1>5, <1>6 DEF Work

LEMMA TypeInvariant ==
  ASSUME TypeOK, TaskKnown, LoadedIsOpen, [Next]_vars
  PROVE  TypeOK'
<1>1. CASE UNCHANGED vars
  BY <1>1 DEF TypeOK, vars, hookVars, hassVars, runtimeVars, taskVars
<1> QED
  BY <1>1, SetupType, EndType, RequestType, RuntimeType DEF Next, Lifecycle

-----------------------------------------------------------------------------
(* Order                                                                    *)

\* Steps that leave alone what the invariant is about preserve it.
LEMMA Untouched ==
  ASSUME Ordered,
         UNCHANGED <<defs, closing, close, watching, work, published, services,
                     entities, ha, step, cur, listener, stopping>>
  PROVE  Ordered'
BY DEF Ordered, PublishedOnly, TaskKnown, TaskClosing, LoadedIsOpen,
       CloseInOrder, OpenAdmits, OnlyPublishedWorks

LEMMA SetupOrdered ==
  ASSUME IInv, Construct \/ ConstructRefused \/ Loaded \/ Forwarded \/ Started
  PROVE  Ordered'
<1> USE NoneIsNoId
    DEF IInv, Ordered, TypeOK, PublishedOnly, TaskKnown, TaskClosing,
        LoadedIsOpen, CloseInOrder, OpenAdmits, OnlyPublishedWorks, Building,
        Ending, hookVars, hassVars, runtimeVars, taskVars
<1>1. CASE Construct
  BY <1>1 DEF Construct, Garbage
<1>2. CASE ConstructRefused
  BY <1>2 DEF ConstructRefused
<1>3. CASE Loaded
  BY <1>3 DEF Loaded
<1>4. CASE Forwarded
  BY <1>4 DEF Forwarded, SetUpEntities
<1>5. CASE Started
  <2>1. cur \in Ids /\ \A i \in Ids : i # cur => work'[i] = work[i]
    BY <1>5, AskType DEF Started, EnabledIn
  <2>2. watching' \subseteq watching \cup {cur}
    BY <1>5 DEF Started, Looked
  <2> QED
    BY <1>5, <2>1, <2>2 DEF Started, RegisterServices
<1> QED
  BY <1>1, <1>2, <1>3, <1>4, <1>5

\* A setup or an unload that ends leaves nothing that works: it was closed, or
\* it stays the published runtime and is open.
LEMMA EndOrdered ==
  ASSUME IInv, "refused_at_stop" \notin Faults,
         \/ SetupFails \/ CleanedUp \/ Discard
         \/ PlatformsUnloaded \/ UnloadFails \/ Unloaded
  PROVE  Ordered'
<1> USE NoneIsNoId
    DEF IInv, Ordered, TypeOK, PublishedOnly, TaskKnown, TaskClosing,
        LoadedIsOpen, CloseInOrder, OpenAdmits, OnlyPublishedWorks, Building,
        Ending, hookVars, hassVars, runtimeVars, taskVars
<1>1. CASE SetupFails
  <2>1. step \in Building /\ CleanUp
    BY <1>1 DEF SetupFails
  <2>2. watching' \subseteq watching \cup {cur}
    BY <1>1 DEF SetupFails, Looked
  <2>3. close'[cur] = "watcher"
    BY <2>1 DEF CleanUp, CloseCalled
  <2> QED
    BY <2>1, <2>2, <2>3 DEF CleanUp, CloseCalled
<1>2. CASE CleanedUp
  BY <1>2 DEF CleanedUp
<1>3. CASE Discard
  BY <1>3 DEF Discard
<1>4. CASE PlatformsUnloaded
  BY <1>4 DEF PlatformsUnloaded, CloseCalled
<1>5. CASE UnloadFails
  <2>1. cur \in Ids /\ cur = published /\ close[cur] = "no"
    BY <1>5 DEF UnloadFails
  <2>2. \A i \in Ids : i # cur => work'[i] = work[i]
    BY <1>5, <2>1, AskType DEF UnloadFails, EnabledIn
  <2> QED
    BY <1>5, <2>1, <2>2 DEF UnloadFails
<1>6. CASE Unloaded
  BY <1>6 DEF Unloaded, RemoveServices
<1> QED
  BY <1>1, <1>2, <1>3, <1>4, <1>5, <1>6

LEMMA RequestOrdered ==
  ASSUME IInv, Requests \/ ReloadWanted
  PROVE  Ordered'
<1> USE NoneIsNoId
    DEF IInv, Ordered, TypeOK, PublishedOnly, TaskKnown, TaskClosing,
        LoadedIsOpen, CloseInOrder, OpenAdmits, OnlyPublishedWorks, Building,
        Ending, hookVars, hassVars, runtimeVars, taskVars
<1>1. ASSUME step = "idle", published = None, CallSetup
      PROVE  Ordered'
  BY <1>1 DEF CallSetup
<1>2. ASSUME NEW g, step = "idle", ha = "loaded", CallUnload(g)
      PROVE  Ordered'
  BY <1>2 DEF CallUnload
<1>3. CASE SetUp
  BY <1>1, <1>3 DEF SetUp
<1>4. CASE Reload
  BY <1>1, <1>2, <1>4 DEF Reload
<1>5. CASE UnloadByUser("unload") \/ UnloadByUser("remove")
  BY <1>2, <1>5 DEF UnloadByUser
<1>6. CASE RemoveUnloaded
  BY <1>6 DEF RemoveUnloaded
<1>7. CASE Stop
  BY <1>7 DEF Stop, CloseCalled
<1>8. ASSUME NEW r \in Rules, FlowSaves(r) \/ Delete(r)
      PROVE  Ordered'
  BY <1>8, Untouched DEF FlowSaves, Delete, SaveRule
<1>9. CASE ReloadWanted
  BY <1>4, <1>9, Untouched DEF ReloadWanted
<1> QED
  BY <1>3, <1>4, <1>5, <1>6, <1>7, <1>8, <1>9 DEF Requests, ReloadByUser

\* Only the published runtime has definitions, so that only it admits; once it
\* closes it admits nothing, and what it admitted is awaited.
LEMMA RuntimeOrdered ==
  ASSUME IInv, NEW i \in Ids,
         \/ Close(i) \/ Updated(i)
         \/ \E r \in Rules : Work(i, r) \/ Admit(i, r) \/ Watch(i, r)
  PROVE  Ordered'
<1> USE NoneIsNoId
    DEF IInv, Ordered, TypeOK, PublishedOnly, TaskKnown, TaskClosing,
        LoadedIsOpen, CloseInOrder, OpenAdmits, OnlyPublishedWorks, Building,
        Ending, hookVars, hassVars, runtimeVars, taskVars
<1>1. CASE Close(i)
  <2> USE DEF CloseStep
  <2>1. CASE CloseWatcher(i)
    BY <2>1 DEF CloseWatcher
  <2>2. CASE CloseDrained(i)
    BY <2>2 DEF CloseDrained
  <2>3. CASE CloseSaved(i)
    BY <2>3 DEF CloseSaved
  <2> QED
    BY <1>1, <2>1, <2>2, <2>3 DEF Close
<1>2. CASE Updated(i)
  BY <1>2, Untouched DEF Updated
<1>3. ASSUME NEW r \in Rules, NEW w, SetWork(i, r, w),
             i = published, close[i] \notin {"save", "done"}
      PROVE  Ordered'
  BY <1>3 DEF SetWork
<1>4. ASSUME NEW r \in Rules, Work(i, r) PROVE Ordered'
  <2>1. (\E w : SetWork(i, r, w)) /\ work[i][r] # "no"
    BY <1>4 DEF Work, Refuse, Begin, Finish
  <2>2. work[i] # Idle
    BY <2>1 DEF Idle
  <2> QED
    BY <1>3, <2>1, <2>2
<1>5. ASSUME NEW r \in Rules, Admit(i, r) PROVE Ordered'
  <2>1. i \notin closing /\ i = published
    BY <1>5 DEF Admit, Admitted, Valid, NoRules
  <2> QED
    BY <1>3, <1>5, <2>1 DEF Admit
<1>6. ASSUME NEW r \in Rules, Watch(i, r) PROVE Ordered'
  BY <1>6, Untouched DEF Watch
<1> QED
  BY <1>1, <1>2, <1>4, <1>5, <1>6

-----------------------------------------------------------------------------
(* Repairs                                                                  *)

\* Asking makes rules that are asked for have an action, and no others.
LEMMA AskEnabled ==
  ASSUME TypeOK, WorkEnabled, NEW i \in Ids, NEW R \in SUBSET EnabledIn(i),
         work' = Ask(i, R), UNCHANGED defs
  PROVE  WorkEnabled'
<1> SUFFICES ASSUME NEW j \in Ids, NEW r \in Rules, work'[j][r] # "no"
             PROVE  r \in EnabledIn(j)'
  BY DEF WorkEnabled
<1>1. work[j][r] # "no" \/ (j = i /\ r \in R)
  BY DEF TypeOK, Ask
<1> QED
  BY <1>1 DEF WorkEnabled, EnabledIn

\* What is admitted is enabled, and a runtime is only withdrawn when it is idle.
LEMMA NextWorkEnabled ==
  ASSUME IInv, WorkEnabled, [Next]_vars
  PROVE  WorkEnabled'
<1> USE DEF IInv, TypeOK, Ordered, hookVars, hassVars, runtimeVars, taskVars
<1>1. CASE UNCHANGED <<work, defs>>
  BY <1>1 DEF WorkEnabled, EnabledIn
<1>2. CASE Construct
  BY <1>2 DEF Construct, Garbage, Idle, WorkEnabled, EnabledIn
<1>3. CASE Started
  <2>1. PICK startup \in SUBSET EnabledIn(cur) : work' = Ask(cur, startup)
    BY <1>3 DEF Started
  <2>2. cur \in Ids /\ UNCHANGED defs
    BY <1>3 DEF Started, TaskKnown, Building
  <2> QED
    BY <2>1, <2>2, AskEnabled DEF IInv
<1>4. CASE Discard \/ Unloaded
  <2>1. cur \in Ids /\ close[cur] = "done"
    BY <1>4 DEF Discard, Unloaded, TaskKnown, TaskClosing, Building, Ending
  <2>2. work[cur] = Idle
    BY <2>1 DEF OnlyPublishedWorks
  <2>3. defs' = [defs EXCEPT ![cur] = NoRules] /\ UNCHANGED work
    BY <1>4 DEF Discard, Unloaded
  <2> QED
    BY <2>1, <2>2, <2>3 DEF WorkEnabled, EnabledIn, Idle
<1>5. CASE UnloadFails
  <2>1. cur \in Ids /\ UNCHANGED defs
    BY <1>5 DEF UnloadFails, TaskKnown
  <2>2. work' = work \/ work' = Ask(cur, EnabledIn(cur))
    BY <1>5 DEF UnloadFails
  <2>3. EnabledIn(cur) \in SUBSET EnabledIn(cur)
    OBVIOUS
  <2> QED
    BY <1>1, <2>1, <2>2, <2>3, AskEnabled DEF IInv
<1>6. ASSUME NEW i \in Ids, NEW r \in Rules, NEW w, SetWork(i, r, w),
             w = "no" \/ work[i][r] # "no" \/ Valid(i, r)
      PROVE  WorkEnabled'
  BY <1>6 DEF SetWork, WorkEnabled, EnabledIn, Valid, Matches
<1>7. ASSUME NEW i \in Ids, NEW r \in Rules, Work(i, r) \/ Admit(i, r)
      PROVE  WorkEnabled'
  BY <1>6, <1>7 DEF Work, Refuse, Begin, Finish, Admit, Admitted
<1>8. ASSUME NEW i \in Ids, Close(i) \/ Updated(i)
      PROVE  UNCHANGED <<work, defs>>
  BY <1>8 DEF Close, CloseWatcher, CloseDrained, CloseSaved, CloseStep, Updated
<1>9. ASSUME NEW i \in Ids, NEW r \in Rules, Watch(i, r)
      PROVE  UNCHANGED <<work, defs>>
  BY <1>9 DEF Watch
<1>10. CASE Requests \/ ReloadWanted
  <2>1. ASSUME NEW r \in Rules, FlowSaves(r) \/ Delete(r)
        PROVE  UNCHANGED <<work, defs>>
    BY <2>1 DEF FlowSaves, Delete, SaveRule
  <2>2. ASSUME Reload PROVE UNCHANGED <<work, defs>>
    BY <2>2 DEF Reload, CallUnload, CallSetup
  <2> QED
    BY <1>1, <1>10, <2>1, <2>2
    DEF Requests, SetUp, CallSetup, ReloadByUser, UnloadByUser, CallUnload,
        RemoveUnloaded, Stop, ReloadWanted
<1>11. CASE ConstructRefused \/ Loaded \/ Forwarded \/ SetupFails \/ CleanedUp
            \/ PlatformsUnloaded
  BY <1>1, <1>11
  DEF ConstructRefused, Loaded, Forwarded, SetupFails, CleanUp, CleanedUp,
      PlatformsUnloaded
<1>12. CASE UNCHANGED vars
  BY <1>1, <1>12 DEF vars
<1> QED
  BY <1>1, <1>2, <1>3, <1>4, <1>5, <1>7, <1>8, <1>9, <1>10, <1>11, <1>12
  DEF Next, Lifecycle

\* Steps that leave alone what the issues depend on preserve RepairsHeld.
LEMMA Unreported ==
  ASSUME RepairsHeld,
         UNCHANGED <<saved, defs, close, failing, published, ha, repairs>>,
         UNCHANGED <<step, cur>> \/ step' \notin {"load", "platforms", "start"}
  PROVE  RepairsHeld'
BY DEF RepairsHeld, DisabledHeld, Reportable, EnabledIn

\* A report of a rule of the published runtime.
LEMMA ReportHeld ==
  ASSUME TypeOK, TaskKnown, RepairsHeld,
         NEW i \in Ids, i = published, close[i] # "done",
         NEW r \in EnabledIn(i), NEW bad \in SUBSET Rules,
         failing' = [failing EXCEPT ![i] = bad],
         bad \ {r} = failing[i] \ {r},
         repairs' = Reported(i, {r}, bad),
         UNCHANGED <<saved, defs, close, published, ha, step, cur>>
  PROVE  RepairsHeld'
<1>1. /\ EnabledIn(i) \subseteq Reportable(i) /\ failing'[i] = bad
      /\ repairs' = (repairs \ {r}) \cup ({r} \cap bad)
  BY DEF Reportable, Reported, TypeOK
<1>2. EnabledIn(i)' = EnabledIn(i) /\ Reportable(i)' = Reportable(i)
  BY DEF EnabledIn, Reportable
<1>3. DisabledHeld'
  <2>1. step \in {"load", "platforms", "start"} => cur = i
    BY DEF TaskKnown, Building
  <2> QED
    BY <1>1, <1>2, <2>1 DEF DisabledHeld, RepairsHeld
<1> QED
  BY <1>1, <1>2, <1>3, NoneIsNoId DEF RepairsHeld

LEMMA SetupRepairs ==
  ASSUME IInv, RepairsHeld,
         Construct \/ ConstructRefused \/ Loaded \/ Forwarded \/ Started
  PROVE  RepairsHeld'
<1> USE NoneIsNoId
    DEF IInv, Ordered, TypeOK, PublishedOnly, TaskKnown, TaskClosing, Building,
        hookVars, hassVars, runtimeVars, taskVars
<1>1. CASE Construct
  BY <1>1 DEF Construct, RepairsHeld, DisabledHeld, Reportable, EnabledIn
<1>2. CASE ConstructRefused
  BY <1>2 DEF ConstructRefused, RepairsHeld, DisabledHeld
<1>3. CASE Loaded
  <2>1. PICK gates \in SUBSET Rules :
          /\ failing' = [failing EXCEPT ![cur] = Unfit(cur, gates)]
          /\ repairs' = Reported(cur, Unfit(cur, gates), Unfit(cur, gates))
    BY <1>3 DEF Loaded
  <2>2. /\ cur \in Ids /\ cur = published /\ step = "load"
        /\ ha = "setting_up" /\ step' = "platforms"
        /\ UNCHANGED <<saved, defs, close, published, ha, cur>>
    BY <1>3 DEF Loaded
  <2>3. Unfit(cur, gates) \subseteq Reportable(cur)
    BY DEF Unfit, Reportable, EnabledIn
  <2>4. repairs \subseteq EnabledIn(cur)
    BY <2>2 DEF RepairsHeld, DisabledHeld
  <2>5. EnabledIn(cur)' = EnabledIn(cur) /\ Reportable(cur)' = Reportable(cur)
    BY <2>2 DEF EnabledIn, Reportable
  <2>6. /\ failing'[cur] = Unfit(cur, gates)
        /\ repairs' = (repairs \ Unfit(cur, gates)) \cup Unfit(cur, gates)
    BY <2>1, <2>2, <2>3 DEF Reported
  <2>7. EnabledIn(cur) \subseteq Reportable(cur)
    BY DEF Reportable
  <2>8. DisabledHeld'
    BY <2>2, <2>4, <2>5, <2>6 DEF DisabledHeld
  <2> QED
    BY <2>2, <2>3, <2>4, <2>5, <2>6, <2>7, <2>8 DEF RepairsHeld
<1>4. CASE Forwarded
  BY <1>4 DEF Forwarded, RepairsHeld, DisabledHeld, Reportable, EnabledIn
<1>5. CASE Started
  <2>1. PICK lost \in SUBSET EnabledIn(cur) :
          /\ failing' = [failing EXCEPT ![cur] = @ \cup lost]
          /\ repairs' = Reported(cur, EnabledIn(cur), failing[cur] \cup lost)
    BY <1>5 DEF Started, Looked
  <2>2. /\ cur \in Ids /\ cur = published /\ close[cur] = "no"
        /\ step = "start" /\ step' = "idle"
        /\ ha = "setting_up" /\ ha' = "loaded"
        /\ UNCHANGED <<saved, defs, close, published>>
    BY <1>5 DEF Started
  <2>3. EnabledIn(cur) \subseteq Reportable(cur)
    BY DEF Reportable
  <2>4. /\ failing'[cur] = failing[cur] \cup lost
        /\ failing[cur] \subseteq Reportable(cur)
    BY <2>1, <2>2 DEF RepairsHeld
  <2>5. repairs' = failing'[cur]
    <3>1. repairs \ EnabledIn(cur) = failing[cur] \ EnabledIn(cur)
      BY <2>2 DEF RepairsHeld, DisabledHeld
    <3>2. repairs' = (repairs \ EnabledIn(cur))
                       \cup (EnabledIn(cur) \cap (failing[cur] \cup lost))
      BY <2>1, <2>3 DEF Reported
    <3> QED
      BY <2>1, <2>4, <3>1, <3>2
  <2>6. Reportable(published)' = Reportable(cur)
    BY <2>2 DEF EnabledIn, Reportable
  <2>7. failing'[published] \subseteq Reportable(cur)
    BY <2>1, <2>2, <2>3, <2>4
  <2> HIDE DEF IInv, Ordered, TypeOK, PublishedOnly, TaskKnown, TaskClosing
  <2> QED
    BY <2>2, <2>5, <2>6, <2>7 DEF RepairsHeld, DisabledHeld
<1> QED
  BY <1>1, <1>2, <1>3, <1>4, <1>5

LEMMA EndRepairs ==
  ASSUME IInv, RepairsHeld,
         \/ SetupFails \/ CleanedUp \/ Discard
         \/ PlatformsUnloaded \/ UnloadFails \/ Unloaded
  PROVE  RepairsHeld'
<1> USE NoneIsNoId
    DEF IInv, Ordered, TypeOK, PublishedOnly, TaskKnown, TaskClosing, Building,
        Ending, hookVars, hassVars, runtimeVars, taskVars
<1>1. CASE SetupFails
  <2>1. /\ cur \in Ids /\ cur = published /\ ha' = "setting_up"
        /\ close[cur] = "no" /\ close'[cur] = "watcher"
        /\ step' = "cleanup" /\ UNCHANGED <<saved, defs, published>>
    BY <1>1 DEF SetupFails, CleanUp, CloseCalled
  <2>2. /\ repairs' \subseteq repairs \cup EnabledIn(cur)
        /\ failing'[cur] \subseteq failing[cur] \cup EnabledIn(cur)
    <3>1. CASE UNCHANGED <<failing, repairs>>
      BY <3>1
    <3>2. ASSUME NEW R \in SUBSET EnabledIn(cur), Looked(R)
          PROVE  /\ repairs' \subseteq repairs \cup EnabledIn(cur)
                 /\ failing'[cur] \subseteq failing[cur] \cup EnabledIn(cur)
      BY <2>1, <3>2 DEF Looked, Reported
    <3> QED
      BY <1>1, <3>1, <3>2 DEF SetupFails
  <2>3. /\ EnabledIn(cur) \subseteq Reportable(cur)
        /\ Reportable(published)' = Reportable(cur)
    BY <2>1 DEF Reportable, EnabledIn
  <2>4. /\ failing[cur] \subseteq Reportable(cur)
        /\ repairs \subseteq Reportable(cur)
    BY <1>1, <2>1 DEF SetupFails, RepairsHeld
  <2> HIDE DEF IInv, Ordered, TypeOK, PublishedOnly, TaskKnown, TaskClosing
  <2> QED
    BY <2>1, <2>2, <2>3, <2>4 DEF RepairsHeld, DisabledHeld
<1>2. CASE CleanedUp
  BY <1>2, Unreported DEF CleanedUp
<1>3. CASE Discard
  BY <1>3 DEF Discard, RepairsHeld, DisabledHeld
<1>4. CASE PlatformsUnloaded
  BY <1>4 DEF PlatformsUnloaded, CloseCalled, RepairsHeld, DisabledHeld,
              Reportable, EnabledIn
<1>5. CASE UnloadFails
  BY <1>5 DEF UnloadFails, RepairsHeld, DisabledHeld, Reportable, EnabledIn
<1>6. CASE Unloaded
  BY <1>6 DEF Unloaded, Removed, RepairsHeld, DisabledHeld, Enabled
<1> QED
  BY <1>1, <1>2, <1>3, <1>4, <1>5, <1>6

LEMMA RequestRepairs ==
  ASSUME IInv, RepairsHeld, Requests \/ ReloadWanted,
         "cleared_unloaded" \notin Faults
  PROVE  RepairsHeld'
<1> USE NoneIsNoId
    DEF IInv, Ordered, TypeOK, PublishedOnly, TaskKnown, LoadedIsOpen,
        OnlyPublishedWorks, hookVars, hassVars, runtimeVars, taskVars
<1>1. ASSUME ha # "removed", step = "idle", published = None, CallSetup
      PROVE  RepairsHeld'
  BY <1>1 DEF CallSetup, RepairsHeld, DisabledHeld
<1>2. ASSUME NEW g, step = "idle", ha = "loaded", CallUnload(g)
      PROVE  RepairsHeld'
  BY <1>2 DEF CallUnload, RepairsHeld, DisabledHeld, Reportable, EnabledIn
<1>3. CASE SetUp
  BY <1>1, <1>3 DEF SetUp
<1>4. CASE Reload
  BY <1>1, <1>2, <1>4 DEF Reload
<1>5. CASE UnloadByUser("unload") \/ UnloadByUser("remove")
  BY <1>2, <1>5 DEF UnloadByUser
<1>6. CASE RemoveUnloaded
  BY <1>6 DEF RemoveUnloaded, Removed, RepairsHeld, DisabledHeld, Enabled
<1>7. CASE Stop
  BY <1>7 DEF Stop, CloseCalled, RepairsHeld, DisabledHeld, Reportable, EnabledIn
<1>8. ASSUME NEW r \in Rules, FlowSaves(r) \/ Delete(r)
      PROVE  RepairsHeld'
  <2>1. PICK d : SaveRule(r, d)
    BY <1>8 DEF FlowSaves, Delete
  <2> QED
    BY <2>1 DEF SaveRule, Timely, RepairsHeld, DisabledHeld, Reportable, EnabledIn
<1>9. CASE ReloadWanted
  BY <1>4, <1>9, Unreported DEF ReloadWanted
<1> QED
  BY <1>3, <1>4, <1>5, <1>6, <1>7, <1>8, <1>9 DEF Requests, ReloadByUser

LEMMA RuntimeRepairs ==
  ASSUME IInv, RepairsHeld, WorkEnabled, NEW i \in Ids,
         \/ Close(i) \/ Updated(i)
         \/ \E r \in Rules : Work(i, r) \/ Admit(i, r) \/ Watch(i, r)
  PROVE  RepairsHeld'
<1> USE DEF IInv, TypeOK, hookVars, hassVars, runtimeVars, taskVars
<1>1. CASE Close(i)
  <2> USE DEF CloseStep, RepairsHeld, DisabledHeld, Reportable, EnabledIn
  <2>1. CASE CloseWatcher(i)
    BY <2>1 DEF CloseWatcher
  <2>2. CASE CloseDrained(i)
    BY <2>2 DEF CloseDrained
  <2>3. CASE CloseSaved(i)
    <3> USE <2>3 DEF CloseSaved, Forgotten
    <3>1. CASE i = published
      <4>1. DisabledHeld'
        BY <3>1 DEF Ordered, TaskKnown, TaskClosing, Building
      <4>2. \A r \in repairs' : saved[r] \in Enabled \/ defs[i][r] = "absent"
        OBVIOUS
      <4>3. repairs \subseteq {r \in Rules : defs[i][r] # "absent"} \/ ha = "removed"
        BY <3>1 DEF Enabled, Unhashed
      <4>4. ha # "removed" => \A r \in repairs' : saved'[r] \in Enabled
        BY <4>2, <4>3
      <4>5. ha = "removed" /\ published = None => repairs' = {}
        BY DEF Ordered
      <4> HIDE DEF RepairsHeld
      <4> QED
        BY <3>1, <4>1, <4>4, <4>5 DEF RepairsHeld
    <3>2. CASE i # published
      <4>1. repairs' = repairs
        BY <3>2 DEF Ordered, PublishedOnly, NoRules
      <4>2. step \in Building => cur # i
        BY <3>2 DEF Ordered, TaskKnown
      <4> QED
        BY <3>2, <4>1, <4>2 DEF Building
    <3> QED
      BY <3>1, <3>2
  <2> QED
    BY <1>1, <2>1, <2>2, <2>3 DEF Close
<1>2. CASE Updated(i)
  BY <1>2, Unreported DEF Updated
<1>3. ASSUME NEW r \in Rules, Refuse(i, r) \/ Begin(i, r) \/ Admit(i, r)
      PROVE  RepairsHeld'
  BY <1>3, Unreported DEF Refuse, Begin, Admit, SetWork
<1>4. ASSUME NEW r \in Rules, Finish(i, r) PROVE RepairsHeld'
  <2>1. PICK bad \in {failing[i] \ {r}, failing[i] \cup {r}} :
          /\ failing' = [failing EXCEPT ![i] = bad]
          /\ repairs' = Reported(i, {r}, bad)
    BY <1>4 DEF Finish
  <2>2. work[i] # Idle
    BY <1>4 DEF Finish, Idle
  <2>3. i = published /\ close[i] # "done"
    BY <2>2 DEF Ordered, OnlyPublishedWorks
  <2>4. bad \in SUBSET Rules /\ bad \ {r} = failing[i] \ {r}
    OBVIOUS
  <2>5. UNCHANGED <<saved, defs, close, published, ha, step, cur>>
    BY <1>4 DEF Finish, SetWork
  <2>6. r \in EnabledIn(i)
    BY <1>4 DEF Finish, WorkEnabled
  <2> HIDE DEF TypeOK, IInv
  <2> QED
    BY <2>1, <2>3, <2>4, <2>5, <2>6, ReportHeld DEF IInv, Ordered
<1>5. ASSUME NEW r \in Rules, Watch(i, r) PROVE RepairsHeld'
  <2>1. PICK bad \in {failing[i], failing[i] \cup {r}} :
          /\ failing' = [failing EXCEPT ![i] = bad]
          /\ repairs' = Reported(i, {r}, bad)
    BY <1>5 DEF Watch
  <2>2. i = published /\ close[i] # "done"
    BY <1>5 DEF Watch, Ordered, OnlyPublishedWorks
  <2>3. bad \in SUBSET Rules /\ bad \ {r} = failing[i] \ {r}
    OBVIOUS
  <2>4. UNCHANGED <<saved, defs, close, published, ha, step, cur>>
    BY <1>5 DEF Watch
  <2>5. r \in EnabledIn(i)
    BY <1>5 DEF Watch
  <2> HIDE DEF TypeOK, IInv
  <2> QED
    BY <2>1, <2>2, <2>3, <2>4, <2>5, ReportHeld DEF IInv, Ordered
<1> QED
  BY <1>1, <1>2, <1>3, <1>4, <1>5 DEF Work

LEMMA NextRepairs ==
  ASSUME IInv, RepairsHeld, WorkEnabled, [Next]_vars,
         "cleared_unloaded" \notin Faults
  PROVE  RepairsHeld'
<1>1. CASE UNCHANGED vars
  BY <1>1, Unreported DEF vars, hookVars, hassVars, runtimeVars, taskVars
<1> QED
  BY <1>1, SetupRepairs, EndRepairs, RequestRepairs, RuntimeRepairs
  DEF Next, Lifecycle

-----------------------------------------------------------------------------
(* Theorems                                                                 *)

LEMMA InitInvariant == Init => IInv
<1> SUFFICES ASSUME Init PROVE IInv
  OBVIOUS
<1>1. TypeOK
  BY InitType
<1>2. Ordered
  BY NoneIsNoId
  DEF Init, Ordered, PublishedOnly, TaskKnown, TaskClosing, LoadedIsOpen,
      CloseInOrder, OpenAdmits, OnlyPublishedWorks, Building, Ending
<1> QED
  BY <1>1, <1>2 DEF IInv

LEMMA NextInvariant ==
  ASSUME IInv, [Next]_vars, "refused_at_stop" \notin Faults
  PROVE  IInv'
<1>1. TypeOK'
  BY TypeInvariant DEF IInv, Ordered
<1>2. Ordered'
  <2>1. CASE UNCHANGED vars
    BY <2>1, Untouched
    DEF IInv, vars, hookVars, hassVars, runtimeVars, taskVars
  <2> QED
    BY <2>1, SetupOrdered, EndOrdered, RequestOrdered, RuntimeOrdered
    DEF Next, Lifecycle
<1> QED
  BY <1>1, <1>2 DEF IInv

\* The inductive invariant holds in every behaviour without a failed unload
\* while Home Assistant stops.
THEOREM Invariance ==
  ASSUME "refused_at_stop" \notin Faults
  PROVE  Spec => []IInv
<1>1. IInv /\ [Next]_vars => IInv'
  BY NextInvariant
<1> QED
  BY <1>1, InitInvariant, PTL DEF Spec

\* Every variable keeps its type.
THEOREM TypeCorrect ==
  ASSUME "refused_at_stop" \notin Faults
  PROVE  Spec => []TypeOK
<1>1. IInv => TypeOK
  BY DEF IInv
<1> QED
  BY <1>1, Invariance, PTL

\* A runtime that is closed or no longer published has no watch and no action,
\* for any number of rules and runtimes: setups that fail, unloads, reloads and
\* a stop in between leave nothing behind (__init__.py:76-86, 101-126).
THEOREM NothingStranded ==
  ASSUME "refused_at_stop" \notin Faults
  PROVE  Spec => []OnlyPublishedWorks
<1>1. IInv => OnlyPublishedWorks
  BY DEF IInv, Ordered
<1> QED
  BY <1>1, Invariance, PTL

\* While an entry is loaded its issues are those of the rules whose problem
\* sensor is on, of rules that were never checked and cannot be watched, and of
\* disabled rules without a hash; while it is not they are of enabled rules, and
\* none outlives the entry, unless a rule is cleared with no runtime there to
\* notice it (repairs.py:23-32, coordinator.py:338-341, __init__.py:129).
THEOREM RepairsCorrect ==
  ASSUME {"refused_at_stop", "cleared_unloaded"} \cap Faults = {}
  PROVE  Spec => []RepairsBelong
<1>1. Init => RepairsHeld /\ WorkEnabled
  BY NoneIsNoId
  DEF Init, RepairsHeld, DisabledHeld, WorkEnabled, EnabledIn, Idle
<1>2. IInv /\ RepairsHeld /\ WorkEnabled /\ [Next]_vars
        => RepairsHeld' /\ WorkEnabled'
  BY NextRepairs, NextWorkEnabled
<1>3. IInv /\ RepairsHeld => RepairsBelong
  <2> SUFFICES ASSUME IInv, RepairsHeld PROVE RepairsBelong
    OBVIOUS
  <2>1. ASSUME ha = "loaded", Matches(published), close[published] = "no",
               NEW r \in Rules
        PROVE  /\ r \in repairs <=> \/ Sensor(published, r) = "on"
                                    \/ /\ Sensor(published, r) = "unknown"
                                       /\ r \in failing[published]
               /\ r \in repairs => saved[r] \in Enabled \cup Unhashed
    <3>1. /\ repairs = failing[published]
          /\ repairs \subseteq Reportable(published)
      BY <2>1 DEF IInv, Ordered, LoadedIsOpen, RepairsHeld
    <3>2. r \in failing[published] => Sensor(published, r) \in {"on", "unknown"}
      BY DEF Sensor
    <3>3. Sensor(published, r) = "on" => r \in failing[published]
      BY DEF Sensor
    <3> QED
      BY <2>1, <3>1, <3>2, <3>3 DEF Reportable, EnabledIn, Matches
  <2>2. ha \in {"not_loaded", "setup_error"}
          => \A r \in repairs : saved[r] \in Enabled
    BY NoneIsNoId DEF IInv, Ordered, OnlyPublishedWorks, RepairsHeld
  <2> QED
    BY <2>1, <2>2 DEF RepairsHeld, RepairsBelong
<1>4. Spec => []IInv
  BY Invariance
<1> QED
  BY <1>1, <1>2, <1>3, <1>4, PTL DEF Spec

=============================================================================
