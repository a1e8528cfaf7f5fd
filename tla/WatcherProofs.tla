--------------------------- MODULE WatcherProofs ---------------------------
(* Proofs about Watcher, for any rules, any number of events and any faults *)
(* of the environment: one timer or check per rule, and, unless an unload   *)
(* raises, no lost wake-up.                                                 *)
EXTENDS Watcher, TLAPS

-----------------------------------------------------------------------------
(* The inductive invariant                                                  *)

\* A timer, a running check and a note exclude each other and have an owner.
SoleOwner == pending \cap Running = {} /\ dirty \subseteq Running \cup Busy

\* The recorded identity and the kernel watch come and go together, and a
\* refresh that scheduled one has yet to publish it.
WatchArmed ==
  /\ watch = 0 <=> armed = 0
  /\ refresh.ok => refresh.at = "publish"
  /\ refresh.at = "publish" /\ ~refresh.ok => watch = 0

\* A directory put in place of another is a new one: the watch cannot be
\* attached to it already.
Numbered ==
  \A d \in {place, armed} :
    Real(d) => d <= MaxEvents - left \/ (left = MaxEvents /\ d = 1 /\ place = 1)

\* Before the first watch only rules with a check at startup wait for one.
StartupNoticed == life = "starting" => stale \subseteq Startup

IInv == TypeOK /\ SoleOwner /\ WatchArmed /\ Numbered /\ StartupNoticed

-----------------------------------------------------------------------------
LEMMA InitIInv == Init => IInv
<1> SUFFICES ASSUME Init PROVE IInv
  OBVIOUS
<1> USE WatcherAssumption DEF Init, NoRefresh
<1>1. TypeOK
  <2>1. check \in [Rules -> Stages] /\ other \in [Rules -> Stages]
    BY DEF Stages
  <2>2. {place, armed, watch} \subseteq Places /\ life \in Lives
    BY DEF Lives, Places, Linked
  <2>3. refresh \in [at : {"idle", "identified", "denied", "publish"}, id : Places,
                     ok : BOOLEAN]
    BY DEF Places, Linked
  <2>4. {events, pending, dirty, asked, suppress, auto, needs, stale} \subseteq SUBSET Rules
    OBVIOUS
  <2>5. left \in 0..MaxEvents
    OBVIOUS
  <2>6. available \in BOOLEAN
    OBVIOUS
  <2> QED
    BY <2>1, <2>2, <2>3, <2>4, <2>5, <2>6 DEF TypeOK
<1>2. SoleOwner /\ WatchArmed
  BY DEF SoleOwner, WatchArmed
<1>3. Numbered /\ StartupNoticed
  BY DEF Numbered, StartupNoticed, Real
<1> QED
  BY <1>1, <1>2, <1>3 DEF IInv

LEMMA InitWakeup == Init => NoLostWakeup
BY DEF Init, NoLostWakeup, Due

\* A file event, and the end of its delay.
LEMMA DebounceStep ==
  ASSUME IInv, NEW p \in Rules, HandleEvent(p) \/ Fire(p)
  PROVE  IInv' /\ (NoLostWakeup => NoLostWakeup')
<1> USE WatcherAssumption DEF IInv, dirVars, rootVars, bounces, taskVars, ruleVars,
             fileVars
<1>1. CASE HandleEvent(p)
  <2>1. TypeOK'
    BY <1>1 DEF HandleEvent, Debounce, TypeOK, Lives, Stages, Places, Linked,
       Running, Busy
  <2>2. SoleOwner'
    BY <1>1 DEF HandleEvent, Debounce, TypeOK, SoleOwner, Running, Busy,
       Holding
  <2>3. NoLostWakeup => NoLostWakeup'
    BY <1>1 DEF HandleEvent, Debounce, TypeOK, SoleOwner, Running, Busy,
       Holding, WatchArmed, Numbered, StartupNoticed, NoLostWakeup, Due,
       Underway, Real, Places, Linked
  <2>4. WatchArmed' /\ Numbered' /\ StartupNoticed'
    BY <1>1 DEF HandleEvent, Debounce, WatchArmed, Numbered, Real, Places,
       Linked, StartupNoticed
  <2> QED
    BY <2>1, <2>2, <2>3, <2>4
<1>2. CASE Fire(p)
  <2>1. TypeOK'
    BY <1>2 DEF Fire, TypeOK, Lives, Stages, Places, Linked
  <2>2. SoleOwner'
    BY <1>2 DEF Fire, TypeOK, SoleOwner, Running, Busy, Holding
  <2>3. NoLostWakeup => NoLostWakeup'
    BY <1>2 DEF Fire, TypeOK, SoleOwner, Running, Busy, Holding, WatchArmed,
       Numbered, StartupNoticed, NoLostWakeup, Due, Underway, Real, Places,
       Linked
  <2>4. WatchArmed' /\ Numbered' /\ StartupNoticed'
    BY <1>2 DEF Fire, WatchArmed, Numbered, Real, Places, Linked,
       StartupNoticed
  <2> QED
    BY <2>1, <2>2, <2>3, <2>4
<1> QED
  BY <1>1, <1>2

\* The watcher's own check of a rule.
LEMMA CheckStep ==
  ASSUME IInv, NEW p \in Rules, CheckAdmitted(p) \/ CheckBegins(p) \/
     CheckReads(p) \/ CheckLeaves(p) \/ CheckEnds(p)
  PROVE  IInv' /\ (NoLostWakeup => NoLostWakeup')
<1> USE WatcherAssumption DEF IInv, dirVars, rootVars, bounces, taskVars, ruleVars,
             fileVars
<1>1. CASE CheckAdmitted(p)
  <2>1. TypeOK'
    BY <1>1 DEF CheckAdmitted, TypeOK, Lives, Stages, Places, Linked
  <2>2. SoleOwner'
    BY <1>1 DEF CheckAdmitted, TypeOK, SoleOwner, Running, Busy, Holding
  <2>3. NoLostWakeup => NoLostWakeup'
    BY <1>1 DEF CheckAdmitted, TypeOK, SoleOwner, Running, Busy, Holding,
       WatchArmed, Numbered, StartupNoticed, NoLostWakeup, Due, Underway,
       Real, Places, Linked
  <2>4. WatchArmed' /\ Numbered' /\ StartupNoticed'
    BY <1>1 DEF CheckAdmitted, WatchArmed, Numbered, Real, Places, Linked,
       StartupNoticed
  <2> QED
    BY <2>1, <2>2, <2>3, <2>4
<1>2. CASE CheckBegins(p)
  <2>1. TypeOK'
    BY <1>2 DEF CheckBegins, TypeOK, Lives, Stages, Places, Linked
  <2>2. SoleOwner'
    BY <1>2 DEF CheckBegins, TypeOK, SoleOwner, Running, Busy, Holding
  <2>3. NoLostWakeup => NoLostWakeup'
    BY <1>2 DEF CheckBegins, TypeOK, SoleOwner, Running, Busy, Holding,
       WatchArmed, Numbered, StartupNoticed, NoLostWakeup, Due, Underway,
       Real, Places, Linked
  <2>4. WatchArmed' /\ Numbered' /\ StartupNoticed'
    BY <1>2 DEF CheckBegins, WatchArmed, Numbered, Real, Places, Linked,
       StartupNoticed
  <2> QED
    BY <2>1, <2>2, <2>3, <2>4
<1>3. CASE CheckReads(p)
  <2>1. TypeOK'
    BY <1>3 DEF CheckReads, Replaced, TypeOK, Lives, Stages, Places, Linked
  <2>2. SoleOwner'
    BY <1>3 DEF CheckReads, Replaced, TypeOK, SoleOwner, Running, Busy,
       Holding
  <2>3. StartupNoticed'
    BY <1>3 DEF CheckReads, Replaced, TypeOK, StartupNoticed
  <2>4. NoLostWakeup => NoLostWakeup'
    BY <1>3 DEF CheckReads, Replaced, TypeOK, SoleOwner, Running, Busy,
       Holding, WatchArmed, Numbered, StartupNoticed, NoLostWakeup, Due,
       Underway, Real, Places, Linked
  <2>5. WatchArmed' /\ Numbered'
    BY <1>3 DEF CheckReads, Replaced, WatchArmed, Numbered, Real, Places,
       Linked
  <2> QED
    BY <2>1, <2>2, <2>3, <2>4, <2>5
<1>4. CASE CheckLeaves(p)
  <2>1. TypeOK'
    BY <1>4 DEF CheckLeaves, TypeOK, Lives, Stages, Places, Linked
  <2>2. SoleOwner'
    BY <1>4 DEF CheckLeaves, TypeOK, SoleOwner, Running, Busy, Holding
  <2>3. NoLostWakeup => NoLostWakeup'
    BY <1>4 DEF CheckLeaves, TypeOK, SoleOwner, Running, Busy, Holding,
       WatchArmed, Numbered, StartupNoticed, NoLostWakeup, Due, Underway,
       Real, Places, Linked
  <2>4. WatchArmed' /\ Numbered' /\ StartupNoticed'
    BY <1>4 DEF CheckLeaves, WatchArmed, Numbered, Real, Places, Linked,
       StartupNoticed
  <2> QED
    BY <2>1, <2>2, <2>3, <2>4
<1>5. CASE CheckEnds(p)
  <2>1. TypeOK'
    BY <1>5 DEF CheckEnds, Completed, TypeOK, Lives, Stages, Places, Linked,
       Running, Busy
  <2>2. SoleOwner'
    BY <1>5 DEF CheckEnds, Completed, TypeOK, SoleOwner, Running, Busy,
       Holding
  <2>3. NoLostWakeup => NoLostWakeup'
    BY <1>5 DEF CheckEnds, Completed, TypeOK, SoleOwner, Running, Busy,
       Holding, WatchArmed, Numbered, StartupNoticed, NoLostWakeup, Due,
       Underway, Real, Places, Linked
  <2>4. WatchArmed' /\ Numbered' /\ StartupNoticed'
    BY <1>5 DEF CheckEnds, Completed, WatchArmed, Numbered, Real, Places,
       Linked, StartupNoticed
  <2> QED
    BY <2>1, <2>2, <2>3, <2>4
<1> QED
  BY <1>1, <1>2, <1>3, <1>4, <1>5

\* An action somebody else asked for.
LEMMA OtherStep ==
  ASSUME IInv, NEW p \in Rules, OtherAdmitted(p) \/ OtherBegins(p) \/
     OtherReads(p) \/ OtherLeaves(p)
  PROVE  IInv' /\ (NoLostWakeup => NoLostWakeup')
<1> USE WatcherAssumption DEF IInv, dirVars, rootVars, bounces, taskVars, ruleVars,
             fileVars
<1>1. CASE OtherAdmitted(p)
  <2>1. TypeOK'
    BY <1>1 DEF OtherAdmitted, TypeOK, Lives, Stages, Places, Linked
  <2>2. SoleOwner'
    BY <1>1 DEF OtherAdmitted, TypeOK, SoleOwner, Running, Busy, Holding
  <2>3. NoLostWakeup => NoLostWakeup'
    BY <1>1 DEF OtherAdmitted, TypeOK, SoleOwner, Running, Busy, Holding,
       WatchArmed, Numbered, StartupNoticed, NoLostWakeup, Due, Underway,
       Real, Places, Linked
  <2>4. WatchArmed' /\ Numbered' /\ StartupNoticed'
    BY <1>1 DEF OtherAdmitted, WatchArmed, Numbered, Real, Places, Linked,
       StartupNoticed
  <2> QED
    BY <2>1, <2>2, <2>3, <2>4
<1>2. CASE OtherBegins(p)
  <2>1. TypeOK'
    BY <1>2 DEF OtherBegins, TypeOK, Lives, Stages, Places, Linked
  <2>2. SoleOwner'
    BY <1>2 DEF OtherBegins, TypeOK, SoleOwner, Running, Busy, Holding
  <2>3. NoLostWakeup => NoLostWakeup'
    BY <1>2 DEF OtherBegins, TypeOK, SoleOwner, Running, Busy, Holding,
       WatchArmed, Numbered, StartupNoticed, NoLostWakeup, Due, Underway,
       Real, Places, Linked
  <2>4. WatchArmed' /\ Numbered' /\ StartupNoticed'
    BY <1>2 DEF OtherBegins, WatchArmed, Numbered, Real, Places, Linked,
       StartupNoticed
  <2> QED
    BY <2>1, <2>2, <2>3, <2>4
<1>3. CASE OtherReads(p)
  <2>1. TypeOK'
    BY <1>3 DEF OtherReads, Replaced, TypeOK, Lives, Stages, Places, Linked
  <2>2. SoleOwner'
    BY <1>3 DEF OtherReads, Replaced, TypeOK, SoleOwner, Running, Busy,
       Holding
  <2>3. StartupNoticed'
    BY <1>3 DEF OtherReads, Replaced, TypeOK, StartupNoticed
  <2>4. NoLostWakeup => NoLostWakeup'
    BY <1>3 DEF OtherReads, Replaced, TypeOK, SoleOwner, Running, Busy,
       Holding, WatchArmed, Numbered, StartupNoticed, NoLostWakeup, Due,
       Underway, Real, Places, Linked
  <2>5. WatchArmed' /\ Numbered'
    BY <1>3 DEF OtherReads, Replaced, WatchArmed, Numbered, Real, Places,
       Linked
  <2> QED
    BY <2>1, <2>2, <2>3, <2>4, <2>5
<1>4. CASE OtherLeaves(p)
  <2>1. TypeOK'
    BY <1>4 DEF OtherLeaves, Completed, TypeOK, Lives, Stages, Places, Linked,
       Running, Busy
  <2>2. SoleOwner'
    BY <1>4 DEF OtherLeaves, Completed, TypeOK, SoleOwner, Running, Busy,
       Holding
  <2>3. NoLostWakeup => NoLostWakeup'
    BY <1>4 DEF OtherLeaves, Completed, TypeOK, SoleOwner, Running, Busy,
       Holding, WatchArmed, Numbered, StartupNoticed, NoLostWakeup, Due,
       Underway, Real, Places, Linked
  <2>4. WatchArmed' /\ Numbered' /\ StartupNoticed'
    BY <1>4 DEF OtherLeaves, Completed, WatchArmed, Numbered, Real, Places,
       Linked, StartupNoticed
  <2> QED
    BY <2>1, <2>2, <2>3, <2>4
<1> QED
  BY <1>1, <1>2, <1>3, <1>4

\* The refresh of the directory.
LEMMA RefreshStep ==
  ASSUME IInv, RefreshBegins \/ RefreshUnschedules \/ RefreshSchedules \/
     RefreshPublishes
  PROVE  IInv' /\ (NoLostWakeup => NoLostWakeup')
<1> USE WatcherAssumption DEF IInv, dirVars, rootVars, bounces, taskVars, ruleVars,
             fileVars
<1>1. CASE RefreshBegins
  <2>1. TypeOK'
    BY <1>1 DEF RefreshBegins, Identity, TypeOK, Lives, Stages, Places, Linked
  <2>2. WatchArmed'
    BY <1>1 DEF RefreshBegins, Identity, TypeOK, WatchArmed
  <2>3. NoLostWakeup => NoLostWakeup'
    BY <1>1 DEF RefreshBegins, Identity, TypeOK, SoleOwner, Running, Busy,
       Holding, WatchArmed, Numbered, StartupNoticed, NoLostWakeup, Due,
       Underway, Real, Places, Linked
  <2>4. SoleOwner' /\ Numbered' /\ StartupNoticed'
    BY <1>1 DEF RefreshBegins, Identity, SoleOwner, Running, Busy, Holding,
       Numbered, Real, Places, Linked, StartupNoticed
  <2> QED
    BY <2>1, <2>2, <2>3, <2>4
<1>2. CASE RefreshUnschedules
  <2>1. TypeOK'
    BY <1>2 DEF RefreshUnschedules, TypeOK, Lives, Stages, Places, Linked
  <2>2. WatchArmed'
    BY <1>2 DEF RefreshUnschedules, TypeOK, WatchArmed
  <2>3. Numbered'
    BY <1>2 DEF RefreshUnschedules, TypeOK, Numbered, Real, Places, Linked
  <2>4. NoLostWakeup => NoLostWakeup'
    BY <1>2 DEF RefreshUnschedules, TypeOK, SoleOwner, Running, Busy, Holding,
       WatchArmed, Numbered, StartupNoticed, NoLostWakeup, Due, Underway,
       Real, Places, Linked
  <2>5. SoleOwner' /\ StartupNoticed'
    BY <1>2 DEF RefreshUnschedules, SoleOwner, Running, Busy, Holding,
       StartupNoticed
  <2> QED
    BY <2>1, <2>2, <2>3, <2>4, <2>5
<1>3. CASE RefreshSchedules
  <2>1. TypeOK'
    BY <1>3 DEF RefreshSchedules, TypeOK, Lives, Stages, Places, Linked
  <2>2. ASSUME place # 0, armed' = place, watch' = refresh.id,
              refresh' = [refresh EXCEPT !.at = "publish", !.ok = TRUE]
       PROVE  WatchArmed'
    <3>1. refresh' = [at |-> "publish", id |-> refresh.id, ok |-> TRUE]
      BY <2>2 DEF TypeOK
    <3>2. refresh'.at = "publish" /\ refresh'.ok = TRUE
      BY <3>1
    <3>3. armed' # 0 /\ watch' # 0
      BY <1>3, <2>2 DEF RefreshSchedules
    <3> QED
      BY <3>2, <3>3 DEF WatchArmed
  <2>3. ASSUME refresh' = [refresh EXCEPT !.at = "publish"],
              UNCHANGED <<armed, watch>>
       PROVE  WatchArmed'
    <3>1. refresh' = [at |-> "publish", id |-> refresh.id, ok |-> refresh.ok]
      BY <2>3 DEF TypeOK
    <3>2. refresh'.at = "publish" /\ refresh'.ok = refresh.ok
      BY <3>1
    <3> QED
      BY <1>3, <2>3, <3>2 DEF RefreshSchedules, WatchArmed
  <2>4. WatchArmed'
    BY <1>3, <2>2, <2>3 DEF RefreshSchedules
  <2>5. Numbered'
    BY <1>3 DEF RefreshSchedules, TypeOK, Numbered, Real, Places, Linked
  <2>6. NoLostWakeup => NoLostWakeup'
    BY <1>3 DEF RefreshSchedules, TypeOK, SoleOwner, Running, Busy, Holding,
       WatchArmed, Numbered, StartupNoticed, NoLostWakeup, Due, Underway,
       Real, Places, Linked
  <2>7. SoleOwner' /\ StartupNoticed'
    BY <1>3 DEF RefreshSchedules, SoleOwner, Running, Busy, Holding,
       StartupNoticed
  <2> QED
    BY <2>1, <2>4, <2>5, <2>6, <2>7
<1>4. CASE RefreshPublishes
  <2>1. TypeOK'
    BY <1>4 DEF RefreshPublishes, Debounce, NoRefresh, TypeOK, Lives, Stages,
       Places, Linked, Running, Busy
  <2>2. SoleOwner'
    BY <1>4 DEF RefreshPublishes, Debounce, NoRefresh, TypeOK, SoleOwner,
       Running, Busy, Holding
  <2>3. WatchArmed'
    BY <1>4 DEF RefreshPublishes, Debounce, NoRefresh, TypeOK, WatchArmed
  <2>4. StartupNoticed'
    BY <1>4 DEF RefreshPublishes, Debounce, NoRefresh, TypeOK, StartupNoticed
  <2>5. NoLostWakeup => NoLostWakeup'
    BY <1>4 DEF RefreshPublishes, Debounce, NoRefresh, TypeOK, SoleOwner,
       Running, Busy, Holding, WatchArmed, Numbered, StartupNoticed,
       NoLostWakeup, Due, Underway, Real, Places, Linked
  <2>6. Numbered'
    BY <1>4 DEF RefreshPublishes, Debounce, NoRefresh, Numbered, Real, Places,
       Linked
  <2> QED
    BY <2>1, <2>2, <2>3, <2>4, <2>5, <2>6
<1> QED
  BY <1>1, <1>2, <1>3, <1>4

\* Starting, unloading and closing.
LEMMA LifeStep ==
  ASSUME IInv, Start \/ Unload \/ UnloadRefused \/ Close \/ CloseDone
  PROVE  IInv' /\ ("unload_raises" \notin Faults /\ NoLostWakeup => NoLostWakeup')
<1> USE WatcherAssumption DEF IInv, dirVars, rootVars, bounces, taskVars, ruleVars,
             fileVars
<1>1. CASE Start
  <2>1. stale' \subseteq Rules /\ suppress' \subseteq Rules
    BY <1>1 DEF Start, TypeOK
  <2>2. {events, pending, dirty, asked, suppress, auto, needs, stale}' \subseteq SUBSET Rules
    BY <1>1, <2>1 DEF Start, TypeOK
  <2>3. available' \in BOOLEAN /\ life' \in Lives
    BY <1>1 DEF Start, Lives
  <2>4. TypeOK'
    BY <1>1, <2>2, <2>3 DEF Start, TypeOK
  <2>5. StartupNoticed'
    BY <1>1 DEF Start, TypeOK, StartupNoticed
  <2>6. NoLostWakeup => NoLostWakeup'
    BY <1>1 DEF Start, TypeOK, SoleOwner, Running, Busy, Holding, WatchArmed,
       Numbered, StartupNoticed, NoLostWakeup, Due, Underway, Real, Places,
       Linked
  <2>7. SoleOwner' /\ WatchArmed' /\ Numbered'
    BY <1>1 DEF Start, SoleOwner, Running, Busy, Holding, WatchArmed,
       Numbered, Real, Places, Linked
  <2> QED
    BY <2>4, <2>5, <2>6, <2>7
<1>2. CASE Unload
  <2>1. TypeOK'
    BY <1>2 DEF Unload, Spend, TypeOK, Lives, Stages, Places, Linked
  <2>2. Numbered'
    BY <1>2 DEF Unload, Spend, TypeOK, Numbered, Real, Places, Linked
  <2>3. StartupNoticed'
    BY <1>2 DEF Unload, Spend, TypeOK, StartupNoticed
  <2>4. NoLostWakeup => NoLostWakeup'
    BY <1>2 DEF Unload, Spend, TypeOK, SoleOwner, Running, Busy, Holding,
       WatchArmed, Numbered, StartupNoticed, NoLostWakeup, Due, Underway,
       Real, Places, Linked
  <2>5. SoleOwner' /\ WatchArmed'
    BY <1>2 DEF Unload, Spend, SoleOwner, Running, Busy, Holding, WatchArmed
  <2> QED
    BY <2>1, <2>2, <2>3, <2>4, <2>5
<1>3. CASE UnloadRefused
  <2>1. TypeOK'
    BY <1>3 DEF UnloadRefused, Scheduled, TypeOK, Lives, Stages, Places,
       Linked
  <2>2. StartupNoticed'
    BY <1>3 DEF UnloadRefused, Scheduled, TypeOK, StartupNoticed
  <2>3. "unload_raises" \notin Faults /\ NoLostWakeup => NoLostWakeup'
    BY <1>3 DEF UnloadRefused, Scheduled, TypeOK, SoleOwner, Running, Busy,
       Holding, WatchArmed, Numbered, StartupNoticed, NoLostWakeup, Due,
       Underway, Real, Places, Linked
  <2>4. SoleOwner' /\ WatchArmed' /\ Numbered'
    BY <1>3 DEF UnloadRefused, Scheduled, SoleOwner, Running, Busy, Holding,
       WatchArmed, Numbered, Real, Places, Linked
  <2> QED
    BY <2>1, <2>2, <2>3, <2>4
<1>4. CASE Close
  <2>1. TypeOK'
    BY <1>4 DEF Close, Spend, TypeOK, Lives, Stages, Places, Linked
  <2>2. SoleOwner'
    BY <1>4 DEF Close, Spend, TypeOK, SoleOwner, Running, Busy, Holding
  <2>3. Numbered'
    BY <1>4 DEF Close, Spend, TypeOK, Numbered, Real, Places, Linked
  <2>4. StartupNoticed'
    BY <1>4 DEF Close, Spend, TypeOK, StartupNoticed
  <2>5. NoLostWakeup => NoLostWakeup'
    BY <1>4 DEF Close, Spend, TypeOK, SoleOwner, Running, Busy, Holding,
       WatchArmed, Numbered, StartupNoticed, NoLostWakeup, Due, Underway,
       Real, Places, Linked
  <2>6. WatchArmed'
    BY <1>4 DEF Close, Spend, WatchArmed
  <2> QED
    BY <2>1, <2>2, <2>3, <2>4, <2>5, <2>6
<1>5. CASE CloseDone
  <2>1. TypeOK'
    BY <1>5 DEF CloseDone, TypeOK, Lives, Stages, Places, Linked
  <2>2. WatchArmed'
    BY <1>5 DEF CloseDone, TypeOK, WatchArmed
  <2>3. Numbered'
    BY <1>5 DEF CloseDone, TypeOK, Numbered, Real, Places, Linked
  <2>4. StartupNoticed'
    BY <1>5 DEF CloseDone, TypeOK, StartupNoticed
  <2>5. NoLostWakeup => NoLostWakeup'
    BY <1>5 DEF CloseDone, TypeOK, SoleOwner, Running, Busy, Holding,
       WatchArmed, Numbered, StartupNoticed, NoLostWakeup, Due, Underway,
       Real, Places, Linked
  <2>6. SoleOwner'
    BY <1>5 DEF CloseDone, SoleOwner, Running, Busy, Holding
  <2> QED
    BY <2>1, <2>2, <2>3, <2>4, <2>5, <2>6
<1> QED
  BY <1>1, <1>2, <1>3, <1>4, <1>5

\* What users and other programs do to a rule.
LEMMA SurroundingsStep ==
  ASSUME IInv, NEW p \in Rules, WriteTarget(p) \/ Ask(p)
  PROVE  IInv' /\ (NoLostWakeup => NoLostWakeup')
<1> USE WatcherAssumption DEF IInv, dirVars, rootVars, bounces, taskVars, ruleVars,
             fileVars
<1>1. CASE WriteTarget(p)
  <2>1. TypeOK'
    BY <1>1 DEF WriteTarget, Spend, Noticed, TypeOK, Lives, Stages, Places,
       Linked
  <2>2. Numbered'
    BY <1>1 DEF WriteTarget, Spend, Noticed, TypeOK, Numbered, Real, Places,
       Linked
  <2>3. StartupNoticed'
    BY <1>1 DEF WriteTarget, Spend, Noticed, TypeOK, StartupNoticed
  <2>4. NoLostWakeup => NoLostWakeup'
    BY <1>1 DEF WriteTarget, Spend, Noticed, TypeOK, SoleOwner, Running, Busy,
       Holding, WatchArmed, Numbered, StartupNoticed, NoLostWakeup, Due,
       Underway, Real, Places, Linked
  <2>5. SoleOwner' /\ WatchArmed'
    BY <1>1 DEF WriteTarget, Spend, Noticed, SoleOwner, Running, Busy,
       Holding, WatchArmed
  <2> QED
    BY <2>1, <2>2, <2>3, <2>4, <2>5
<1>2. CASE Ask(p)
  <2>1. TypeOK'
    BY <1>2 DEF Ask, Spend, TypeOK, Lives, Stages, Places, Linked
  <2>2. Numbered'
    BY <1>2 DEF Ask, Spend, TypeOK, Numbered, Real, Places, Linked
  <2>3. StartupNoticed'
    BY <1>2 DEF Ask, Spend, TypeOK, StartupNoticed
  <2>4. NoLostWakeup => NoLostWakeup'
    BY <1>2 DEF Ask, Spend, TypeOK, SoleOwner, Running, Busy, Holding,
       WatchArmed, Numbered, StartupNoticed, NoLostWakeup, Due, Underway,
       Real, Places, Linked
  <2>5. SoleOwner' /\ WatchArmed'
    BY <1>2 DEF Ask, Spend, SoleOwner, Running, Busy, Holding, WatchArmed
  <2> QED
    BY <2>1, <2>2, <2>3, <2>4, <2>5
<1> QED
  BY <1>1, <1>2

\* The directory is removed, replaced or moved away.
LEMMA ReplaceStep ==
  ASSUME IInv, ReplaceDirectory
  PROVE  IInv' /\ (NoLostWakeup => NoLostWakeup')
<1> USE WatcherAssumption DEF IInv, dirVars, rootVars, bounces, taskVars, ruleVars,
             fileVars
<1>1. CASE ReplaceDirectory
  <2>1. TypeOK'
    BY <1>1 DEF ReplaceDirectory, Spend, Noticed, TypeOK, Lives, Stages,
       Places, Linked
  <2>2. Numbered'
    BY <1>1 DEF ReplaceDirectory, Spend, Noticed, TypeOK, Numbered, Real,
       Places, Linked
  <2>3. StartupNoticed'
    BY <1>1 DEF ReplaceDirectory, Spend, Noticed, TypeOK, StartupNoticed
  <2>4. NoLostWakeup => NoLostWakeup'
    BY <1>1 DEF ReplaceDirectory, Spend, Noticed, TypeOK, SoleOwner, Running,
       Busy, Holding, WatchArmed, Numbered, StartupNoticed, NoLostWakeup, Due,
       Underway, Real, Places, Linked
  <2>5. SoleOwner' /\ WatchArmed'
    BY <1>1 DEF ReplaceDirectory, Spend, Noticed, SoleOwner, Running, Busy,
       Holding, WatchArmed
  <2> QED
    BY <2>1, <2>2, <2>3, <2>4, <2>5
<1> QED
  BY <1>1

LEMMA NextStep ==
  ASSUME IInv, [Next]_vars
  PROVE  IInv' /\ ("unload_raises" \notin Faults /\ NoLostWakeup => NoLostWakeup')
<1>1. CASE \E p \in Rules : HandleEvent(p) \/ Fire(p) \/ Checking(p) \/ Acting(p)
  BY <1>1, DebounceStep, CheckStep, OtherStep DEF Checking, Acting
<1>2. CASE Refreshing
  BY <1>2, RefreshStep DEF Refreshing
<1>3. CASE UnloadRefused \/ CloseDone \/ Start \/ Unload \/ Close
  BY <1>3, LifeStep
<1>4. CASE \E p \in Rules : WriteTarget(p) \/ Ask(p)
  BY <1>4, SurroundingsStep
<1>5. CASE ReplaceDirectory
  BY <1>5, ReplaceStep
<1>6. CASE UNCHANGED vars
  <2>1. TypeOK' /\ SoleOwner'
    BY <1>6 DEF vars, dirVars, rootVars, bounces, taskVars, ruleVars, fileVars,
       IInv, TypeOK, SoleOwner, Running, Busy
  <2>2. WatchArmed' /\ Numbered' /\ StartupNoticed'
    BY <1>6 DEF vars, dirVars, rootVars, ruleVars, fileVars, IInv, WatchArmed,
       Numbered, StartupNoticed
  <2>3. NoLostWakeup => NoLostWakeup'
    BY <1>6 DEF vars, dirVars, rootVars, bounces, taskVars, ruleVars, fileVars,
       NoLostWakeup, Due, Underway
  <2> QED
    BY <2>1, <2>2, <2>3 DEF IInv
<1> QED
  BY <1>1, <1>2, <1>3, <1>4, <1>5, <1>6 DEF Next, Environment

-----------------------------------------------------------------------------
(* The theorems                                                             *)

\* The inductive invariant holds in every state the watcher reaches.
THEOREM Invariance == Spec => []IInv
<1>1. Init => IInv
  BY InitIInv
<1>2. IInv /\ [Next]_vars => IInv'
  BY NextStep
<1> QED
  BY <1>1, <1>2, PTL DEF Spec

\* Whatever events, refreshes, refused unloads and restarts a watcher meets, a
\* rule has one debounce timer or one check and never both, and a change noted
\* while the rule was busy is left with a check or an action that will look at
\* it (_debounce, _fire, _check and action_complete).
THEOREM OwnedOnce == Spec => []OneOwner
<1>1. IInv => OneOwner
  BY DEF IInv, SoleOwner, OneOwner
<1> QED
  BY <1>1, Invariance, PTL

\* Unless an unload raises, no change of a watched target is lost: until a check
\* or another action reads the target, one of them is underway.
THEOREM ChangesHeard ==
  ASSUME "unload_raises" \notin Faults
  PROVE  Spec => []NoLostWakeup
<1>1. Init => NoLostWakeup
  BY InitWakeup
<1>2. IInv /\ NoLostWakeup /\ [Next]_vars => NoLostWakeup'
  BY NextStep
<1> QED
  BY <1>1, <1>2, Invariance, PTL DEF Spec
=========================================================================
