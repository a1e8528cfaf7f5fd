------------------------------ MODULE Watcher ------------------------------
(***************************************************************************)
(* PatchWatcher (watcher.py): one watched directory, the rules whose       *)
(* targets are below it, the debounce that turns file events into checks,  *)
(* and the refresh that follows the directory when it is removed, replaced *)
(* or denied.  The runtime's actions (coordinator.py) appear as far as the *)
(* watcher depends on them: the one operation lock, _busy, the call of     *)
(* action_complete, suspended rules, closing and the checks it schedules.  *)
(*                                                                         *)
(* One TLA+ action is what runs between two awaits, in the event loop or   *)
(* as one executor job.  Directories are numbered in the order they appear *)
(* under the watched path, 0 stands for none and Linked for a symbolic     *)
(* link, which path policy denies.  What users and other programs do costs *)
(* one of MaxEvents: a debounce only ends when the target is left alone.   *)
(***************************************************************************)
EXTENDS Naturals, FiniteSets

CONSTANTS Rules,      \* enabled rules that share the watched directory
          Startup,    \* those with reconcile_on_startup
          MaxEvents,  \* bound on the events of a behaviour
          Faults      \* which of FaultKinds this environment exhibits

FaultKinds == {"schedule_fails", "unload_raises", "inode_reuse"}

ASSUME WatcherAssumption ==
  /\ IsFiniteSet(Rules) /\ Startup \subseteq Rules
  /\ MaxEvents \in Nat
  /\ Faults \subseteq FaultKinds

Linked == MaxEvents + 2
Places == 0..Linked
Real(d) == d \notin {0, Linked}
Lives  == {"down", "starting", "up", "closing", "closed"}
Stages == {"none", "task", "queued", "working", "read", "reverted", "ended"}

VARIABLES
  life,       \* of the runtime and its watcher
  place,      \* the directory under the watched path
  armed,      \* the directory the observer's kernel watch is attached to
  watch,      \* self._watches[root]: the recorded identity
  refresh,    \* the holder of _refresh_lock
  events,     \* rules whose target event is on its way to the loop
  available,  \* states[...].watcher_available
  pending,    \* self._pending: rules whose debounce timer runs
  dirty,      \* self._dirty
  check,      \* self._running and where its action is
  asked,      \* rules for which the runtime or a user asks for an action
  other,      \* where that action is
  suppress,   \* runtime._suppress_reapply
  auto,       \* rules that are to be applied automatically
  needs,      \* ghost: the content is one the rule applies to
  stale,      \* ghost: changed since an action last read it
  left        \* remaining events

dirVars  == <<place, armed>>
rootVars == <<watch, refresh, available>>
bounces  == <<pending, dirty>>
taskVars == <<check, asked, other>>
ruleVars == <<suppress, auto>>
fileVars == <<events, needs, stale>>
vars == <<life, dirVars, rootVars, bounces, taskVars, ruleVars, fileVars, left>>

NoRefresh == [at |-> "idle", id |-> 0, ok |-> FALSE]

Running == {p \in Rules : check[p] # "none"}
Holding == {"working", "read", "reverted"}
Busy    == {p \in Rules : check[p] \in Holding \/ other[p] \in Holding}

Init ==
  /\ life = "down"
  /\ place \in {0, 1}
  /\ armed = 0 /\ watch = 0 /\ refresh = NoRefresh
  /\ events = {} /\ available = FALSE
  /\ pending = {} /\ dirty = {}
  /\ check = [p \in Rules |-> "none"]
  /\ asked = {} /\ other = [p \in Rules |-> "none"]
  /\ suppress = {} /\ auto = Rules
  /\ needs \in SUBSET Rules /\ stale = {}
  /\ left = MaxEvents

Spend == left > 0 /\ left' = left - 1

-----------------------------------------------------------------------------
(* Debounce                                                                 *)

DebounceUnguarded(S, occupied) ==
  /\ pending' = pending \cup (IF life = "closed" THEN {} ELSE S \ suppress)
  /\ dirty' = dirty
DebounceDeaf(S, occupied) ==
  /\ pending' = pending \cup (IF life = "closed" THEN {} ELSE S \ (suppress \cup occupied))
  /\ dirty' = dirty
\* _debounce for the rules of S, while those of occupied run or are busy.
Debounce(S, occupied) ==
  LET heard == IF life = "closed" THEN {} ELSE S \ suppress IN
  /\ pending' = (pending \ (heard \cap occupied)) \cup (heard \ occupied)
  /\ dirty' = dirty \cup (heard \cap occupied)

\* action_complete, when no watched check of p runs: what was noted while p was
\* busy starts a new delay.
CompletedKept(p, occupied) ==
  IF p \in dirty \ occupied
    THEN pending' = pending \cup ({p} \ suppress) /\ dirty' = dirty
    ELSE UNCHANGED bounces
Completed(p, occupied) ==
  IF p \in dirty \ occupied
    THEN /\ dirty' = dirty \ {p}
         /\ pending' = IF life = "closed" THEN pending ELSE pending \cup ({p} \ suppress)
    ELSE UNCHANGED bounces

\* handle_event for a target, on the loop.
HandleEvent(p) ==
  /\ p \in events
  /\ events' = events \ {p}
  /\ IF life \in {"starting", "up"}
       THEN Debounce({p}, Running \cup Busy)
       ELSE UNCHANGED bounces
  /\ UNCHANGED <<life, dirVars, rootVars, taskVars, ruleVars, needs, stale, left>>

\* The delay is over.
Fire(p) ==
  /\ p \in pending
  /\ pending' = pending \ {p}
  /\ IF life # "closing" /\ p \in Busy
       THEN dirty' = dirty \cup {p} ELSE dirty' = dirty
  /\ IF life # "closing" /\ p \notin Busy
       THEN check' = [check EXCEPT ![p] = "task"] ELSE check' = check
  /\ UNCHANGED <<life, dirVars, rootVars, asked, other, ruleVars, fileVars, left>>

-----------------------------------------------------------------------------
(* Actions: the watcher's own check and one asked for by somebody else      *)

\* async_action admits, or refuses while closing or suspended.
CheckAdmitted(p) ==
  /\ check[p] = "task"
  /\ check' = [check EXCEPT ![p] =
                 IF life \in {"starting", "up"} /\ p \notin suppress
                   THEN "queued" ELSE "ended"]
  /\ UNCHANGED <<life, dirVars, rootVars, bounces, asked, other, ruleVars, fileVars, left>>

OtherAdmitted(p) ==
  /\ p \in asked /\ other[p] = "none"
  /\ asked' = asked \ {p}
  /\ other' = [other EXCEPT ![p] =
                 IF life \in {"starting", "up"} THEN "queued" ELSE "none"]
  /\ UNCHANGED <<life, dirVars, rootVars, bounces, check, ruleVars, fileVars, left>>

\* The operation lock, and _busy.
CheckBegins(p) ==
  /\ check[p] = "queued" /\ Busy = {}
  /\ check' = [check EXCEPT ![p] = "working"]
  /\ UNCHANGED <<life, dirVars, rootVars, bounces, asked, other, ruleVars, fileVars, left>>

OtherBegins(p) ==
  /\ other[p] = "queued" /\ Busy = {}
  /\ other' = [other EXCEPT ![p] = "working"]
  /\ UNCHANGED <<life, dirVars, rootVars, bounces, check, asked, ruleVars, fileVars, left>>

\* The transaction reads the target and may replace it, which the watch sees.
Replaced(p, needed) ==
  /\ needs' = IF needed THEN needs \cup {p} ELSE needs \ {p}
  /\ events' = IF armed = place THEN events \cup {p} ELSE events

CheckReads(p) ==
  /\ check[p] = "working"
  /\ check' = [check EXCEPT ![p] = "read"]
  /\ stale' = IF Real(place) THEN stale \ {p} ELSE stale
  /\ IF p \in needs \cap auto /\ Real(place)
       THEN Replaced(p, FALSE)
       ELSE UNCHANGED <<needs, events>>
  /\ UNCHANGED <<life, dirVars, rootVars, bounces, asked, other, ruleVars, left>>

OtherReads(p) ==
  /\ other[p] = "working"
  /\ stale' = IF Real(place) THEN stale \ {p} ELSE stale
  /\ \/ other' = [other EXCEPT ![p] = "read"] /\ UNCHANGED <<needs, events>>
     \/ /\ p \in needs /\ Real(place)           \* Apply
        /\ other' = [other EXCEPT ![p] = "read"]
        /\ Replaced(p, FALSE)
     \/ /\ p \notin needs /\ Real(place)        \* Revert
        /\ other' = [other EXCEPT ![p] = "reverted"]
        /\ Replaced(p, TRUE)
  /\ UNCHANGED <<life, dirVars, rootVars, bounces, check, asked, ruleVars, left>>

\* _execute_action's finally clause.  A Revert has turned automatic application
\* off or, when that could not be saved, suspended the rule.
CheckLeaves(p) ==
  /\ check[p] = "read"
  /\ check' = [check EXCEPT ![p] = "ended"]
  /\ UNCHANGED <<life, dirVars, rootVars, bounces, asked, other, ruleVars, fileVars, left>>

OtherLeaves(p) ==
  /\ other[p] \in {"read", "reverted"}
  /\ other' = [other EXCEPT ![p] = "none"]
  /\ IF other[p] = "read"
       THEN UNCHANGED ruleVars
       ELSE \/ auto' = auto \ {p} /\ suppress' = suppress \ {p}
            \/ auto' = auto /\ suppress' = suppress \cup {p}
  /\ Completed(p, Running)
  /\ UNCHANGED <<life, dirVars, rootVars, check, asked, fileVars, left>>

\* _check's finally clause.
CheckEnds(p) ==
  /\ check[p] = "ended"
  /\ check' = [check EXCEPT ![p] = "none"]
  /\ Completed(p, Running \ {p})
  /\ UNCHANGED <<life, dirVars, rootVars, asked, other, ruleVars, fileVars, left>>

-----------------------------------------------------------------------------
(* async_refresh of the directory                                           *)

\* What _root_identity sees; inode numbers of removed directories are reused.
Identity(d) == IF Real(d) /\ "inode_reuse" \in Faults THEN 1 ELSE d

\* The refresh at the start, one asked for by a directory event or by an action,
\* or the 60 s interval.  One that finds what is recorded, or still nothing to
\* watch, changes nothing and is left out.
UnchangedOnceSeen(id) == watch # 0
Unchanged(id) == watch # 0 /\ id = watch
RefreshBegins ==
  /\ refresh.at = "idle"
  /\ life \in {"starting", "up", "closing"}
  /\ life # "starting" => ~Unchanged(Identity(place)) /\ (watch # 0 \/ available \/ Real(place))
  /\ refresh' = [at |-> IF place = Linked THEN "denied" ELSE "identified",
                  id |-> Identity(place), ok |-> FALSE]
  /\ UNCHANGED <<life, dirVars, watch, available, bounces, taskVars, ruleVars, fileVars, left>>

RefreshUnschedules ==
  /\ refresh.at \in {"identified", "denied"} /\ watch # 0
  /\ armed' = 0 /\ watch' = 0
  /\ UNCHANGED <<life, place, refresh, available, bounces, taskVars,
                 ruleVars, fileVars, left>>

\* observer.schedule attaches to whatever directory is there by now.
RefreshSchedules ==
  /\ refresh.at = "identified" /\ watch = 0 /\ refresh.id # 0
  /\ \/ /\ place # 0
        /\ armed' = place /\ watch' = refresh.id
        /\ refresh' = [refresh EXCEPT !.at = "publish", !.ok = TRUE]
     \/ /\ place = 0 \/ "schedule_fails" \in Faults
        /\ refresh' = [refresh EXCEPT !.at = "publish"]
        /\ UNCHANGED <<armed, watch>>
  /\ UNCHANGED <<life, place, available, bounces, taskVars, ruleVars,
                 fileVars, left>>

\* _publish_root; the refresh at the start does not reconcile, async_start does,
\* for the rules that ask for it.
RefreshPublishes ==
  /\ \/ refresh.at = "publish"
     \/ refresh.at = "identified" /\ watch = 0 /\ refresh.id = 0
     \/ refresh.at = "denied" /\ watch = 0
  /\ available' = refresh.ok
  /\ refresh' = NoRefresh
  /\ IF life = "starting"
       THEN life' = "up" /\ asked' = asked \cup Startup /\ UNCHANGED bounces
       ELSE /\ UNCHANGED <<life, asked>>
            /\ IF refresh.ok THEN Debounce(Rules, Running \cup Busy) ELSE UNCHANGED bounces
  /\ UNCHANGED <<dirVars, watch, check, other, ruleVars, fileVars, left>>

-----------------------------------------------------------------------------
(* Life                                                                     *)

Start ==
  /\ life = "down"
  /\ life' = "starting"
  /\ available' = FALSE
  /\ suppress' \in SUBSET suppress
  /\ stale' = Startup
  /\ UNCHANGED <<dirVars, watch, refresh, bounces, taskVars, auto, events, needs, left>>

Unload ==
  /\ life = "up" /\ Spend
  /\ life' = "closing"
  /\ UNCHANGED <<dirVars, rootVars, bounces, taskVars, ruleVars, fileVars>>

\* A refused unload schedules a check of every rule: events were dropped.
ScheduledNone == asked
Scheduled == asked \cup (Rules \ suppress)
UnloadRefused ==
  /\ life = "closing"
  /\ life' = "up"
  /\ \/ asked' = Scheduled
     \/ "unload_raises" \in Faults /\ asked' = asked
  /\ UNCHANGED <<dirVars, rootVars, bounces, check, other, ruleVars, fileVars, left>>

\* async_close begins.
Close ==
  /\ life \in {"up", "closing"} /\ Spend
  /\ life' = "closed"
  /\ pending' = {} /\ dirty' = {}
  /\ UNCHANGED <<dirVars, rootVars, taskVars, ruleVars, fileVars>>

\* The observer is stopped under _refresh_lock, tasks and actions are drained.
CloseDone ==
  /\ life = "closed"
  /\ refresh.at = "idle"
  /\ Running = {} /\ asked = {} /\ \A p \in Rules : other[p] = "none"
  /\ life' = "down"
  /\ armed' = 0 /\ watch' = 0
  /\ events' = {}
  /\ UNCHANGED <<place, refresh, available, bounces, taskVars, ruleVars,
                 needs, stale, left>>

-----------------------------------------------------------------------------
(* Surroundings                                                             *)

\* Another program changes a target.  Before the first watch only rules with a
\* check at startup notice.
Noticed == CASE life = "starting" -> Startup [] life = "down" -> {} [] OTHER -> Rules

WriteTarget(p) ==
  /\ Real(place) /\ Spend
  /\ \/ needs' = needs \cup {p}
     \/ needs' = needs \ {p}
  /\ stale' = stale \cup ({p} \cap Noticed)
  /\ events' = IF armed = place THEN events \cup {p} ELSE events
  /\ UNCHANGED <<life, dirVars, rootVars, bounces, taskVars, ruleVars>>

\* The directory is removed, replaced or moved away; its watch may tell.
ReplaceDirectory ==
  /\ Spend
  /\ place' \in {0, MaxEvents - left + 1, Linked}
  /\ place' # place
  /\ stale' = IF Real(place') THEN stale \cup Noticed ELSE stale
  /\ needs' \in {needs, Rules}
  /\ UNCHANGED <<life, armed, watch, refresh, available, bounces, taskVars,
                 ruleVars, events>>

Ask(p) ==
  /\ life = "up" /\ Spend
  /\ asked' = asked \cup {p}
  /\ UNCHANGED <<life, dirVars, rootVars, bounces, check, other, ruleVars, fileVars>>

-----------------------------------------------------------------------------
Checking(p) ==
  CheckAdmitted(p) \/ CheckBegins(p) \/ CheckReads(p) \/ CheckLeaves(p) \/ CheckEnds(p)

Acting(p) == OtherAdmitted(p) \/ OtherBegins(p) \/ OtherReads(p) \/ OtherLeaves(p)

Refreshing ==
  RefreshBegins \/ RefreshUnschedules \/ RefreshSchedules \/ RefreshPublishes

Environment ==
  \/ \E p \in Rules : WriteTarget(p) \/ Ask(p)
  \/ ReplaceDirectory \/ Start \/ Unload \/ Close

Next ==
  \/ \E p \in Rules : HandleEvent(p) \/ Fire(p) \/ Checking(p) \/ Acting(p)
  \/ Refreshing \/ UnloadRefused \/ CloseDone
  \/ Environment

Spec == Init /\ [][Next]_vars

\* The loop runs its callbacks, timers expire and executor jobs end (the events
\* are bounded, so no rule is overtaken for ever), the interval keeps refreshing,
\* and the kernel does not refuse a watch for ever.
Fairness ==
  /\ WF_vars(\E p \in Rules : HandleEvent(p) \/ Fire(p) \/ Checking(p) \/ Acting(p))
  /\ WF_vars(Refreshing) /\ SF_vars(RefreshSchedules /\ watch' # 0)
  /\ WF_vars(UnloadRefused) /\ WF_vars(CloseDone)

LiveSpec == Spec /\ Fairness

-----------------------------------------------------------------------------
(* Properties                                                               *)

TypeOK ==
  /\ life \in Lives /\ place \in Places
  /\ armed \in Places /\ watch \in Places
  /\ refresh \in [at : {"idle", "identified", "denied", "publish"}, id : Places, ok : BOOLEAN]
  /\ available \in BOOLEAN
  /\ check \in [Rules -> Stages] /\ other \in [Rules -> Stages]
  /\ {events, pending, dirty, asked, suppress, auto, needs, stale} \subseteq SUBSET Rules
  /\ left \in 0..MaxEvents

\* One timer or one check per rule, never both, and a note that a rule changed
\* while it was busy is left with somebody who will look at it.
OneOwner ==
  /\ TypeOK
  /\ pending \cap Running = {}
  /\ dirty \subseteq Running \cup Busy

\* A rule whose target changed and that should be checked: somebody has seen to
\* it, or some step already begun will.
Due(p) == p \in stale /\ p \in auto \ suppress /\ life = "up" /\ Real(place)

Underway(p) ==
  \/ p \in events \cup pending \cup dirty \cup asked
  \/ check[p] \in {"task", "queued", "working"}
  \/ other[p] \in {"queued", "working"}

\* No lost wake-up: while the directory is watched, a change of a target is
\* always underway to a check that has not read the target yet, whatever timers,
\* running checks, other actions and unload attempts it met.
NoLostWakeup ==
  \A p \in Rules : Due(p) /\ armed = place /\ refresh.at # "publish" => Underway(p)

\* Every change is checked in the end, also when the directory itself was
\* removed or replaced and came back.
ChangeChecked == \A p \in Rules : []<>~Due(p)

\* A directory that is no longer the watched one does not stay reported as
\* available.
Blind == life = "up" /\ available /\ armed # place
BlindnessReported == []<>~Blind

\* Left alone, the watcher comes to rest: its own writes do not keep waking it.
Settles == <>[](pending = {} /\ dirty = {} /\ Running = {})
=============================================================================
