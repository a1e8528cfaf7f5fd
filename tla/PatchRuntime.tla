---------------------------- MODULE PatchRuntime ----------------------------
(***************************************************************************)
(* PatchManagerRuntime (coordinator.py): the object that admits the        *)
(* actions on patch rules, serialises them and the publication of          *)
(* configuration with one lock, turns the outcome of each file transaction *)
(* into per-rule state, persists the part of that state that gates later   *)
(* actions (state_store.py) and drains everything when it is closed.       *)
(*                                                                         *)
(* The event loop is cooperative: one TLA+ action is the code that runs    *)
(* between two awaits.  The executor job that inspects and replaces the    *)
(* target (reconciler.py, modelled in detail by FileTransaction) is one    *)
(* step here, with every outcome it can report.  A rule's target file is   *)
(* abstracted to how the rule's own diff relates to its content:           *)
(* "orig" (the forward change applies), "patched" (the reverse one does)   *)
(* or "other" (neither).                                                   *)
(***************************************************************************)
EXTENDS Naturals

CONSTANTS Patches,     \* patch ids: keys of entry.subentries
          Tasks,       \* slots for admitted actions (bounds the queue)
          Requests,    \* the actions that are asked for
          Sources,     \* what the remaining fields of a definition can be
          Retentions,  \* values of the backup_retention option
          NotCreated,  \* the id of a rule the user has not created yet
          Removed,     \* the id of a rule the user has deleted
          Faults       \* which of FaultKinds this environment exhibits

FaultKinds == {"fsync_fails", "readback_denied", "meta_fails", "save_lost",
               "load_fails", "crash", "reload"}

Definition == [enabled : BOOLEAN, auto : BOOLEAN, source : Sources]
Vacant     == {NotCreated, Removed}
Owners     == {"free", "flow", "bare_flow", "close"}

Acts == {"reconcile", "apply", "revert", "refresh_source"}

ASSUME RuntimeAssumption ==
  /\ Patches # {}
  /\ Requests \subseteq Acts
  /\ Tasks \cap Owners = {}
  /\ NotCreated # Removed
  /\ Vacant \cap Definition = {}
  /\ Faults \subseteq FaultKinds

Contents == {"orig", "patched", "other"}
Phases   == {"down", "up", "closing", "draining"}
Steps    == {"idle", "queued", "working", "settling", "refreshing", "saving"}
Gates    == {"durability_unconfirmed", "revert_metadata_unavailable"}
Denials  == {"ha_path_not_allowed", "security_denied"}
Errors   == Gates \cup Denials \cup {"none", "other"}
Results  == [denied : BOOLEAN, error : Errors, mutated : BOOLEAN]

VARIABLES
  entry,      \* entry.subentries: the saved definitions
  entryRet,   \* entry.options["backup_retention"]
  defs,       \* runtime.definitions
  ret,        \* runtime.retention
  phase,      \* the runtime's life: not loaded, running, closing, async_close
  lock,       \* owner of hass.data[DOMAIN]["operation_lock"]
  busy,       \* runtime._busy
  suppress,   \* runtime._suppress_reapply
  err,        \* states[p].last_error
  avail,      \* states[p].watcher_available
  recheck,    \* states[p].watcher_recheck_required
  pc,         \* where each admitted action is
  job,        \* its patch, action, captured definition and pending flag, result
  snap,       \* the image store.save is writing
  saved,      \* the stored image
  tgt,        \* content of each rule's target file
  debt,       \* targets replaced without a successful directory fsync
  unstored,   \* the action in hand left a missing flush and has not stored it
  reverted    \* targets an explicit Revert restored and nobody re-enabled

configVars == <<entry, entryRet>>
loadVars   == <<defs, ret, phase>>
stateVars  == <<err, avail, recheck>>
storeVars  == <<snap, saved>>
fileVars   == <<tgt, debt, unstored, reverted>>
vars == <<configVars, loadVars, lock, busy, suppress, stateVars, pc, job,
          storeVars, fileVars>>

NoResult == [denied |-> FALSE, error |-> "none", mutated |-> FALSE]
IdleJob  == [patch |-> CHOOSE p \in Patches : TRUE, act |-> "reconcile",
             def |-> NotCreated, pending |-> FALSE, res |-> NoResult]
Jobs     == [patch : Patches, act : Acts, def : Definition \cup Vacant,
             pending : BOOLEAN, res : Results]

TypeOK ==
  /\ entry \in [Patches -> Definition \cup Vacant]
  /\ entryRet \in Retentions
  /\ defs \in [Patches -> Definition \cup Vacant]
  /\ ret \in Retentions
  /\ phase \in Phases
  /\ lock \in Tasks \cup Owners
  /\ busy \subseteq Patches
  /\ suppress \subseteq Patches
  /\ err \in [Patches -> Errors]
  /\ avail \in [Patches -> BOOLEAN]
  /\ recheck \in [Patches -> BOOLEAN]
  /\ pc \in [Tasks -> Steps]
  /\ job \in [Tasks -> Jobs]
  /\ snap \in [Patches -> Errors]
  /\ saved \in [Patches -> Errors]
  /\ tgt \in [Patches -> Contents]
  /\ debt \subseteq Patches
  /\ unstored \in BOOLEAN
  /\ reverted \subseteq Patches

Init ==
  /\ entry \in [Patches -> {NotCreated} \cup
                  {d \in Definition : d.enabled /\ d.auto}]
  /\ entryRet \in Retentions
  /\ defs = [p \in Patches |-> NotCreated]
  /\ ret = entryRet
  /\ phase = "down"
  /\ lock = "free"
  /\ busy = {}
  /\ suppress = {}
  /\ err = [p \in Patches |-> "none"]
  /\ avail = [p \in Patches |-> FALSE]
  /\ recheck = [p \in Patches |-> FALSE]
  /\ pc = [t \in Tasks |-> "idle"]
  /\ job = [t \in Tasks |-> IdleJob]
  /\ snap = [p \in Patches |-> "none"]
  /\ saved = [p \in Patches |-> "none"]
  /\ tgt \in [Patches -> Contents]
  /\ debt = {}
  /\ unstored = FALSE
  /\ reverted = {}

-----------------------------------------------------------------------------
(* Validation, shared by admission and by the start of the locked section. *)

Present(p) == defs[p] \in Definition

\* matches_entry: nothing saved since this runtime was built differs from it.
\* A deleted or not yet created rule is simply not a key of either mapping.
Live(f) == [p \in Patches |-> IF f[p] \in Definition THEN f[p] ELSE NotCreated]
MatchesEntry == Live(entry) = Live(defs) /\ entryRet = ret

\* _validate_current: any failing conjunct is a PatchError.
ValidateCurrent(p) ==
  /\ Present(p)
  /\ entry[p] \in Definition
  /\ entry[p].enabled
  /\ MatchesEntry

\* The operation lock is granted to one owner at a time.
LockFreeIgnored == TRUE
LockFree == lock = "free"

\* Validation repeated once the lock is held.
StillValidIgnored(p) == Present(p)
StillValid(p) == ValidateCurrent(p) /\ defs[p].enabled

LeaveHoldingLock(t) ==
  /\ pc' = [pc EXCEPT ![t] = "idle"]
  /\ job' = [job EXCEPT ![t] = IdleJob]
  /\ lock' = lock
  /\ busy' = busy \ {job[t].patch}

\* Leaving `async with self._lock` and the finally clause of _execute_action.
Leave(t) ==
  /\ pc' = [pc EXCEPT ![t] = "idle"]
  /\ job' = [job EXCEPT ![t] = IdleJob]
  /\ lock' = "free"
  /\ busy' = busy \ {job[t].patch}

-----------------------------------------------------------------------------
(* async_action and _execute_action.                                       *)

\* async_action: a refused call changes nothing.
Admit(t, p, a) ==
  /\ phase = "up"
  /\ pc[t] = "idle"
  /\ ValidateCurrent(p)
  /\ ~(a = "reconcile" /\ p \in suppress)
  /\ pc' = [pc EXCEPT ![t] = "queued"]
  /\ job' = [job EXCEPT ![t] = [IdleJob EXCEPT !.patch = p, !.act = a]]
  /\ UNCHANGED <<configVars, loadVars, lock, busy, suppress, stateVars,
                 storeVars, fileVars>>

\* The admitted task gets the lock and captures definition, state and pending.
Begin(t) ==
  LET p == job[t].patch IN
  /\ pc[t] = "queued"
  /\ LockFree
  /\ StillValid(p)
  /\ lock' = t
  /\ busy' = busy \cup {p}
  /\ pc' = [pc EXCEPT ![t] = "working"]
  /\ job' = [job EXCEPT ![t] =
               [@ EXCEPT !.def = defs[p],
                         !.pending = (err[p] = "durability_unconfirmed")]]
  /\ UNCHANGED <<configVars, loadVars, suppress, stateVars, storeVars, fileVars>>

\* The configuration changed while the task waited for its turn.
Reject(t) ==
  /\ pc[t] = "queued"
  /\ LockFree
  /\ ~StillValid(job[t].patch)
  /\ pc' = [pc EXCEPT ![t] = "idle"]
  /\ job' = [job EXCEPT ![t] = IdleJob]
  /\ UNCHANGED <<configVars, loadVars, lock, busy, suppress, stateVars,
                 storeVars, fileVars>>

\* _output_for_action: the bytes an action wants to write, if any.
HasOutput(d, content, act) ==
  \/ act = "revert" /\ content = "patched"
  \/ act = "apply" /\ content = "orig"
  \/ act = "reconcile" /\ d.auto /\ content = "orig"

\* The content those bytes give the target.
Output(act) == IF act = "revert" THEN "orig" ELSE "patched"

\* The executor job ends with a result; the loop has not seen it yet.
Report(t, denied, error, mutated) ==
  /\ pc' = [pc EXCEPT ![t] = "settling"]
  /\ job' = [job EXCEPT ![t].res = [denied |-> denied, error |-> error,
                                    mutated |-> mutated]]
  /\ UNCHANGED <<configVars, loadVars, lock, busy, suppress, stateVars, storeVars>>

\* confirm_durability succeeded if there was something to confirm.
Confirmed(t) == IF job[t].pending THEN debt \ {job[t].patch} ELSE debt

\* Policy, path or source denial before anything is replaced: before the
\* durability retry, or between it and the replacement.
WorkDenied(t) ==
  /\ pc[t] = "working"
  /\ \E e \in Denials : Report(t, TRUE, e, FALSE)
  /\ debt' \in {debt, Confirmed(t)}
  /\ UNCHANGED <<tgt, unstored, reverted>>

\* The source or the target cannot be read, or the durability retry fails:
\* an outstanding retry stays the reported error.
WorkUnavailable(t) ==
  /\ pc[t] = "working"
  /\ Report(t, FALSE,
            IF job[t].pending THEN "durability_unconfirmed" ELSE "other", FALSE)
  /\ UNCHANGED fileVars

\* Inspection only: nothing to write for this action and content.
WorkInspected(t) ==
  LET content == tgt[job[t].patch] IN
  /\ pc[t] = "working"
  /\ ~HasOutput(job[t].def, content, job[t].act)
  /\ Report(t, FALSE, IF content = "other" THEN "other" ELSE "none", FALSE)
  /\ debt' = Confirmed(t)
  /\ UNCHANGED <<tgt, unstored, reverted>>

\* The replacement was wanted but refused before os.replace.
WorkRefused(t) ==
  /\ pc[t] = "working"
  /\ HasOutput(job[t].def, tgt[job[t].patch], job[t].act)
  /\ Report(t, FALSE, "other", FALSE)
  /\ debt' = Confirmed(t)
  /\ UNCHANGED <<tgt, unstored, reverted>>

\* Ghost: an explicit Apply withdraws an earlier Revert; an automatic one
\* cannot.
Withdrawn(t) ==
  IF job[t].act = "apply" THEN reverted \ {job[t].patch} ELSE reverted

\* The target was replaced and its directory flushed; reading it back and
\* pruning the backups may still fail.
WorkReplaced(t) ==
  LET p == job[t].patch IN
  /\ pc[t] = "working"
  /\ HasOutput(job[t].def, tgt[p], job[t].act)
  /\ \/ \E e \in {"none", "other"} : Report(t, FALSE, e, TRUE)
     \/ "readback_denied" \in Faults /\ Report(t, TRUE, "security_denied", TRUE)
  /\ tgt' = [tgt EXCEPT ![p] = Output(job[t].act)]
  /\ debt' = debt \ {p}
  /\ reverted' = Withdrawn(t)
  /\ unstored' = unstored

\* The target was replaced, the flush of its directory failed.
WorkUnsynced(t) ==
  LET p == job[t].patch IN
  /\ "fsync_fails" \in Faults
  /\ pc[t] = "working"
  /\ HasOutput(job[t].def, tgt[p], job[t].act)
  /\ Report(t, FALSE, "durability_unconfirmed", TRUE)
  /\ tgt' = [tgt EXCEPT ![p] = Output(job[t].act)]
  /\ debt' = debt \cup {p}
  /\ unstored' = (p \notin debt)
  /\ reverted' = Withdrawn(t)

-----------------------------------------------------------------------------
(* Back on the loop: revert metadata, _record_result, store.save.          *)

\* An HA path rejection of a watched root already reported as lost says
\* nothing new about the rule.
AlreadyReported(p, r) ==
  r.denied /\ r.error = "ha_path_not_allowed" /\ ~avail[p] /\ recheck[p]

\* Policy denial must not erase an outstanding fsync retry.
RecordedErrorErased(t, r) == r.error
RecordedError(t, r) ==
  IF job[t].pending /\ r.denied THEN "durability_unconfirmed" ELSE r.error

\* _record_result followed by the synchronous part of store.save.  What the
\* task had captured only matters to its caller from here on.
RecordAndSave(t, r) ==
  LET p == job[t].patch IN
  /\ IF AlreadyReported(p, r)
       THEN UNCHANGED <<err, recheck>>
       ELSE /\ err' = [err EXCEPT ![p] = RecordedError(t, r)]
            /\ recheck' = [recheck EXCEPT ![p] = @ /\ ~avail[p]]
  /\ snap' = [q \in Patches |-> IF Present(q) THEN err'[q] ELSE "none"]
  /\ pc' = [pc EXCEPT ![t] = "saving"]
  /\ job' = [job EXCEPT ![t] = [IdleJob EXCEPT !.patch = p, !.act = job[t].act]]
  /\ UNCHANGED <<avail, saved, lock, busy>>

\* Ghost: a Revert counts from when its outcome is back on the loop.
Counted(t) ==
  IF job[t].act = "revert" /\ job[t].res.mutated
    THEN reverted \cup {job[t].patch} ELSE reverted

IsSafeRevert(t) == job[t].act = "revert" /\ ~job[t].res.denied

\* Every action but a Revert without security denial.  An HA path rejection
\* awaits a refresh of the watched roots first.
Settle(t) ==
  /\ pc[t] = "settling"
  /\ ~IsSafeRevert(t)
  /\ IF job[t].res.denied /\ job[t].res.error = "ha_path_not_allowed"
       THEN /\ pc' = [pc EXCEPT ![t] = "refreshing"]
            /\ UNCHANGED <<job, stateVars, storeVars, lock, busy>>
       ELSE RecordAndSave(t, job[t].res)
  /\ reverted' = Counted(t)
  /\ UNCHANGED <<configVars, loadVars, suppress, tgt, debt, unstored>>

Refreshed(t) ==
  /\ pc[t] = "refreshing"
  /\ RecordAndSave(t, job[t].res)
  /\ UNCHANGED <<configVars, loadVars, suppress, fileVars>>

\* _disable_auto_apply: the runtime's definition and the saved one together.
DisableAutoApplyInMemory(p) ==
  /\ defs' = [defs EXCEPT ![p] = [@ EXCEPT !.auto = FALSE]]
  /\ entry' = entry
DisableAutoApply(p) ==
  /\ defs' = [defs EXCEPT ![p] = [@ EXCEPT !.auto = FALSE]]
  /\ entry' = [entry EXCEPT ![p] = defs'[p]]

SettleRevert(t) ==
  LET p == job[t].patch IN
  /\ pc[t] = "settling"
  /\ IsSafeRevert(t)
  /\ entry[p] \in Definition
  /\ DisableAutoApply(p)
  /\ suppress' = suppress \ {p}
  /\ RecordAndSave(t, job[t].res)
  /\ reverted' = Counted(t)
  /\ UNCHANGED <<entryRet, ret, phase, tgt, debt, unstored>>

\* async_update_subentry raises: the definition is restored and automatic
\* reapplication suspended.
SettleRevertUnsaved(t) ==
  LET p == job[t].patch IN
  /\ "meta_fails" \in Faults
  /\ pc[t] = "settling"
  /\ IsSafeRevert(t)
  /\ entry[p] \in Definition
  /\ suppress' = suppress \cup {p}
  /\ RecordAndSave(t, [job[t].res EXCEPT !.error = "revert_metadata_unavailable"])
  /\ reverted' = Counted(t)
  /\ UNCHANGED <<configVars, loadVars, tgt, debt, unstored>>

\* The subentry was deleted meanwhile: the lookup raises KeyError, which leaves
\* _execute_action without recording anything.
SettleRevertRemoved(t) ==
  /\ pc[t] = "settling"
  /\ IsSafeRevert(t)
  /\ entry[job[t].patch] \notin Definition
  /\ Leave(t)
  /\ unstored' = FALSE
  /\ UNCHANGED <<configVars, loadVars, suppress, stateVars, storeVars, tgt, debt,
                 reverted>>

\* The write of the snapshot ends.  HA's Store logs a failed write.
Save(t) ==
  /\ pc[t] = "saving"
  /\ \/ saved' = snap
     \/ "save_lost" \in Faults /\ saved' = saved
  /\ Leave(t)
  /\ unstored' = FALSE
  /\ UNCHANGED <<configVars, loadVars, suppress, stateVars, snap, tgt, debt,
                 reverted>>

-----------------------------------------------------------------------------
(* What the watcher tells the runtime (watcher.py, _publish_root).         *)

WatchAvailable(p, available) ==
  /\ phase # "down"
  /\ Present(p) /\ defs[p].enabled
  /\ avail' = [avail EXCEPT ![p] = available]
  /\ recheck' = [recheck EXCEPT ![p] = @ \/ ~available]
  /\ UNCHANGED <<configVars, loadVars, lock, busy, suppress, err, pc, job,
                 storeVars, fileVars>>

WatchDenied(p, e) ==
  /\ phase # "down"
  /\ Present(p) /\ defs[p].enabled
  /\ avail' = [avail EXCEPT ![p] = FALSE]
  /\ recheck' = [recheck EXCEPT ![p] = TRUE]
  /\ err' = [err EXCEPT ![p] = IF @ = "durability_unconfirmed" THEN @ ELSE e]
  /\ UNCHANGED <<configVars, loadVars, lock, busy, suppress, pc, job,
                 storeVars, fileVars>>

-----------------------------------------------------------------------------
(* Configuration: a flow saves a rule inside configuration_guard, or with   *)
(* the bare lock when no runtime is loaded; HA deletes subentries and       *)
(* stores options without asking the runtime.                               *)

FlowEnter ==
  /\ LockFree
  /\ \/ phase = "up" /\ MatchesEntry /\ lock' = "flow"
     \/ phase = "down" /\ lock' = "bare_flow"
  /\ UNCHANGED <<configVars, loadVars, busy, suppress, stateVars, pc, job,
                 storeVars, fileVars>>

\* A changed source gives the target a new relation to the rule's diff.
FlowCommit(p, d) ==
  /\ \/ lock = "flow" /\ phase = "up"
     \/ lock = "bare_flow"
  /\ entry[p] # Removed
  /\ entry' = [entry EXCEPT ![p] = d]
  /\ IF entry[p] \in Definition /\ entry[p].source = d.source
       THEN tgt' = tgt
       ELSE \E c \in Contents : tgt' = [tgt EXCEPT ![p] = c]
  /\ reverted' = reverted \ {p}
  /\ lock' = "free"
  /\ UNCHANGED <<entryRet, loadVars, busy, suppress, stateVars, pc, job,
                 storeVars, debt, unstored>>

FlowAbortWhenUp ==
  /\ phase = "up"
  /\ lock \in {"flow", "bare_flow"}
  /\ lock' = "free"
  /\ UNCHANGED <<configVars, loadVars, busy, suppress, stateVars, pc, job,
                 storeVars, fileVars>>

\* The flow is refused (validation, policy, or the runtime started closing).
FlowAbort ==
  /\ lock \in {"flow", "bare_flow"}
  /\ lock' = "free"
  /\ UNCHANGED <<configVars, loadVars, busy, suppress, stateVars, pc, job,
                 storeVars, fileVars>>

Delete(p) ==
  /\ entry[p] \in Definition
  /\ entry' = [entry EXCEPT ![p] = Removed]
  /\ debt' = debt \ {p}
  /\ reverted' = reverted \ {p}
  /\ UNCHANGED <<entryRet, loadVars, lock, busy, suppress, stateVars, pc, job,
                 storeVars, tgt, unstored>>

SaveOptions(r) ==
  /\ entryRet' = r
  /\ UNCHANGED <<entry, loadVars, lock, busy, suppress, stateVars, pc, job,
                 storeVars, fileVars>>

\* Something outside HAPatchY writes the target.
TargetWritten(p, c) ==
  /\ tgt' = [tgt EXCEPT ![p] = c]
  /\ UNCHANGED <<configVars, loadVars, lock, busy, suppress, stateVars, pc, job,
                 storeVars, debt, unstored, reverted>>

-----------------------------------------------------------------------------
(* Life of the runtime.                                                     *)

\* A load that fails, data or a rule's item that is not what was stored: it is
\* logged, and the rules concerned start without a gate.
Unreadable == IF "load_fails" \in Faults THEN SUBSET Patches ELSE {{}}

\* async_load: of what could be read only the gate errors come back.
Restored(p, unread) ==
  IF entry[p] \in Definition /\ saved[p] \in Gates /\ p \notin unread
    THEN saved[p] ELSE "none"

RestoreSuppressionForgotten(unread) == {}
RestoreSuppression(unread) ==
  {p \in Patches : Restored(p, unread) = "revert_metadata_unavailable"}

Load ==
  /\ phase = "down"
  /\ defs' = Live(entry)
  /\ ret' = entryRet
  /\ phase' = "up"
  /\ \E unread \in Unreadable :
       /\ err' = [p \in Patches |-> Restored(p, unread)]
       /\ suppress' = RestoreSuppression(unread)
  /\ UNCHANGED <<configVars, lock, busy, avail, recheck, pc, job, storeVars,
                 fileVars>>

\* async_unload_entry pauses admission before it asks the platforms.
Unload ==
  /\ "reload" \in Faults
  /\ phase = "up"
  /\ phase' = "closing"
  /\ UNCHANGED <<configVars, defs, ret, lock, busy, suppress, stateVars, pc,
                 job, storeVars, fileVars>>

UnloadRefused ==
  /\ phase = "closing"
  /\ phase' = "up"
  /\ UNCHANGED <<configVars, defs, ret, lock, busy, suppress, stateVars, pc,
                 job, storeVars, fileVars>>

\* async_close begins: after the unload was accepted, or at HA's stop event.
Close ==
  /\ "reload" \in Faults
  /\ phase \in {"up", "closing"}
  /\ phase' = "draining"
  /\ UNCHANGED <<configVars, defs, ret, lock, busy, suppress, stateVars, pc,
                 job, storeVars, fileVars>>

\* Every admitted task has ended; the final save needs the lock as well.
DrainedAtOnce == TRUE
Drained == \A t \in Tasks : pc[t] = "idle"
CloseSave ==
  /\ phase = "draining"
  /\ Drained
  /\ LockFree
  /\ lock' = "close"
  /\ snap' = [p \in Patches |-> IF Present(p) THEN err[p] ELSE "none"]
  /\ UNCHANGED <<configVars, loadVars, busy, suppress, stateVars, pc, job,
                 saved, fileVars>>

\* What a runtime that is gone leaves in memory.
Forget ==
  /\ defs' = [p \in Patches |-> NotCreated]
  /\ phase' = "down"
  /\ lock' = "free"
  /\ busy' = {}
  /\ suppress' = {}
  /\ err' = [p \in Patches |-> "none"]
  /\ avail' = [p \in Patches |-> FALSE]
  /\ recheck' = [p \in Patches |-> FALSE]
  /\ snap' = [p \in Patches |-> "none"]

CloseDone ==
  /\ lock = "close"
  /\ \/ saved' = snap
     \/ "save_lost" \in Faults /\ saved' = saved
  /\ Forget
  /\ UNCHANGED <<configVars, ret, pc, job, fileVars>>

\* The process dies.  The target and HA's storage do not share a transaction:
\* a flush that only the action in flight missed, and had not stored yet, is
\* forgotten.  What any earlier action left is not.
Crash ==
  /\ "crash" \in Faults
  /\ phase # "down"
  /\ Forget
  /\ pc' = [t \in Tasks |-> "idle"]
  /\ job' = [t \in Tasks |-> IdleJob]
  /\ debt' = IF unstored THEN debt \ busy ELSE debt
  /\ unstored' = FALSE
  /\ UNCHANGED <<configVars, ret, saved, tgt, reverted>>

-----------------------------------------------------------------------------
Work(t) ==
  \/ WorkDenied(t) \/ WorkUnavailable(t) \/ WorkInspected(t)
  \/ WorkRefused(t) \/ WorkReplaced(t) \/ WorkUnsynced(t)

Resume(t) ==
  \/ Settle(t) \/ SettleRevert(t) \/ SettleRevertUnsaved(t)
  \/ SettleRevertRemoved(t) \/ Refreshed(t) \/ Save(t)

Actions ==
  \/ \E t \in Tasks, p \in Patches, a \in Requests : Admit(t, p, a)
  \/ \E t \in Tasks : Begin(t) \/ Reject(t) \/ Work(t) \/ Resume(t)

Watching ==
  \/ \E p \in Patches, b \in BOOLEAN : WatchAvailable(p, b)
  \/ \E p \in Patches, e \in Denials : WatchDenied(p, e)

Configuration ==
  \/ FlowEnter
  \/ \E p \in Patches, d \in Definition : FlowCommit(p, d)
  \/ FlowAbort
  \/ \E p \in Patches : Delete(p)
  \/ \E r \in Retentions : SaveOptions(r)

Lifetime ==
  Load \/ Unload \/ UnloadRefused \/ Close \/ CloseSave \/ CloseDone \/ Crash

Next ==
  \/ Actions \/ Watching \/ Configuration \/ Lifetime
  \/ \E p \in Patches, c \in Contents : TargetWritten(p, c)

Spec == Init /\ [][Next]_vars

\* asyncio.Lock is first come, first served, so a waiter is not overtaken for
\* ever; executor jobs, storage writes and flow steps end.
Fairness ==
  /\ \A t \in Tasks : /\ SF_vars(Begin(t) \/ Reject(t))
                       /\ WF_vars(Work(t))
                       /\ WF_vars(Resume(t))
  /\ WF_vars(FlowAbort \/ \E p \in Patches, d \in Definition : FlowCommit(p, d))
  /\ SF_vars(CloseSave)
  /\ WF_vars(CloseDone)

LiveSpec == Spec /\ Fairness

-----------------------------------------------------------------------------
(* Properties                                                               *)

Critical == {"working", "settling", "refreshing", "saving"}

\* Only the action that owns the operation lock is between its revalidation
\* and the end of its state write, and _busy names exactly its rule.
SerializedActions ==
  /\ \A t \in Tasks : pc[t] \in Critical <=> lock = t
  /\ \A p \in Patches : p \in busy <=> \E t \in Tasks : lock = t /\ job[t].patch = p

\* A closed runtime is quiet: once it starts its final save no admitted
\* action is left, and after that none can write the target or its state.
ClosedIsQuiet ==
  phase = "down" \/ lock = "close" =>
    /\ \A t \in Tasks : pc[t] = "idle"
    /\ busy = {}

\* A rule whose reported error is revert_metadata_unavailable has automatic
\* reapplication suspended, in this runtime and in the one a reload builds.
GateBacked ==
  \A p \in Patches : err[p] = "revert_metadata_unavailable" => p \in suppress

\* The executor job of t replaced its target in this step.
Wrote(t) == pc[t] = "working" /\ pc'[t] = "settling" /\ job'[t].res.mutated

\* A target is written only for the definition that is saved at that moment
\* (unless HA deleted the rule under the action), never for one a flow has
\* replaced while the action waited, and automatically only if that
\* definition still asks for it.
WritesFollowSavedRule ==
  [][\A t \in Tasks : Wrote(t) =>
       LET d == entry[job[t].patch] IN
       d \in Definition =>
         /\ d = job[t].def
         /\ d.enabled
         /\ job[t].act = "reconcile" => d.auto]_vars

\* No automatic check re-applies what an explicit Revert undid, until the user
\* applies the rule or saves it again: not the reconcile already queued behind
\* the Revert, not the watcher's, not the one at the next start, also when the
\* process dies before the Revert has stored its state.
RevertNotUndone ==
  [][\A t \in Tasks : Wrote(t) /\ job[t].act = "reconcile" =>
       job[t].patch \notin reverted]_vars

\* Once the action that made it has returned, a replacement whose directory
\* flush has not succeeded stays reported as durability_unconfirmed, across
\* later actions, denials, reloads and crashes at any point of them, until a
\* flush succeeds: nothing else would ever retry it.  (Not for a deleted rule,
\* nor where the stored state is lost or cannot be read: save_lost, load_fails.)
DebtRemembered ==
  \A p \in Patches :
    /\ phase # "down"
    /\ entry[p] \in Definition
    /\ Present(p)
    /\ p \in debt \ busy
    => err[p] = "durability_unconfirmed"

\* Every admitted action ends, whatever is saved, deleted or closed meanwhile.
ActionReturns ==
  \A t \in Tasks : pc[t] = "queued" ~> pc[t] = "idle"

\* A runtime that began to close is released: the drain cannot wait for ever
\* on actions, a configuration flow and the lock they share.
CloseCompletes == phase = "draining" ~> phase = "down"

-----------------------------------------------------------------------------
(* Refinement: a rule deleted under an action is still the one the action   *)
(* works for until its outcome is taken into account.                       *)

InHand(p) == {t \in Tasks : job[t].patch = p /\ pc[t] \in {"working", "settling"}}

RuleOf(p) ==
  IF InHand(p) # {} THEN job[CHOOSE t \in InHand(p) : TRUE].def ELSE entry[p]

WriterOf(p) ==
  IF \E t \in InHand(p) : job[t].res.mutated
    THEN IF job[CHOOSE t \in InHand(p) : TRUE].act = "reconcile"
           THEN "check" ELSE "request"
    ELSE "nobody"

Contract == INSTANCE RuleContract WITH
  rule <- [p \in Patches |-> RuleOf(p)],
  target <- tgt,
  writer <- [p \in Patches |-> WriterOf(p)]

\* Every behaviour of the runtime, seen through the saved rules, the targets
\* and the open write, is one RuleContract allows.
ImplementsContract == Contract!Spec

-----------------------------------------------------------------------------
(* The inductive invariant behind the theorems of PatchRuntimeProofs.       *)

\* What an action captured is what the runtime holds and what is saved, up to
\* a deletion, from its revalidation to the record of its outcome.
CaptureCurrent ==
  \A t \in Tasks : pc[t] \in {"working", "settling"} =>
    LET p == job[t].patch  d == job[t].def IN
    /\ d \in Definition
    /\ d.enabled
    /\ d = defs[p]
    /\ entry[p] \in {d, Removed}

\* The final save is part of the drain.
CloseInDrain == lock = "close" => phase = "draining"

\* The transaction itself never reports the error that only a failed Revert
\* bookkeeping may record.
ResultsUngated ==
  \A t \in Tasks : pc[t] \in {"settling", "refreshing"} =>
    job[t].res.error # "revert_metadata_unavailable"

IInv ==
  /\ TypeOK
  /\ SerializedActions
  /\ CaptureCurrent
  /\ ClosedIsQuiet
  /\ CloseInDrain
  /\ ResultsUngated
  /\ GateBacked

\* An unload or a stop is what leads out of "down" and "up".
NoReload == "reload" \notin Faults => phase \in {"down", "up"}

\* The store writes what it is given.
StoreKept == "save_lost" \notin Faults

\* A missing flush on the way through an action: the action knows of it from
\* its start, and will report it again unless the flush is made up for.
DebtInHand ==
  \A t \in Tasks :
    LET p == job[t].patch  r == job[t].res IN
    p \in debt /\ entry[p] \in Definition =>
      /\ pc[t] = "working" =>
           job[t].pending /\ err[p] = "durability_unconfirmed"
      /\ pc[t] \in {"settling", "refreshing"} =>
           \/ ~r.denied /\ r.error = "durability_unconfirmed"
           \/ r.denied /\ job[t].pending /\ err[p] = "durability_unconfirmed"
      /\ pc[t] = "saving" => err[p] = "durability_unconfirmed"

\* At rest a missing flush is reported and stored, and what is stored stays so
\* while the rule is in hand again; an image being written has it too, and while
\* no runtime is loaded the stored one is all there is.
DebtAtRest ==
  \A p \in debt : entry[p] \in Definition =>
    /\ phase # "down" => Present(p)
    /\ phase # "down" /\ p \notin busy => err[p] = "durability_unconfirmed"
    /\ phase = "down" \/ (StoreKept /\ (p \in busy => ~unstored)) =>
         saved[p] = "durability_unconfirmed"
    /\ lock = "close" \/ (\E t \in Tasks : pc[t] = "saving") =>
         snap[p] = "durability_unconfirmed"

\* A flush waits to be stored only in an action that has replaced its target.
UnstoredInHand ==
  unstored => \E t \in Tasks : pc[t] \in {"settling", "refreshing", "saving"}

\* Where no runtime ever ends, none is loaded only at the beginning.
FirstLoad ==
  Faults \cap {"crash", "reload"} = {} /\ phase = "down" => debt = {}

DebtInv ==
  /\ NoReload
  /\ FirstLoad
  /\ UnstoredInHand
  /\ DebtInHand
  /\ DebtAtRest
  /\ \A p \in debt : entry[p] # NotCreated

\* A rule whose Revert stands no longer asks to be applied automatically.
RevertedIsManual ==
  \A p \in reverted : entry[p] \in Definition => ~entry[p].auto

\* An automatic action at work captured a rule no Revert has switched off.
CheckedNotReverted ==
  \A t \in Tasks :
    pc[t] = "working" /\ job[t].act = "reconcile" /\ job[t].def.auto =>
      job[t].patch \notin reverted

\* A job that was denied has replaced nothing, unless reading back is what
\* was denied.
DeniedUnwritten ==
  \A t \in Tasks : pc[t] = "settling" /\ job[t].res.denied =>
    ~job[t].res.mutated \/ "readback_denied" \in Faults

RevertInv == RevertedIsManual /\ CheckedNotReverted /\ DeniedUnwritten
=============================================================================
