------------------------- MODULE PatchRuntimeProofs -------------------------
(* Proofs about PatchRuntime, for any rules, action slots and faults. *)
EXTENDS PatchRuntime, JobOutcome, TLAPS

\* The record an idle slot carries is a job.
LEMMA IdleJobIsJob == IdleJob \in Jobs
  <1>1. (CHOOSE p \in Patches : TRUE) \in Patches
    BY RuntimeAssumption
  <1> QED  BY <1>1 DEF IdleJob, Jobs, Acts, Vacant, NoResult, Results, Errors

\* What an executor job reports keeps the types.
LEMMA ReportType ==
  ASSUME TypeOK, NEW t \in Tasks, NEW denied \in BOOLEAN, NEW error \in Errors,
         NEW mutated \in BOOLEAN, Report(t, denied, error, mutated),
         tgt' \in [Patches -> Contents], debt' \subseteq Patches,
         unstored' \in BOOLEAN, reverted' \subseteq Patches
  PROVE  TypeOK'
<1>1. [denied |-> denied, error |-> error, mutated |-> mutated] \in Results
  BY DEF Results
<1>2. job' \in [Tasks -> Jobs]
  <2>1. job \in [Tasks -> Jobs]
    BY DEF TypeOK
  <2> QED  BY <1>1, <2>1 DEF Report, Jobs
<1>3. pc' \in [Tasks -> Steps]
  BY DEF Report, TypeOK, Steps
<1> QED
  BY <1>2, <1>3 DEF Report, TypeOK, configVars, loadVars, stateVars, storeVars

\* Recording a result and taking the image to store keeps the types.
LEMMA RecordType ==
  ASSUME TypeOK, NEW t \in Tasks, NEW r \in Results, RecordAndSave(t, r)
  PROVE  /\ err' \in [Patches -> Errors]
         /\ avail' \in [Patches -> BOOLEAN]
         /\ recheck' \in [Patches -> BOOLEAN]
         /\ snap' \in [Patches -> Errors]
         /\ saved' \in [Patches -> Errors]
         /\ pc' \in [Tasks -> Steps]
         /\ job' \in [Tasks -> Jobs]
         /\ lock' \in Tasks \cup Owners
         /\ busy' \subseteq Patches
<1> DEFINE p == job[t].patch
<1>1. p \in Patches /\ job[t].act \in Acts
  BY DEF TypeOK, Jobs
<1>2. RecordedError(t, r) \in Errors
  BY DEF RecordedError, Results, Errors, Gates
<1>3. err' \in [Patches -> Errors]
  BY <1>1, <1>2 DEF RecordAndSave, TypeOK
<1>4. recheck' \in [Patches -> BOOLEAN]
  <2>1. CASE recheck' = recheck
    BY <2>1 DEF TypeOK
  <2>2. CASE recheck' = [recheck EXCEPT ![p] = @ /\ ~avail[p]]
    <3>1. (recheck[p] /\ ~avail[p]) \in BOOLEAN
      OBVIOUS
    <3> QED  BY <2>2, <3>1, Zenon DEF TypeOK
  <2> QED  BY <2>1, <2>2 DEF RecordAndSave
<1>5. snap' \in [Patches -> Errors]
  BY <1>3 DEF RecordAndSave, Errors
<1>6. job' \in [Tasks -> Jobs]
  BY <1>1, IdleJobIsJob DEF RecordAndSave, TypeOK, Jobs
<1> QED
  BY <1>3, <1>4, <1>5, <1>6 DEF RecordAndSave, TypeOK, Steps

\* Leaving the locked section keeps the types.
LEMMA LeaveType ==
  ASSUME TypeOK, NEW t \in Tasks, Leave(t)
  PROVE  /\ pc' \in [Tasks -> Steps]
         /\ job' \in [Tasks -> Jobs]
         /\ lock' \in Tasks \cup Owners
         /\ busy' \subseteq Patches
BY IdleJobIsJob DEF TypeOK, Leave, Steps, Owners

\* Each handler leaves states, queue, lock and stored image well formed.  Only
\* the bookkeeping of a Revert needs more than types: the definition it edits
\* must still be there.
LEMMA TypeStep ==
  ASSUME TypeOK, CaptureCurrent, [Next]_vars  PROVE TypeOK'
<1> USE RuntimeAssumption, IdleJobIsJob
<1> USE DEF configVars, loadVars, stateVars, storeVars, fileVars
<1>1. ASSUME NEW t \in Tasks, NEW p \in Patches, NEW a \in Requests,
             Admit(t, p, a)
      PROVE  TypeOK'
  <2>1. [IdleJob EXCEPT !.patch = p, !.act = a] \in Jobs
    BY DEF Jobs
  <2> QED  BY <1>1, <2>1 DEF Admit, TypeOK, Steps
<1>2. ASSUME NEW t \in Tasks, Begin(t)  PROVE TypeOK'
  <2>1. /\ job[t] \in Jobs
        /\ defs[job[t].patch] \in Definition \cup Vacant
    BY DEF TypeOK, Jobs
  <2>2. ASSUME NEW b \in BOOLEAN
        PROVE  [job[t] EXCEPT !.def = defs[job[t].patch], !.pending = b] \in Jobs
    BY <2>1 DEF Jobs
  <2>3. (err[job[t].patch] = "durability_unconfirmed") \in BOOLEAN
    OBVIOUS
  <2>4. [job[t] EXCEPT !.def = defs[job[t].patch],
               !.pending = (err[job[t].patch] = "durability_unconfirmed")] \in Jobs
    BY <2>2, <2>3, Zenon
  <2>5. job' \in [Tasks -> Jobs]
    BY <1>2, <2>4, Zenon DEF Begin, TypeOK
  <2>6. pc' \in [Tasks -> Steps] /\ busy' \subseteq Patches
    BY <1>2, <2>1 DEF Begin, TypeOK, Steps, Jobs
  <2> QED  BY <1>2, <2>5, <2>6 DEF Begin, TypeOK
<1>3. ASSUME NEW t \in Tasks, Reject(t)  PROVE TypeOK'
  BY <1>3 DEF Reject, TypeOK, Steps
<1>4. ASSUME NEW t \in Tasks, Work(t)  PROVE TypeOK'
  <2>1. job[t].patch \in Patches
    BY DEF TypeOK, Jobs
  <2>2. /\ TypeOK
        /\ tgt \in [Patches -> Contents] /\ debt \subseteq Patches
        /\ reverted \subseteq Patches
        /\ Confirmed(t) \subseteq Patches
        /\ Withdrawn(t) \subseteq Patches
        /\ unstored \in BOOLEAN
        /\ Output(job[t].act) \in Contents
    BY <2>1 DEF TypeOK, Confirmed, Withdrawn, Output, Contents
  <2> USE <2>1, <2>2
  <2> HIDE DEF TypeOK
  <2>3. CASE WorkDenied(t)
    <3>1. PICK e \in Denials : Report(t, TRUE, e, FALSE)
      BY <2>3 DEF WorkDenied
    <3> QED  BY <2>3, <3>1, ReportType DEF WorkDenied, Denials, Errors
  <2>4. CASE WorkUnavailable(t)
    BY <2>4, ReportType DEF WorkUnavailable, Errors, Gates
  <2>5. CASE WorkInspected(t)
    BY <2>5, ReportType DEF WorkInspected, Errors
  <2>6. CASE WorkRefused(t)
    BY <2>6, ReportType DEF WorkRefused, Errors
  <2>7. CASE WorkReplaced(t)
    <3>1. /\ tgt' \in [Patches -> Contents]
          /\ debt' \subseteq Patches /\ reverted' \subseteq Patches
          /\ unstored' \in BOOLEAN
      BY <2>7 DEF WorkReplaced
    <3>2. CASE \E e \in {"none", "other"} : Report(t, FALSE, e, TRUE)
      BY <3>1, <3>2, ReportType DEF Errors
    <3>3. CASE Report(t, TRUE, "security_denied", TRUE)
      BY <3>1, <3>3, ReportType DEF Errors, Denials
    <3> QED  BY <2>7, <3>2, <3>3 DEF WorkReplaced
  <2>8. CASE WorkUnsynced(t)
    <3>1. /\ tgt' \in [Patches -> Contents]
          /\ debt' \subseteq Patches /\ reverted' \subseteq Patches
          /\ unstored' \in BOOLEAN
      BY <2>8 DEF WorkUnsynced
    <3> QED  BY <2>8, <3>1, ReportType DEF WorkUnsynced, Errors, Gates
  <2> QED  BY <1>4, <2>3, <2>4, <2>5, <2>6, <2>7, <2>8 DEF Work
<1>5. ASSUME NEW t \in Tasks, Resume(t)  PROVE TypeOK'
  <2>1. /\ job[t] \in Jobs /\ job[t].res \in Results
        /\ job[t].patch \in Patches
        /\ Counted(t) \subseteq Patches
    BY DEF TypeOK, Jobs, Counted
  <2>2. CASE Settle(t)
    <3>1. CASE pc' = [pc EXCEPT ![t] = "refreshing"] /\
               UNCHANGED <<job, stateVars, storeVars, lock, busy>>
      BY <2>1, <2>2, <3>1 DEF Settle, TypeOK, Steps
    <3>2. CASE RecordAndSave(t, job[t].res)
      BY <2>1, <2>2, <3>2, RecordType DEF Settle, TypeOK
    <3> QED  BY <2>2, <3>1, <3>2 DEF Settle
  <2>3. CASE SettleRevert(t)
    <3> DEFINE p == job[t].patch
    <3>1. defs[p] \in Definition
      BY <2>3 DEF SettleRevert, CaptureCurrent
    <3>2. /\ defs' \in [Patches -> Definition \cup Vacant]
          /\ entry' \in [Patches -> Definition \cup Vacant]
      BY <2>1, <2>3, <3>1 DEF SettleRevert, DisableAutoApply, TypeOK, Definition
    <3> QED
      BY <2>1, <2>3, <3>2, RecordType DEF SettleRevert, TypeOK
  <2>4. CASE SettleRevertUnsaved(t)
    <3>1. [job[t].res EXCEPT !.error = "revert_metadata_unavailable"] \in Results
      BY <2>1 DEF Results, Errors, Gates
    <3> QED
      BY <2>1, <2>4, <3>1, RecordType DEF SettleRevertUnsaved, TypeOK
  <2>5. CASE SettleRevertRemoved(t)
    BY <2>5, LeaveType DEF SettleRevertRemoved, TypeOK
  <2>6. CASE Refreshed(t)
    BY <2>1, <2>6, RecordType DEF Refreshed, TypeOK
  <2>7. CASE Save(t)
    BY <2>7, LeaveType DEF Save, TypeOK
  <2> QED  BY <1>5, <2>2, <2>3, <2>4, <2>5, <2>6, <2>7 DEF Resume
<1>6. CASE Watching
  <2>1. ASSUME NEW p \in Patches, NEW b \in BOOLEAN, WatchAvailable(p, b)
        PROVE  TypeOK'
    <3>1. (recheck[p] \/ ~b) \in BOOLEAN
      OBVIOUS
    <3>2. recheck' \in [Patches -> BOOLEAN]
      BY <2>1, <3>1, Zenon DEF WatchAvailable, TypeOK
    <3> QED  BY <2>1, <3>2 DEF WatchAvailable, TypeOK
  <2>2. ASSUME NEW p \in Patches, NEW e \in Denials, WatchDenied(p, e)
        PROVE  TypeOK'
    BY <2>2 DEF WatchDenied, TypeOK, Errors
  <2> QED  BY <1>6, <2>1, <2>2 DEF Watching
<1>7. CASE Configuration
  <2>1. CASE FlowEnter \/ FlowAbort
    BY <2>1 DEF FlowEnter, FlowAbort, TypeOK, Owners
  <2>2. ASSUME NEW p \in Patches, NEW d \in Definition, FlowCommit(p, d)
        PROVE  TypeOK'
    <3>1. tgt' \in [Patches -> Contents]
      <4>1. CASE tgt' = tgt
        BY <4>1 DEF TypeOK
      <4>2. CASE \E c \in Contents : tgt' = [tgt EXCEPT ![p] = c]
        BY <4>2 DEF TypeOK
      <4> QED  BY <2>2, <4>1, <4>2, Zenon DEF FlowCommit
    <3>2. entry' \in [Patches -> Definition \cup Vacant]
      BY <2>2 DEF FlowCommit, TypeOK
    <3>3. reverted' \subseteq Patches /\ lock' \in Tasks \cup Owners
      BY <2>2 DEF FlowCommit, TypeOK, Owners
    <3> QED  BY <2>2, <3>1, <3>2, <3>3 DEF FlowCommit, TypeOK
  <2>3. ASSUME NEW p \in Patches, Delete(p)  PROVE TypeOK'
    BY <2>3 DEF Delete, TypeOK, Vacant
  <2>4. ASSUME NEW r \in Retentions, SaveOptions(r)  PROVE TypeOK'
    BY <2>4 DEF SaveOptions, TypeOK
  <2> QED  BY <1>7, <2>1, <2>2, <2>3, <2>4 DEF Configuration
<1>8. CASE Lifetime
  <2>1. CASE Load
    <3>1. PICK unread \in Unreadable :
            /\ err' = [p \in Patches |-> Restored(p, unread)]
            /\ suppress' = RestoreSuppression(unread)
      BY <2>1 DEF Load
    <3>2. err' \in [Patches -> Errors] /\ suppress' \subseteq Patches
      BY <3>1 DEF Restored, RestoreSuppression, Errors
    <3> QED  BY <2>1, <3>2 DEF Load, Live, TypeOK, Vacant, Phases
  <2>2. CASE Unload \/ UnloadRefused \/ Close
    BY <2>2 DEF Unload, UnloadRefused, Close, TypeOK, Phases
  <2>3. CASE CloseSave
    BY <2>3 DEF CloseSave, TypeOK, Owners, Errors
  <2>4. CASE CloseDone
    BY <2>4 DEF CloseDone, Forget, TypeOK, Owners, Phases, Errors, Vacant
  <2>5. CASE Crash
    BY <2>5 DEF Crash, Forget, TypeOK, Owners, Phases, Errors, Vacant, Steps
  <2> QED  BY <1>8, <2>1, <2>2, <2>3, <2>4, <2>5 DEF Lifetime
<1>9. ASSUME NEW p \in Patches, NEW c \in Contents, TargetWritten(p, c)
      PROVE  TypeOK'
  BY <1>9 DEF TargetWritten, TypeOK
<1>10. CASE UNCHANGED vars
  BY <1>10 DEF vars, TypeOK
<1> QED
  BY <1>1, <1>2, <1>3, <1>4, <1>5, <1>6, <1>7, <1>8, <1>9, <1>10
     DEF Next, Actions

\* What IInv adds to TypeOK.
Core ==
  /\ SerializedActions
  /\ CaptureCurrent
  /\ ClosedIsQuiet
  /\ CloseInDrain
  /\ ResultsUngated
  /\ GateBacked

\* While nobody owns the lock no action is in its locked section.
LEMMA FreeLock ==
  ASSUME TypeOK, SerializedActions, lock \in Owners
  PROVE  busy = {} /\ \A t \in Tasks : pc[t] \in {"idle", "queued"}
BY RuntimeAssumption DEF SerializedActions, TypeOK, Owners, Steps, Critical

\* The owner of the lock is the only action in its locked section.
LEMMA OneOwner ==
  ASSUME TypeOK, SerializedActions, NEW t \in Tasks, pc[t] \in Critical
  PROVE  /\ lock = t
         /\ busy = {job[t].patch}
         /\ \A u \in Tasks : u # t => pc[u] \in {"idle", "queued"}
<1>1. lock = t /\ \A u \in Tasks : u # t => pc[u] \in {"idle", "queued"}
  BY DEF SerializedActions, TypeOK, Steps, Critical
<1>2. job[t].patch \in Patches
  BY DEF TypeOK, Jobs
<1>3. \A p \in Patches : p \in busy <=> p = job[t].patch
  BY <1>1 DEF SerializedActions
<1> QED  BY <1>1, <1>2, <1>3 DEF TypeOK

\* An executor job's report keeps the rest of the invariant: the lock, the
\* captured definition and the gates are untouched.
LEMMA ReportCore ==
  ASSUME IInv, NEW t \in Tasks, NEW denied \in BOOLEAN,
         NEW error \in Errors \ {"revert_metadata_unavailable"},
         NEW mutated \in BOOLEAN, pc[t] = "working",
         Report(t, denied, error, mutated)
  PROVE  Core'
<1> USE DEF IInv, TypeOK, Report, configVars, loadVars, stateVars, storeVars
<1>1. \A u \in Tasks : u # t => job'[u] = job[u] /\ pc'[u] = pc[u]
  OBVIOUS
<1>2. /\ job'[t].patch = job[t].patch /\ job'[t].def = job[t].def
      /\ job'[t].res.error = error /\ pc'[t] = "settling"
  BY DEF Jobs
<1>3. SerializedActions'
  BY <1>1, <1>2 DEF SerializedActions, Critical
<1>4. CaptureCurrent'
  BY <1>1, <1>2 DEF CaptureCurrent
<1>5. ClosedIsQuiet'
  BY <1>1 DEF ClosedIsQuiet
<1>6. CloseInDrain' /\ GateBacked'
  BY DEF CloseInDrain, GateBacked
<1>7. ResultsUngated'
  BY <1>1, <1>2 DEF ResultsUngated
<1> QED  BY <1>3, <1>4, <1>5, <1>6, <1>7 DEF Core

\* Recording an outcome ends the capture and keeps the gates backed, provided
\* the rule is suspended whenever the failed Revert bookkeeping is recorded.
LEMMA RecordCore ==
  ASSUME IInv, NEW t \in Tasks, NEW r \in Results,
         pc[t] \in {"settling", "refreshing"}, RecordAndSave(t, r),
         phase' = phase,
         \A q \in Patches \ {job[t].patch} : q \in suppress => q \in suppress',
         err'[job[t].patch] = "revert_metadata_unavailable" =>
           job[t].patch \in suppress'
  PROVE  Core'
<1> USE DEF IInv, TypeOK
<1>1. /\ lock = t
      /\ \A u \in Tasks : u # t => pc[u] \in {"idle", "queued"}
  BY OneOwner DEF Critical
<1>2. /\ \A u \in Tasks : u # t => job'[u] = job[u] /\ pc'[u] = pc[u]
      /\ job'[t].patch = job[t].patch
      /\ pc'[t] = "saving"
      /\ lock' = lock /\ busy' = busy
  BY IdleJobIsJob DEF RecordAndSave, Jobs
<1>3. \A q \in Patches : q # job[t].patch => err'[q] = err[q]
  BY DEF RecordAndSave
<1>4. SerializedActions'
  BY <1>2 DEF SerializedActions, Critical
<1>5. CaptureCurrent' /\ ResultsUngated'
  BY <1>1, <1>2 DEF CaptureCurrent, ResultsUngated
<1>6. ClosedIsQuiet' /\ CloseInDrain'
  BY <1>1, <1>2 DEF ClosedIsQuiet, CloseInDrain
<1>7. GateBacked'
  BY <1>3 DEF GateBacked
<1> QED  BY <1>4, <1>5, <1>6, <1>7 DEF Core

\* Leaving the locked section keeps the rest of the invariant.
LEMMA LeaveCore ==
  ASSUME IInv, NEW t \in Tasks, pc[t] \in Critical, Leave(t),
         phase' = phase, err' = err, suppress' = suppress
  PROVE  Core'
<1> USE DEF IInv, TypeOK
<1>1. /\ busy = {job[t].patch}
      /\ \A u \in Tasks : u # t => pc[u] \in {"idle", "queued"}
  BY OneOwner
<1>2. /\ \A u \in Tasks : pc'[u] \in {"idle", "queued"}
      /\ lock' = "free" /\ busy' = {}
  BY <1>1 DEF Leave
<1>3. SerializedActions' /\ CaptureCurrent' /\ ResultsUngated'
  BY <1>2, RuntimeAssumption
     DEF SerializedActions, CaptureCurrent, ResultsUngated, Critical, Owners
<1>4. ClosedIsQuiet' /\ CloseInDrain' /\ GateBacked'
  BY <1>2 DEF ClosedIsQuiet, CloseInDrain, GateBacked, Critical, Leave
<1> QED  BY <1>3, <1>4 DEF Core

\* Every step of the runtime and of its surroundings keeps the invariant.
LEMMA CoreStep ==
  ASSUME IInv, [Next]_vars  PROVE Core'
<1> USE RuntimeAssumption
<1> USE DEF configVars, loadVars, stateVars, storeVars, fileVars
<1>0. TypeOK /\ Core /\ \A t \in Tasks : job[t] \in Jobs /\ job[t].patch \in Patches
  BY DEF IInv, Core, TypeOK, Jobs
<1>1. ASSUME NEW t \in Tasks, NEW p \in Patches, NEW a \in Requests,
             Admit(t, p, a)
      PROVE  Core'
  <2>1. /\ \A u \in Tasks : u # t => job'[u] = job[u] /\ pc'[u] = pc[u]
        /\ pc[t] = "idle" /\ pc'[t] = "queued"
        /\ phase = "up" /\ lock # t
    BY <1>0, <1>1 DEF Admit, TypeOK, Core, SerializedActions, Critical
  <2>2. SerializedActions' /\ CaptureCurrent' /\ ResultsUngated'
    BY <1>0, <1>1, <2>1
       DEF Admit, Core, SerializedActions, CaptureCurrent, ResultsUngated, Critical
  <2>3. ClosedIsQuiet' /\ CloseInDrain' /\ GateBacked'
    BY <1>0, <1>1, <2>1 DEF Admit, Core, ClosedIsQuiet, CloseInDrain, GateBacked
  <2> QED  BY <2>2, <2>3 DEF Core
<1>2. ASSUME NEW t \in Tasks, Begin(t)  PROVE Core'
  <2> DEFINE p == job[t].patch
  <2>1. /\ busy = {} /\ \A u \in Tasks : pc[u] \in {"idle", "queued"}
    BY <1>0, <1>2, FreeLock DEF Begin, LockFree, Core, Owners
  <2>2. /\ \A u \in Tasks : u # t => job'[u] = job[u] /\ pc'[u] = pc[u]
        /\ job'[t].patch = p /\ job'[t].def = defs[p] /\ pc'[t] = "working"
        /\ lock' = t /\ busy' = {p}
    BY <1>0, <1>2, <2>1 DEF Begin, TypeOK, Jobs
  <2>3. /\ defs[p] \in Definition /\ entry[p] = defs[p] /\ defs[p].enabled
    BY <1>0, <1>2
       DEF Begin, StillValid, ValidateCurrent, Present, MatchesEntry, Live
  <2>4. SerializedActions'
    BY <1>0, <2>1, <2>2 DEF SerializedActions, Critical
  <2>5. CaptureCurrent' /\ ResultsUngated'
    BY <1>0, <1>2, <2>1, <2>2, <2>3 DEF CaptureCurrent, ResultsUngated, Begin
  <2>6. ClosedIsQuiet' /\ CloseInDrain' /\ GateBacked'
    BY <1>0, <1>2, <2>2
       DEF Begin, Core, ClosedIsQuiet, CloseInDrain, GateBacked, Owners
  <2> QED  BY <2>4, <2>5, <2>6 DEF Core
<1>3. ASSUME NEW t \in Tasks, Reject(t)  PROVE Core'
  <2>1. /\ \A u \in Tasks : u # t => job'[u] = job[u] /\ pc'[u] = pc[u]
        /\ pc[t] = "queued" /\ pc'[t] = "idle" /\ lock # t
    BY <1>0, <1>3 DEF Reject, TypeOK, Core, SerializedActions, Critical
  <2>2. SerializedActions' /\ CaptureCurrent' /\ ResultsUngated'
    BY <1>0, <1>3, <2>1
       DEF Reject, Core, SerializedActions, CaptureCurrent, ResultsUngated, Critical
  <2>3. ClosedIsQuiet' /\ CloseInDrain' /\ GateBacked'
    BY <1>0, <1>3, <2>1 DEF Reject, Core, ClosedIsQuiet, CloseInDrain, GateBacked
  <2> QED  BY <2>2, <2>3 DEF Core
<1>4. ASSUME NEW t \in Tasks, Work(t)  PROVE Core'
  <2>1. CASE WorkDenied(t)
    BY <2>1, ReportCore DEF WorkDenied, Denials, Errors
  <2>2. CASE WorkUnavailable(t)
    BY <2>2, ReportCore DEF WorkUnavailable, Errors, Gates
  <2>3. CASE WorkInspected(t)
    BY <2>3, ReportCore DEF WorkInspected, Errors
  <2>4. CASE WorkRefused(t)
    BY <2>4, ReportCore DEF WorkRefused, Errors
  <2>5. CASE WorkReplaced(t)
    BY <2>5, ReportCore DEF WorkReplaced, Errors, Denials
  <2>6. CASE WorkUnsynced(t)
    BY <2>6, ReportCore DEF WorkUnsynced, Errors, Gates
  <2> QED  BY <1>4, <2>1, <2>2, <2>3, <2>4, <2>5, <2>6 DEF Work
<1>5. ASSUME NEW t \in Tasks, Resume(t)  PROVE Core'
  <2> DEFINE p == job[t].patch
  <2>1. job[t].res \in Results /\ p \in Patches
    BY <1>0 DEF Jobs
  <2>2. CASE Settle(t)
    <3>1. CASE pc' = [pc EXCEPT ![t] = "refreshing"] /\
               UNCHANGED <<job, stateVars, storeVars, lock, busy>>
      BY <1>0, <2>2, <3>1
         DEF Settle, TypeOK, Core, SerializedActions, CaptureCurrent,
             ClosedIsQuiet, CloseInDrain, ResultsUngated, GateBacked, Critical
    <3>2. CASE RecordAndSave(t, job[t].res)
      <4>1. err'[p] = "revert_metadata_unavailable" => p \in suppress
        BY <1>0, <2>1, <2>2, <3>2
           DEF Settle, RecordAndSave, RecordedError, TypeOK, Core, ResultsUngated,
               GateBacked
      <4> QED  BY <2>1, <2>2, <3>2, <4>1, RecordCore DEF Settle
    <3> QED  BY <2>2, <3>1, <3>2 DEF Settle
  <2>3. CASE SettleRevert(t)
    <3>1. err'[p] # "revert_metadata_unavailable"
      BY <1>0, <2>1, <2>3
         DEF SettleRevert, IsSafeRevert, AlreadyReported, RecordAndSave,
             RecordedError, TypeOK, Core, ResultsUngated
    <3> QED  BY <2>1, <2>3, <3>1, RecordCore DEF SettleRevert
  <2>4. CASE SettleRevertUnsaved(t)
    <3>1. [job[t].res EXCEPT !.error = "revert_metadata_unavailable"] \in Results
      BY <2>1 DEF Results, Errors, Gates
    <3> QED  BY <2>1, <2>4, <3>1, RecordCore DEF SettleRevertUnsaved
  <2>5. CASE SettleRevertRemoved(t)
    BY <2>5, LeaveCore DEF SettleRevertRemoved, Critical
  <2>6. CASE Refreshed(t)
    <3>1. err'[p] = "revert_metadata_unavailable" => p \in suppress
      BY <1>0, <2>1, <2>6
         DEF Refreshed, RecordAndSave, RecordedError, TypeOK, Core,
             ResultsUngated, GateBacked
    <3> QED  BY <2>1, <2>6, <3>1, RecordCore DEF Refreshed
  <2>7. CASE Save(t)
    BY <2>7, LeaveCore DEF Save, Critical
  <2> QED  BY <1>5, <2>2, <2>3, <2>4, <2>5, <2>6, <2>7 DEF Resume
<1>6. CASE Watching
  <2>1. /\ UNCHANGED <<lock, busy, pc, job, phase, entry, defs, suppress>>
        /\ \A p \in Patches : err'[p] = "revert_metadata_unavailable" =>
                              err[p] = "revert_metadata_unavailable"
    BY <1>0, <1>6 DEF Watching, WatchAvailable, WatchDenied, TypeOK, Denials
  <2> QED
    BY <1>0, <2>1 DEF Core, SerializedActions, CaptureCurrent, ClosedIsQuiet,
                      CloseInDrain, ResultsUngated, GateBacked
<1>7. CASE Configuration
  <2>1. CASE FlowEnter
    <3>1. busy = {} /\ \A u \in Tasks : pc[u] \in {"idle", "queued"}
      BY <1>0, <2>1, FreeLock DEF FlowEnter, LockFree, Core, Owners
    <3> QED
      BY <1>0, <2>1, <3>1
         DEF FlowEnter, LockFree, Core, SerializedActions, CaptureCurrent,
             ClosedIsQuiet, CloseInDrain, ResultsUngated, GateBacked, Owners, Critical
  <2>2. CASE FlowAbort \/ \E p \in Patches, d \in Definition : FlowCommit(p, d)
    <3>1. /\ lock \in {"flow", "bare_flow"} /\ lock' = "free"
          /\ UNCHANGED <<busy, pc, job, phase, defs, suppress, err>>
      BY <2>2 DEF FlowAbort, FlowCommit
    <3>2. busy = {} /\ \A u \in Tasks : pc[u] \in {"idle", "queued"}
      BY <1>0, <3>1, FreeLock DEF Core, Owners
    <3> QED
      BY <1>0, <3>1, <3>2
         DEF Core, SerializedActions, CaptureCurrent, ClosedIsQuiet,
             CloseInDrain, ResultsUngated, GateBacked, Owners, Critical
  <2>3. ASSUME NEW p \in Patches, Delete(p)  PROVE Core'
    <3>1. \A q \in Patches : entry'[q] \in {entry[q], Removed}
      BY <1>0, <2>3 DEF Delete, TypeOK
    <3> QED
      BY <1>0, <2>3, <3>1
         DEF Delete, Core, SerializedActions, CaptureCurrent, ClosedIsQuiet,
             CloseInDrain, ResultsUngated, GateBacked
  <2>4. ASSUME NEW r \in Retentions, SaveOptions(r)  PROVE Core'
    BY <1>0, <2>4
       DEF SaveOptions, Core, SerializedActions, CaptureCurrent, ClosedIsQuiet,
           CloseInDrain, ResultsUngated, GateBacked
  <2> QED  BY <1>7, <2>1, <2>2, <2>3, <2>4 DEF Configuration
<1>8. CASE Lifetime
  <2>1. CASE Load
    <3>1. \A t \in Tasks : pc[t] = "idle"
      BY <1>0, <2>1 DEF Load, Core, ClosedIsQuiet
    <3>2. GateBacked'
      <4>1. PICK unread \in Unreadable :
              /\ err' = [p \in Patches |-> Restored(p, unread)]
              /\ suppress' = RestoreSuppression(unread)
        BY <2>1 DEF Load
      <4> QED  BY <4>1 DEF GateBacked, RestoreSuppression
    <3> QED
      BY <1>0, <2>1, <3>1, <3>2
         DEF Load, Core, SerializedActions, CaptureCurrent, ClosedIsQuiet,
             CloseInDrain, ResultsUngated
  <2>2. CASE Unload \/ UnloadRefused \/ Close
    BY <1>0, <2>2
       DEF Unload, UnloadRefused, Close, Core, SerializedActions, CaptureCurrent,
           ClosedIsQuiet, CloseInDrain, ResultsUngated, GateBacked
  <2>3. CASE CloseSave
    <3>1. busy = {}
      BY <1>0, <2>3, FreeLock DEF CloseSave, LockFree, Core, Owners
    <3> QED
      BY <1>0, <2>3, <3>1
         DEF CloseSave, LockFree, Drained, Core, SerializedActions, CaptureCurrent,
             ClosedIsQuiet, CloseInDrain, ResultsUngated, GateBacked, Owners, Critical
  <2>4. CASE CloseDone
    <3>1. \A t \in Tasks : pc[t] = "idle"
      BY <1>0, <2>4 DEF CloseDone, Core, ClosedIsQuiet
    <3> QED
      BY <1>0, <2>4, <3>1
         DEF CloseDone, Forget, Core, SerializedActions, CaptureCurrent,
             ClosedIsQuiet, CloseInDrain, ResultsUngated, GateBacked, Owners, Critical
  <2>5. CASE Crash
    BY <1>0, <2>5
       DEF Crash, Forget, Core, SerializedActions, CaptureCurrent, ClosedIsQuiet,
           CloseInDrain, ResultsUngated, GateBacked, Owners, Critical
  <2> QED  BY <1>8, <2>1, <2>2, <2>3, <2>4, <2>5 DEF Lifetime
<1>9. CASE UNCHANGED vars \/ \E p \in Patches, c \in Contents : TargetWritten(p, c)
  BY <1>0, <1>9
     DEF vars, TargetWritten, Core, SerializedActions, CaptureCurrent,
         ClosedIsQuiet, CloseInDrain, ResultsUngated, GateBacked
<1> QED
  BY <1>1, <1>2, <1>3, <1>4, <1>5, <1>6, <1>7, <1>8, <1>9 DEF Next, Actions

-----------------------------------------------------------------------------
\* The inductive invariant: holds initially and is kept by every step.
THEOREM Invariance == Spec => []IInv
<1>1. Init => IInv
  <2> SUFFICES ASSUME Init PROVE IInv
    OBVIOUS
  <2>1. TypeOK
    BY RuntimeAssumption, IdleJobIsJob
       DEF Init, TypeOK, Vacant, Phases, Owners, Errors, Steps, Contents
  <2> QED
    BY <2>1, RuntimeAssumption
       DEF Init, IInv, SerializedActions, CaptureCurrent, ClosedIsQuiet,
           CloseInDrain, ResultsUngated, GateBacked, Owners, Critical
<1>2. IInv /\ [Next]_vars => IInv'
  BY TypeStep, CoreStep DEF IInv, Core
<1> QED  BY <1>1, <1>2, PTL DEF Spec

\* Every variable keeps its type.
THEOREM TypeCorrect == Spec => []TypeOK
<1>1. IInv => TypeOK  BY DEF IInv
<1> QED  BY <1>1, Invariance, PTL

\* Actions are serialised: the operation lock admits one action to its locked
\* section, whatever is queued, saved, closed or crashes around it.
THEOREM Serialization == Spec => []SerializedActions
<1>1. IInv => SerializedActions  BY DEF IInv
<1> QED  BY <1>1, Invariance, PTL

\* A drained runtime is quiet: no action is left when the final save starts and
\* none exists while no runtime is loaded.
THEOREM DrainedTeardown == Spec => []ClosedIsQuiet
<1>1. IInv => ClosedIsQuiet  BY DEF IInv
<1> QED  BY <1>1, Invariance, PTL

\* The reported failure of Revert's bookkeeping is backed by suppression, also
\* in a runtime that only read it back from storage.
THEOREM GateIsBacked == Spec => []GateBacked
<1>1. IInv => GateBacked  BY DEF IInv
<1> QED  BY <1>1, Invariance, PTL

\* Only the executor job of a working action makes it report.
LEMMA OnlyWorkReports ==
  ASSUME TypeOK, [Next]_vars, NEW t \in Tasks,
         pc[t] = "working", pc'[t] = "settling"
  PROVE  Work(t)
<1> USE DEF configVars, loadVars, stateVars, storeVars, fileVars, TypeOK
<1>1. ~UNCHANGED pc
  OBVIOUS
<1>2. CASE Actions
  <2>1. ASSUME NEW u \in Tasks, NEW p \in Patches, NEW a \in Requests,
               Admit(u, p, a)
        PROVE  FALSE
    BY <2>1 DEF Admit
  <2>2. ASSUME NEW u \in Tasks, Begin(u) \/ Reject(u)  PROVE FALSE
    BY <2>2 DEF Begin, Reject
  <2>3. ASSUME NEW u \in Tasks, Resume(u)  PROVE FALSE
    <3>1. pc' \in {pc, [pc EXCEPT ![u] = "refreshing"],
                   [pc EXCEPT ![u] = "saving"], [pc EXCEPT ![u] = "idle"]}
      BY <2>3
         DEF Resume, Settle, SettleRevert, SettleRevertUnsaved,
             SettleRevertRemoved, Refreshed, Save, RecordAndSave, Leave
    <3> QED  BY <3>1
  <2>4. ASSUME NEW u \in Tasks, Work(u)  PROVE u = t
    <3>1. pc' = [pc EXCEPT ![u] = "settling"]
      BY <2>4
         DEF Work, WorkDenied, WorkUnavailable, WorkInspected, WorkRefused,
             WorkReplaced, WorkUnsynced, Report
    <3> QED  BY <3>1
  <2> QED  BY <1>2, <2>1, <2>2, <2>3, <2>4 DEF Actions
<1>3. CASE Watching
  BY <1>1, <1>3 DEF Watching, WatchAvailable, WatchDenied
<1>4. CASE Configuration
  BY <1>1, <1>4 DEF Configuration, FlowEnter, FlowCommit, FlowAbort, Delete,
                    SaveOptions
<1>5. CASE Lifetime
  BY <1>1, <1>5 DEF Lifetime, Load, Unload, UnloadRefused, Close, CloseSave,
                    CloseDone, Crash, Forget
<1> QED
  BY <1>1, <1>2, <1>3, <1>4, <1>5 DEF Next, TargetWritten, vars

\* A job that reports a replacement in this step has made one.
LEMMA OnlyReplacementsAreWrites ==
  ASSUME IInv, [Next]_vars, NEW t \in Tasks, Wrote(t)
  PROVE  WorkReplaced(t) \/ WorkUnsynced(t)
<1>1. Work(t) /\ job'[t].res.mutated
  BY OnlyWorkReports DEF Wrote, IInv
<1>2. ASSUME NEW denied, NEW error, Report(t, denied, error, FALSE)
      PROVE  ~job'[t].res.mutated
  BY <1>2 DEF Report, IInv, TypeOK, Jobs
<1> QED
  BY <1>1, <1>2
     DEF Work, WorkDenied, WorkUnavailable, WorkInspected, WorkRefused

\* A step that writes a target does so for the rule saved at that moment.
THEOREM WritesFollow == Spec => WritesFollowSavedRule
<1> DEFINE Follows ==
      \A t \in Tasks : Wrote(t) =>
        LET d == entry[job[t].patch] IN
        d \in Definition =>
          /\ d = job[t].def
          /\ d.enabled
          /\ job[t].act = "reconcile" => d.auto
<1>1. IInv /\ [Next]_vars => Follows
  <2> SUFFICES ASSUME IInv, [Next]_vars, NEW t \in Tasks, Wrote(t),
                      entry[job[t].patch] \in Definition
               PROVE  LET d == entry[job[t].patch] IN
                      /\ d = job[t].def
                      /\ d.enabled
                      /\ job[t].act = "reconcile" => d.auto
    OBVIOUS
  <2>1. /\ entry[job[t].patch] = job[t].def
        /\ job[t].def.enabled
    BY RuntimeAssumption DEF IInv, CaptureCurrent, Wrote, Vacant
  <2>2. WorkReplaced(t) \/ WorkUnsynced(t)
    BY OnlyReplacementsAreWrites
  <2>3. HasOutput(job[t].def, tgt[job[t].patch], job[t].act)
    BY <2>2 DEF WorkReplaced, WorkUnsynced
  <2> QED  BY <2>1, <2>3 DEF HasOutput
<1> QED  BY <1>1, Invariance, PTL DEF Spec, WritesFollowSavedRule

-----------------------------------------------------------------------------
(***************************************************************************)
(* PatchRuntime implements RuleContract, for any rules, slots and faults.  *)
(* The contract's rule is the saved one except while an action's outcome   *)
(* is open; what it sees is therefore computed for two kinds of state,     *)
(* with and without such an action, and each step is one of: none of it    *)
(* seen, a write, the end of an outcome, or a rule saved or deleted.       *)
(***************************************************************************)

\* The stretch in which an action's outcome is still open.
InFlight == {"working", "settling"}

\* What RuleContract sees of the runtime.
RuleView == [p \in Patches |-> RuleOf(p)]
WriterView == [p \in Patches |-> WriterOf(p)]
Nobody == [p \in Patches |-> "nobody"]

\* On whose account the action t has replaced its target.
Account(t) ==
  IF job[t].res.mutated
    THEN IF job[t].act = "reconcile" THEN "check" ELSE "request"
    ELSE "nobody"

\* Only an action whose executor job has ended has a replacement to report.
Unreported ==
  \A t \in Tasks : pc[t] \in {"idle", "queued", "working"} => ~job[t].res.mutated

\* No step puts a replacement into the job of an action that has not reported.
LEMMA UnreportedStep ==
  ASSUME TypeOK, Unreported, [Next]_vars  PROVE Unreported'
<1> USE DEF configVars, loadVars, stateVars, storeVars, fileVars
<1>0. /\ pc \in [Tasks -> Steps] /\ job \in [Tasks -> Jobs]
      /\ IdleJob \in Jobs /\ IdleJob.res.mutated = FALSE
  BY IdleJobIsJob DEF TypeOK, IdleJob, NoResult
<1>1. ASSUME NEW t \in Tasks, NEW p \in Patches, NEW a \in Requests,
             Admit(t, p, a)
      PROVE  Unreported'
  <2>1. [IdleJob EXCEPT !.patch = p, !.act = a].res.mutated = FALSE
    BY <1>0 DEF Jobs
  <2> QED  BY <1>0, <1>1, <2>1 DEF Admit, Unreported
<1>2. ASSUME NEW t \in Tasks, Begin(t)  PROVE Unreported'
  <2>1. job'[t].res = job[t].res
    BY <1>0, <1>2 DEF Begin, Jobs
  <2> QED  BY <1>0, <1>2, <2>1 DEF Begin, Unreported
<1>3. ASSUME NEW t \in Tasks, Reject(t) \/ Leave(t)  PROVE Unreported'
  BY <1>0, <1>3 DEF Reject, Leave, Unreported
<1>4. ASSUME NEW t \in Tasks, Work(t)  PROVE Unreported'
  <2>1. PICK r : /\ pc' = [pc EXCEPT ![t] = "settling"]
                 /\ job' = [job EXCEPT ![t].res = r]
    BY <1>4 DEF Work, WorkDenied, WorkUnavailable, WorkInspected, WorkRefused,
                WorkReplaced, WorkUnsynced, Report
  <2> QED  BY <1>0, <2>1 DEF Unreported
<1>5. ASSUME NEW t \in Tasks, Resume(t), ~Leave(t)  PROVE Unreported'
  <2>1. /\ pc' \in {[pc EXCEPT ![t] = "refreshing"], [pc EXCEPT ![t] = "saving"]}
        /\ \A u \in Tasks : u # t => job'[u] = job[u]
    BY <1>0, <1>5
       DEF Resume, Settle, SettleRevert, SettleRevertUnsaved,
           SettleRevertRemoved, Refreshed, Save, RecordAndSave
  <2> QED  BY <1>0, <2>1 DEF Unreported
<1>6. CASE UNCHANGED <<pc, job>>
  BY <1>6 DEF Unreported
<1>7. CASE Crash
  BY <1>0, <1>7 DEF Crash, Unreported
<1>8. CASE Actions
  BY <1>1, <1>2, <1>3, <1>4, <1>5, <1>8 DEF Actions
<1>9. CASE Watching
  BY <1>6, <1>9 DEF Watching, WatchAvailable, WatchDenied
<1>10. CASE Configuration
  BY <1>6, <1>10
     DEF Configuration, FlowEnter, FlowCommit, FlowAbort, Delete, SaveOptions
<1>11. CASE Lifetime
  BY <1>6, <1>7, <1>11
     DEF Lifetime, Load, Unload, UnloadRefused, Close, CloseSave, CloseDone
<1> QED
  BY <1>6, <1>8, <1>9, <1>10, <1>11 DEF Next, TargetWritten, vars

\* While no outcome is open the contract sees the saved rules and no write.
LEMMA ViewAtRest ==
  TypeOK /\ (\A t \in Tasks : pc[t] \notin InFlight)
    => RuleView = entry /\ WriterView = Nobody
<1> SUFFICES ASSUME TypeOK, \A t \in Tasks : pc[t] \notin InFlight
             PROVE  RuleView = entry /\ WriterView = Nobody
  OBVIOUS
<1>1. \A p \in Patches : InHand(p) = {}
  BY DEF InHand, InFlight
<1>2. \A p \in Patches : RuleOf(p) = entry[p] /\ WriterOf(p) = "nobody"
  BY <1>1 DEF RuleOf, WriterOf
<1> QED  BY <1>2 DEF RuleView, WriterView, Nobody, TypeOK

\* An open outcome shows its rule as captured, and its write if it made one.
LEMMA ViewInFlight ==
  \A t \in Tasks :
    /\ TypeOK
    /\ pc[t] \in InFlight
    /\ \A u \in Tasks : u # t => pc[u] \notin InFlight
    => /\ RuleView = [entry EXCEPT ![job[t].patch] = job[t].def]
       /\ WriterView = [Nobody EXCEPT ![job[t].patch] = Account(t)]
<1> SUFFICES ASSUME NEW t \in Tasks, TypeOK, pc[t] \in InFlight,
                    \A u \in Tasks : u # t => pc[u] \notin InFlight
             PROVE  /\ RuleView = [entry EXCEPT ![job[t].patch] = job[t].def]
                    /\ WriterView = [Nobody EXCEPT ![job[t].patch] = Account(t)]
  OBVIOUS
<1>1. InHand(job[t].patch) = {t}
  BY DEF InHand, InFlight
<1>2. \A p \in Patches : p # job[t].patch => InHand(p) = {}
  BY DEF InHand, InFlight
<1>3. (CHOOSE u \in {t} : TRUE) = t
  OBVIOUS
<1>4. /\ RuleOf(job[t].patch) = job[t].def
      /\ WriterOf(job[t].patch) = Account(t)
  BY <1>1, <1>3 DEF RuleOf, WriterOf, Account
<1>5. \A p \in Patches : p # job[t].patch =>
        RuleOf(p) = entry[p] /\ WriterOf(p) = "nobody"
  BY <1>2 DEF RuleOf, WriterOf
<1> QED  BY <1>4, <1>5 DEF RuleView, WriterView, Nobody, TypeOK

\* What ViewAtRest says, of the state after a step.
LEMMA ViewAtRestNext ==
  (TypeOK /\ (\A t \in Tasks : pc[t] \notin InFlight)
    => RuleView = entry /\ WriterView = Nobody)'
BY ViewAtRest, PTL

\* What ViewInFlight says, of the state after a step.
LEMMA ViewInFlightNext ==
  (\A t \in Tasks :
    /\ TypeOK
    /\ pc[t] \in InFlight
    /\ \A u \in Tasks : u # t => pc[u] \notin InFlight
    => /\ RuleView = [entry EXCEPT ![job[t].patch] = job[t].def]
       /\ WriterView = [Nobody EXCEPT ![job[t].patch] = Account(t)])'
BY ViewInFlight, PTL

\* A step in which the open outcomes stay as they are shows no change of its own.
LEMMA SameFlight ==
  ASSUME entry' = entry,
         \A t \in Tasks : pc'[t] \in InFlight <=> pc[t] \in InFlight,
         \A t \in Tasks : pc[t] \in InFlight => job'[t] = job[t]
  PROVE  RuleView' = RuleView /\ WriterView' = WriterView
<1> SUFFICES ASSUME NEW p \in Patches
             PROVE  RuleOf(p)' = RuleOf(p) /\ WriterOf(p)' = WriterOf(p)
  BY DEF RuleView, WriterView
<1>1. InHand(p)' = InHand(p)
  BY DEF InHand, InFlight
<1>2. \A t \in InHand(p) : job'[t] = job[t]
  BY DEF InHand, InFlight
<1>3. InHand(p) # {} => (CHOOSE t \in InHand(p) : TRUE) \in InHand(p)
  OBVIOUS
<1>4. RuleOf(p)' = RuleOf(p)
  BY <1>1, <1>2, <1>3 DEF RuleOf
<1>5. (\E t \in InHand(p) : job[t].res.mutated) => InHand(p) # {}
  OBVIOUS
<1>6. WriterOf(p)' = WriterOf(p)
  BY <1>1, <1>2, <1>3, <1>5 DEF WriterOf
<1> QED  BY <1>4, <1>6

-----------------------------------------------------------------------------
(* What the contract allows, in terms of the views.                         *)

\* A step that changes nothing the contract sees is one it allows.
LEMMA Unseen ==
  ASSUME RuleView' = RuleView, tgt' = tgt, WriterView' = WriterView
  PROVE  [Contract!Next]_(Contract!contractVars)
BY DEF Contract!contractVars, RuleView, WriterView

\* So is a change of a target alone,
LEMMA SeenOutside ==
  ASSUME NEW p \in Patches, NEW c \in Contents, RuleView' = RuleView,
         tgt' = [tgt EXCEPT ![p] = c], WriterView' = WriterView
  PROVE  Contract!Next
BY DEF Contract!Next, Contract!WriteOutside, RuleView, WriterView, Contents,
       Contract!Contents

\* the end of a write,
LEMMA SeenClose ==
  ASSUME NEW p \in Patches, WriterView[p] # "nobody", RuleView' = RuleView,
         tgt' = tgt, WriterView' = [WriterView EXCEPT ![p] = "nobody"]
  PROVE  Contract!Next
BY DEF Contract!Next, Contract!CloseWrite, RuleView, WriterView

\* the removal of a rule,
LEMMA SeenRemove ==
  ASSUME NEW p \in Patches, RuleView[p] \in Definition, tgt' = tgt,
         RuleView' = [RuleView EXCEPT ![p] = Removed],
         WriterView' = [WriterView EXCEPT ![p] = "nobody"]
  PROVE  Contract!Next
BY DEF Contract!Next, Contract!Remove, Contract!Exists, RuleView, WriterView

\* the end of automatic application,
LEMMA SeenAutoOff ==
  ASSUME NEW p \in Patches, RuleView[p] \in Definition, RuleView[p].enabled,
         tgt' = tgt,
         RuleView' = [RuleView EXCEPT ![p] = [@ EXCEPT !.auto = FALSE]],
         WriterView' = [WriterView EXCEPT ![p] = "nobody"]
  PROVE  Contract!Next
BY DEF Contract!Next, Contract!TurnAutoOff, Contract!Enabled, Contract!Exists,
       RuleView, WriterView

\* the save of a rule while nothing is written,
LEMMA SeenConfigure ==
  ASSUME NEW p \in Patches, NEW d \in Definition, NEW c \in Contents,
         WriterView = Nobody, WriterView' = Nobody, RuleView[p] # Removed,
         RuleView' = [RuleView EXCEPT ![p] = d], tgt' = [tgt EXCEPT ![p] = c]
  PROVE  Contract!Next
BY DEF Contract!Next, Contract!Configure, Contract!NoOpenWrite, RuleView,
       WriterView, Nobody, Contents, Contract!Contents

\* and a write through a rule that is saved and enabled.
LEMMA SeenWrite ==
  ASSUME NEW p \in Patches, NEW a \in Acts,
         WriterView = Nobody, RuleView' = RuleView,
         RuleView[p] \in Definition, RuleView[p].enabled,
         HasOutput(RuleView[p], tgt[p], a),
         tgt' = [tgt EXCEPT ![p] = Output(a)],
         WriterView' = [WriterView EXCEPT
           ![p] = IF a = "reconcile" THEN "check" ELSE "request"]
  PROVE  Contract!Next
<1> USE DEF Contract!Enabled, Contract!Exists, Contract!Rewrite,
            Contract!NoOpenWrite, RuleView, WriterView, Nobody, HasOutput, Output
<1>1. CASE a = "reconcile"
  BY <1>1 DEF Contract!Next, Contract!AutoApply
<1>2. CASE a = "apply"
  BY <1>2 DEF Contract!Next, Contract!ApplyOnRequest
<1>3. CASE a = "revert"
  BY <1>3 DEF Contract!Next, Contract!RevertOnRequest
<1> QED  BY <1>1, <1>2, <1>3

-----------------------------------------------------------------------------
(* What the actions show of themselves.                                     *)

\* The one open outcome is recorded or lost: the contract sees its write end,
\* its rule removed, or nothing.
LEMMA OutcomeEnds ==
  ASSUME IInv, TypeOK', NEW t \in Tasks, pc[t] \in InFlight,
         \A u \in Tasks : pc'[u] \notin InFlight, entry' = entry, tgt' = tgt
  PROVE  [Contract!Next]_(Contract!contractVars)
<1> DEFINE p == job[t].patch
           d == job[t].def
<1>0. /\ TypeOK /\ p \in Patches /\ d \in Definition
      /\ entry[p] \in {d, Removed}
      /\ \A u \in Tasks : u # t => pc[u] \notin InFlight
  BY OneOwner DEF IInv, TypeOK, Jobs, InFlight, Critical, CaptureCurrent
<1>1. /\ RuleView = [entry EXCEPT ![p] = d]
      /\ WriterView = [Nobody EXCEPT ![p] = Account(t)]
  BY <1>0, ViewInFlight
<1>2. RuleView' = entry /\ WriterView' = Nobody'
  BY ViewAtRestNext
<1>3. Nobody' = Nobody
  BY DEF Nobody
<1>4. entry \in [Patches -> Definition \cup Vacant] /\ Nobody \in [Patches -> {"nobody"}]
  BY <1>0 DEF TypeOK, Nobody
<1> HIDE DEF p, d
<1>5. CASE entry[p] = Removed
  BY <1>0, <1>1, <1>2, <1>3, <1>4, <1>5, SeenRemove
<1>6. CASE entry[p] = d
  <2>1. RuleView' = RuleView
    BY <1>0, <1>1, <1>2, <1>4, <1>6
  <2>2. CASE Account(t) = "nobody"
    BY <1>0, <1>1, <1>2, <1>3, <1>4, <2>1, <2>2, Unseen
  <2>3. CASE Account(t) # "nobody"
    BY <1>0, <1>1, <1>2, <1>3, <1>4, <2>1, <2>3, SeenClose
  <2> QED  BY <2>2, <2>3
<1> QED  BY <1>0, <1>5, <1>6

\* The step that makes an action's outcome open: its rule is the saved one.
LEMMA BeginSeen ==
  ASSUME IInv, TypeOK', Unreported', NEW t \in Tasks, Begin(t)
  PROVE  [Contract!Next]_(Contract!contractVars)
<1> DEFINE p == job[t].patch
<1>0. /\ TypeOK /\ p \in Patches /\ job \in [Tasks -> Jobs]
      /\ \A u \in Tasks : pc[u] \notin InFlight
  BY FreeLock DEF IInv, TypeOK, Jobs, Begin, LockFree, Owners, InFlight
<1>1. /\ RuleView = entry /\ WriterView = Nobody
  BY <1>0, ViewAtRest
<1>2. /\ pc'[t] \in InFlight
      /\ \A u \in Tasks : u # t => pc'[u] \notin InFlight
      /\ job'[t].patch = p /\ job'[t].def = defs[p]
      /\ UNCHANGED <<entry, tgt>>
  BY <1>0 DEF Begin, TypeOK, Jobs, InFlight, configVars, fileVars
<1>3. entry[p] = defs[p]
  BY <1>0 DEF Begin, StillValid, ValidateCurrent, Present, MatchesEntry, Live
<1>4. Account(t)' = "nobody" /\ Nobody' = Nobody
  BY <1>0 DEF Account, Unreported, Begin, TypeOK, Nobody
<1>5. /\ RuleView' = [entry' EXCEPT ![p] = defs[p]]
      /\ WriterView' = [Nobody' EXCEPT ![p] = Account(t)']
  BY <1>2, ViewInFlightNext
<1>6. entry \in [Patches -> Definition \cup Vacant] /\ Nobody \in [Patches -> {"nobody"}]
  BY <1>0 DEF TypeOK, Nobody
<1> HIDE DEF p
<1> QED  BY <1>0, <1>1, <1>2, <1>3, <1>4, <1>5, <1>6, Unseen

\* An executor job's report shows the write it made, and nothing else.
LEMMA WorkSeen ==
  ASSUME IInv, Unreported, TypeOK', NEW t \in Tasks, Work(t)
  PROVE  [Contract!Next]_(Contract!contractVars)
<1> DEFINE p == job[t].patch
           d == job[t].def
<1>0. /\ TypeOK /\ p \in Patches /\ d \in Definition /\ d.enabled
      /\ job \in [Tasks -> Jobs] /\ job[t].act \in Acts
      /\ pc[t] = "working"
      /\ \A u \in Tasks : u # t => pc[u] \notin InFlight
  <2>1. pc[t] = "working"
    BY DEF Work, WorkDenied, WorkUnavailable, WorkInspected, WorkRefused,
           WorkReplaced, WorkUnsynced
  <2> QED  BY <2>1, OneOwner DEF IInv, TypeOK, Jobs, InFlight, Critical, CaptureCurrent
<1>1. PICK denied, error, mutated :
        /\ Report(t, denied, error, mutated)
        /\ \/ mutated = FALSE /\ tgt' = tgt
           \/ /\ mutated = TRUE
              /\ HasOutput(d, tgt[p], job[t].act)
              /\ tgt' = [tgt EXCEPT ![p] = Output(job[t].act)]
  <2>1. CASE WorkDenied(t) \/ WorkUnavailable(t)
    BY <2>1 DEF WorkDenied, WorkUnavailable, fileVars
  <2>2. CASE WorkInspected(t) \/ WorkRefused(t)
    BY <2>2 DEF WorkInspected, WorkRefused
  <2>3. CASE WorkReplaced(t)
    BY <2>3 DEF WorkReplaced
  <2>4. CASE WorkUnsynced(t)
    BY <2>4 DEF WorkUnsynced
  <2> QED  BY <2>1, <2>2, <2>3, <2>4 DEF Work
<1>2. /\ pc'[t] \in InFlight
      /\ \A u \in Tasks : u # t => pc'[u] \notin InFlight
      /\ job'[t].patch = p /\ job'[t].def = d /\ job'[t].act = job[t].act
      /\ job'[t].res.mutated = mutated /\ entry' = entry
  BY <1>0, <1>1 DEF Report, TypeOK, Jobs, InFlight, configVars
<1>3. RuleView = [entry EXCEPT ![p] = d] /\ WriterView = Nobody
  <2>1. Account(t) = "nobody"
    BY <1>0 DEF Account, Unreported
  <2>2. /\ RuleView = [entry EXCEPT ![p] = d]
        /\ WriterView = [Nobody EXCEPT ![p] = Account(t)]
    BY <1>0, ViewInFlight DEF InFlight
  <2> QED  BY <2>1, <2>2 DEF Nobody
<1>4. /\ RuleView' = [entry' EXCEPT ![p] = d]
      /\ WriterView' = [Nobody' EXCEPT ![p] = Account(t)']
  BY <1>2, ViewInFlightNext
<1>5. /\ Nobody' = Nobody /\ Nobody = [Nobody EXCEPT ![p] = "nobody"]
      /\ Account(t)' = IF mutated
                         THEN IF job[t].act = "reconcile" THEN "check" ELSE "request"
                         ELSE "nobody"
  BY <1>2 DEF Account, Nobody
<1>6. entry \in [Patches -> Definition \cup Vacant]
  BY <1>0 DEF TypeOK
<1>7. RuleView' = RuleView /\ RuleView[p] = d
  BY <1>0, <1>2, <1>3, <1>4, <1>6
<1> HIDE DEF p, d
<1>8. CASE mutated = FALSE /\ tgt' = tgt
  <2>1. WriterView' = WriterView
    BY <1>3, <1>4, <1>5, <1>8
  <2> QED  BY <1>7, <1>8, <2>1, Unseen
<1>9. CASE /\ mutated = TRUE
           /\ HasOutput(d, tgt[p], job[t].act)
           /\ tgt' = [tgt EXCEPT ![p] = Output(job[t].act)]
  <2>1. WriterView' = [WriterView EXCEPT
          ![p] = IF job[t].act = "reconcile" THEN "check" ELSE "request"]
    BY <1>3, <1>4, <1>5, <1>9
  <2> QED  BY <1>0, <1>3, <1>7, <1>9, <2>1, SeenWrite
<1> QED  BY <1>1, <1>8, <1>9

\* Back on the loop: an outcome is recorded, a Revert turns automatic
\* application off first, or the open part is already over.
LEMMA ResumeSeen ==
  ASSUME IInv, TypeOK', NEW t \in Tasks, Resume(t)
  PROVE  [Contract!Next]_(Contract!contractVars)
<1> USE DEF configVars, fileVars
<1> DEFINE p == job[t].patch
<1>0. /\ TypeOK /\ p \in Patches
      /\ pc[t] \in Critical
      /\ \A u \in Tasks : u # t => pc[u] \notin InFlight
      /\ pc \in [Tasks -> Steps]
  <2>1. pc[t] \in Critical
    BY DEF Resume, Settle, SettleRevert, SettleRevertUnsaved,
           SettleRevertRemoved, Refreshed, Save, Critical
  <2> QED  BY <2>1, OneOwner DEF IInv, TypeOK, Jobs, InFlight
<1>1. /\ \A u \in Tasks : pc'[u] \notin InFlight
      /\ tgt' = tgt
  <2>1. pc' \in {[pc EXCEPT ![t] = "refreshing"], [pc EXCEPT ![t] = "saving"],
                 [pc EXCEPT ![t] = "idle"]}
        /\ tgt' = tgt
    BY DEF Resume, Settle, SettleRevert, SettleRevertUnsaved,
           SettleRevertRemoved, Refreshed, Save, RecordAndSave, Leave
  <2> QED  BY <1>0, <2>1 DEF InFlight
<1>2. RuleView' = entry' /\ WriterView' = Nobody' /\ Nobody' = Nobody
  BY <1>1, ViewAtRestNext DEF Nobody
<1>3. CASE Refreshed(t) \/ Save(t)
  <2>1. entry' = entry /\ \A u \in Tasks : pc[u] \notin InFlight
    BY <1>0, <1>3 DEF Refreshed, Save, InFlight
  <2> QED  BY <1>0, <1>1, <1>2, <2>1, ViewAtRest, Unseen
<1>4. CASE Settle(t) \/ SettleRevertUnsaved(t) \/ SettleRevertRemoved(t)
  <2>1. entry' = entry /\ pc[t] \in InFlight
    BY <1>4 DEF Settle, SettleRevertUnsaved, SettleRevertRemoved, InFlight
  <2> QED  BY <1>1, <2>1, OutcomeEnds
<1>5. CASE SettleRevert(t)
  <2>1. /\ pc[t] = "settling"
        /\ entry[p] \in Definition
        /\ entry' = [entry EXCEPT ![p] = [defs[p] EXCEPT !.auto = FALSE]]
    BY <1>0, <1>5 DEF SettleRevert, DisableAutoApply, TypeOK
  <2>2. /\ job[t].def = entry[p] /\ defs[p] = entry[p] /\ entry[p].enabled
    BY <2>1, RuntimeAssumption DEF IInv, CaptureCurrent, Vacant
  <2>3. /\ RuleView = [entry EXCEPT ![p] = entry[p]]
        /\ WriterView = [Nobody EXCEPT ![p] = Account(t)]
    BY <1>0, <2>1, <2>2, ViewInFlight DEF InFlight
  <2>4. entry \in [Patches -> Definition \cup Vacant] /\ Nobody \in [Patches -> {"nobody"}]
    BY <1>0 DEF TypeOK, Nobody
  <2>5. RuleView = entry
    BY <1>0, <2>3, <2>4
  <2>6. RuleView' = [RuleView EXCEPT ![p] = [@ EXCEPT !.auto = FALSE]]
    BY <1>0, <1>2, <2>1, <2>2, <2>4, <2>5
  <2>7. WriterView' = [WriterView EXCEPT ![p] = "nobody"]
    BY <1>0, <1>2, <2>3, <2>4
  <2> HIDE DEF p
  <2> QED  BY <1>0, <1>1, <2>1, <2>2, <2>5, <2>6, <2>7, SeenAutoOff
<1> QED  BY <1>3, <1>4, <1>5 DEF Resume

\* Home Assistant deletes a rule: the contract sees it now or, while an outcome
\* of that rule is open, when that outcome ends.
LEMMA DeleteSeen ==
  ASSUME IInv, TypeOK', NEW p \in Patches, Delete(p)
  PROVE  [Contract!Next]_(Contract!contractVars)
<1>0. /\ TypeOK /\ SerializedActions
      /\ entry \in [Patches -> Definition \cup Vacant]
      /\ Nobody \in [Patches -> {"nobody"}] /\ Nobody' = Nobody
      /\ entry' = [entry EXCEPT ![p] = Removed] /\ entry[p] \in Definition
      /\ UNCHANGED <<pc, job, tgt>>
  BY DEF IInv, TypeOK, Nobody, Delete
<1>1. CASE \A u \in Tasks : pc[u] \notin InFlight
  <2>1. /\ RuleView = entry /\ WriterView = Nobody
        /\ RuleView' = entry' /\ WriterView' = Nobody
    BY <1>0, <1>1, ViewAtRest, ViewAtRestNext
  <2>2. Nobody = [Nobody EXCEPT ![p] = "nobody"]
    BY <1>0
  <2> QED  BY <1>0, <2>1, <2>2, SeenRemove
<1>2. ASSUME NEW t \in Tasks, pc[t] \in InFlight
      PROVE  [Contract!Next]_(Contract!contractVars)
  <2> DEFINE q == job[t].patch
             d == job[t].def
             a == Account(t)
  <2>1. /\ \A u \in Tasks : u # t => pc[u] \notin InFlight
        /\ q \in Patches
    BY <1>0, <1>2, OneOwner DEF TypeOK, Jobs, InFlight, Critical
  <2>2. /\ RuleView = [entry EXCEPT ![q] = d]
        /\ WriterView = [Nobody EXCEPT ![q] = a]
    BY <1>0, <1>2, <2>1, ViewInFlight
  <2>3. /\ RuleView' = [entry' EXCEPT ![job'[t].patch] = job'[t].def]
        /\ WriterView' = [Nobody' EXCEPT ![job'[t].patch] = Account(t)']
    BY <1>0, <1>2, <2>1, ViewInFlightNext
  <2>4. Account(t)' = a
    BY <1>0 DEF Account
  <2>5. RuleView' = [entry' EXCEPT ![q] = d] /\ WriterView' = WriterView
    BY <1>0, <2>2, <2>3, <2>4
  <2> HIDE DEF q, d, a
  <2>6. CASE p = q
    BY <1>0, <2>1, <2>2, <2>5, <2>6, Unseen
  <2>7. CASE p # q
    <3>1. RuleView' = [RuleView EXCEPT ![p] = Removed] /\ RuleView[p] = entry[p]
      BY <1>0, <2>1, <2>2, <2>5, <2>7
    <3>2. WriterView' = [WriterView EXCEPT ![p] = "nobody"]
      BY <1>0, <2>1, <2>2, <2>5, <2>7
    <3> QED  BY <1>0, <3>1, <3>2, SeenRemove
  <2> QED  BY <2>6, <2>7
<1> QED  BY <1>1, <1>2

\* A flow saves a rule while it holds the lock, so nothing is open.
LEMMA CommitSeen ==
  ASSUME IInv, TypeOK', NEW p \in Patches, NEW d \in Definition, FlowCommit(p, d)
  PROVE  [Contract!Next]_(Contract!contractVars)
<1>1. TypeOK /\ \A u \in Tasks : pc[u] \notin InFlight
  BY FreeLock DEF IInv, FlowCommit, Owners, InFlight
<1>2. /\ UNCHANGED pc
      /\ entry' = [entry EXCEPT ![p] = d] /\ entry[p] # Removed
  BY DEF FlowCommit
<1>3. /\ RuleView = entry /\ WriterView = Nobody
      /\ RuleView' = entry' /\ WriterView' = Nobody
  BY <1>1, <1>2, ViewAtRest, ViewAtRestNext DEF Nobody
<1>4. PICK c \in Contents : tgt' = [tgt EXCEPT ![p] = c]
  <2>1. CASE tgt' = tgt
    BY <1>1, <2>1 DEF TypeOK
  <2>2. CASE \E c \in Contents : tgt' = [tgt EXCEPT ![p] = c]
    BY <2>2
  <2> QED  BY <2>1, <2>2, Zenon DEF FlowCommit
<1> QED  BY <1>2, <1>3, <1>4, SeenConfigure

\* Every step of the runtime is one the contract allows, or invisible to it.
LEMMA ContractStep ==
  ASSUME IInv, Unreported, TypeOK', Unreported', [Next]_vars
  PROVE  [Contract!Next]_(Contract!contractVars)
<1> USE DEF configVars, loadVars, stateVars, storeVars, fileVars
<1>0. TypeOK /\ pc \in [Tasks -> Steps] /\ job \in [Tasks -> Jobs]
  BY DEF IInv, TypeOK
<1>1. CASE UNCHANGED <<pc, job, entry, tgt>>
  BY <1>1, SameFlight, Unseen
<1>2. ASSUME NEW t \in Tasks, NEW p \in Patches, NEW a \in Requests,
             Admit(t, p, a)
      PROVE  [Contract!Next]_(Contract!contractVars)
  BY <1>0, <1>2, SameFlight, Unseen DEF Admit, InFlight
<1>3. ASSUME NEW t \in Tasks, Reject(t)
      PROVE  [Contract!Next]_(Contract!contractVars)
  BY <1>0, <1>3, SameFlight, Unseen DEF Reject, InFlight
<1>4. CASE Actions
  BY <1>2, <1>3, <1>4, BeginSeen, WorkSeen, ResumeSeen DEF Actions
<1>5. CASE Watching
  BY <1>1, <1>5 DEF Watching, WatchAvailable, WatchDenied
<1>6. CASE Configuration
  <2>1. CASE FlowEnter \/ FlowAbort \/ \E r \in Retentions : SaveOptions(r)
    BY <1>1, <2>1 DEF FlowEnter, FlowAbort, SaveOptions
  <2> QED  BY <1>6, <2>1, CommitSeen, DeleteSeen DEF Configuration
<1>7. CASE Crash
  <2>1. entry' = entry /\ tgt' = tgt /\ \A u \in Tasks : pc'[u] \notin InFlight
    BY <1>7 DEF Crash, InFlight
  <2>2. CASE \E t \in Tasks : pc[t] \in InFlight
    BY <2>1, <2>2, OutcomeEnds
  <2>3. CASE \A t \in Tasks : pc[t] \notin InFlight
    BY <2>1, <2>3, SameFlight, Unseen
  <2> QED  BY <2>2, <2>3
<1>8. CASE Lifetime
  BY <1>1, <1>7, <1>8
     DEF Lifetime, Load, Unload, UnloadRefused, Close, CloseSave, CloseDone
<1>9. ASSUME NEW p \in Patches, NEW c \in Contents, TargetWritten(p, c)
      PROVE  [Contract!Next]_(Contract!contractVars)
  <2>1. RuleView' = RuleView /\ WriterView' = WriterView
    BY <1>9, SameFlight DEF TargetWritten
  <2> QED  BY <1>9, <2>1, SeenOutside DEF TargetWritten
<1> QED
  BY <1>1, <1>4, <1>5, <1>6, <1>8, <1>9 DEF Next, vars

-----------------------------------------------------------------------------
\* The runtime keeps the contract: whatever is queued, retried, reloaded or
\* lost, targets are written one at a time, through the rule saved at that
\* moment, and automatically only while that rule says so.
THEOREM ContractKept == Spec => ImplementsContract
<1>1. Init => Unreported
  BY IdleJobIsJob DEF Init, Unreported, IdleJob, NoResult
<1>2. IInv /\ Unreported /\ [Next]_vars => Unreported'
  BY UnreportedStep DEF IInv
<1>3. Init /\ IInv => Contract!Init
  <2> SUFFICES ASSUME Init, IInv  PROVE Contract!Init
    OBVIOUS
  <2>1. RuleView = entry /\ WriterView = Nobody
    BY ViewAtRest DEF Init, IInv, InFlight
  <2> QED
    BY <2>1 DEF Init, Contract!Init, RuleView, WriterView, Nobody, Contents,
                Contract!Contents, Vacant
<1>4. IInv /\ IInv' /\ Unreported /\ Unreported' /\ [Next]_vars
        => [Contract!Next]_(Contract!contractVars)
  BY ContractStep DEF IInv
<1> QED
  BY <1>1, <1>2, <1>3, <1>4, Invariance, PTL
     DEF Spec, ImplementsContract, Contract!Spec

-----------------------------------------------------------------------------
(***************************************************************************)
(* A missing flush stays reported.  Two kinds of faults break this, and    *)
(* the theorem excludes no more than them: a Revert whose bookkeeping      *)
(* fails overwrites the report, and a stored image that was not written or *)
(* cannot be read matters once a reload or a crash makes a later runtime   *)
(* depend on it.                                                           *)
(***************************************************************************)
StoreSound ==
  /\ "meta_fails" \notin Faults
  /\ Faults \cap {"save_lost", "load_fails"} # {} =>
       Faults \cap {"crash", "reload"} = {}

\* What of a missing flush the record of an outcome carries on.
Owed(p) == p \in debt /\ entry[p] \in Definition

\* An executor job clears the debt, or reports it, or is denied and leaves the
\* earlier report in place.
LEMMA ReportDebt ==
  ASSUME IInv, DebtInv, NEW t \in Tasks, Work(t)
  PROVE  DebtInv'
<1> DEFINE p == job[t].patch
           r == job'[t].res
<1> USE DEF configVars, loadVars, stateVars, storeVars, fileVars
<1>0. TypeOK /\ SerializedActions /\ p \in Patches /\ job[t] \in Jobs
  BY DEF IInv, TypeOK, Jobs
<1>1. /\ pc[t] = "working" /\ pc'[t] = "settling"
      /\ job'[t].patch = p /\ job'[t].pending = job[t].pending
      /\ \A u \in Tasks : u # t => job'[u] = job[u] /\ pc'[u] = pc[u]
      /\ UNCHANGED <<configVars, loadVars, lock, busy, suppress, stateVars, storeVars>>
  BY <1>0
     DEF Work, WorkDenied, WorkUnavailable, WorkInspected, WorkRefused,
         WorkReplaced, WorkUnsynced, Report, TypeOK, Jobs
<1>2. /\ busy = {p}
      /\ \A u \in Tasks : u # t => pc[u] \in {"idle", "queued"}
      /\ lock = t
  BY <1>0, <1>1, OneOwner DEF Critical
<1>3. \A q \in Patches : q # p => (q \in debt' <=> q \in debt)
  BY <1>0
     DEF Work, WorkDenied, WorkUnavailable, WorkInspected, WorkRefused,
         WorkReplaced, WorkUnsynced, Report, Confirmed
<1>4. Owed(p)' =>
        \/ ~r.denied /\ r.error = "durability_unconfirmed"
        \/ r.denied /\ job[t].pending /\ err[p] = "durability_unconfirmed"
  <2> SUFFICES ASSUME p \in debt', entry[p] \in Definition
               PROVE  \/ ~r.denied /\ r.error = "durability_unconfirmed"
                      \/ r.denied /\ job[t].pending /\ err[p] = "durability_unconfirmed"
    BY <1>1 DEF Owed
  <2>1. p \in debt => job[t].pending /\ err[p] = "durability_unconfirmed"
    BY <1>1 DEF DebtInv, DebtInHand
  <2>2. ASSUME NEW d, NEW e, NEW m, Report(t, d, e, m)
        PROVE  r.denied = d /\ r.error = e
    BY <1>0, <2>2 DEF Report, TypeOK, Jobs, Results
  <2>3. CASE WorkDenied(t)
    <3>1. PICK e \in Denials : Report(t, TRUE, e, FALSE)
      BY <2>3 DEF WorkDenied
    <3>2. p \in debt
      BY <2>3 DEF WorkDenied, Confirmed
    <3> QED  BY <2>1, <2>2, <3>1, <3>2
  <2>4. CASE WorkUnavailable(t)
    BY <2>1, <2>2, <2>4 DEF WorkUnavailable
  <2>5. CASE WorkInspected(t) \/ WorkRefused(t)
    BY <2>1, <2>5 DEF WorkInspected, WorkRefused, Confirmed
  <2>6. CASE WorkReplaced(t)
    BY <2>6 DEF WorkReplaced
  <2>7. CASE WorkUnsynced(t)
    BY <2>2, <2>7 DEF WorkUnsynced
  <2> QED  BY <2>3, <2>4, <2>5, <2>6, <2>7 DEF Work
<1>5. p \in debt' =>
        entry[p] # NotCreated /\ (entry[p] \in Definition => Present(p))
  BY <1>0, <1>1, RuntimeAssumption DEF IInv, CaptureCurrent, Present, Vacant
<1>6. debt' \subseteq Patches
  BY <1>0, <1>3
     DEF Work, WorkDenied, WorkUnavailable, WorkInspected, WorkRefused,
         WorkReplaced, WorkUnsynced, Report, Confirmed, TypeOK
<1>7. NoReload' /\ DebtInHand' /\ UnstoredInHand'
  BY <1>1, <1>2, <1>4 DEF DebtInv, NoReload, DebtInHand, UnstoredInHand, Owed
<1>8. \A q \in debt' : entry'[q] # NotCreated
  BY <1>1, <1>3, <1>5, <1>6 DEF DebtInv
<1>9. phase # "down" /\ lock # "close"
  BY <1>0, <1>1, <1>2, RuntimeAssumption DEF IInv, ClosedIsQuiet, Owners
<1>10. \A u \in Tasks : pc'[u] # "saving"
  BY <1>1, <1>2
<1>12. ~unstored
  BY <1>1, <1>2 DEF DebtInv, UnstoredInHand
<1>13. p \in debt' /\ p \notin debt => unstored'
  BY <1>0
     DEF Work, WorkDenied, WorkUnavailable, WorkInspected, WorkRefused,
         WorkReplaced, WorkUnsynced, Report, Confirmed
<1>11. DebtAtRest'
  <2> SUFFICES ASSUME NEW q \in debt', entry[q] \in Definition
               PROVE  /\ Present(q)
                      /\ q \notin busy => err[q] = "durability_unconfirmed"
                      /\ StoreKept /\ (q \in busy => ~unstored') =>
                           saved[q] = "durability_unconfirmed"
    BY <1>1, <1>9, <1>10 DEF DebtAtRest, Present
  <2>1. CASE q = p
    BY <1>2, <1>5, <1>12, <1>13, <2>1 DEF DebtInv, DebtAtRest
  <2>2. CASE q # p
    BY <1>3, <1>6, <1>9, <1>12, <2>2 DEF DebtInv, DebtAtRest
  <2> QED  BY <2>1, <2>2
<1> QED  BY <1>1, <1>7, <1>8, <1>9, <1>11 DEF DebtInv, FirstLoad

\* Recording an outcome keeps the report: a denial leaves it standing, and what
\* else is recorded for a rule that owes a flush is that very error.
LEMMA RecordDebt ==
  ASSUME IInv, DebtInv, NEW t \in Tasks, pc[t] \in {"settling", "refreshing"},
         RecordAndSave(t, job[t].res), debt' = debt, unstored' = unstored,
         phase' = phase,
         \A q \in Patches : /\ entry'[q] \in Definition <=> entry[q] \in Definition
                            /\ entry'[q] = NotCreated <=> entry[q] = NotCreated
                            /\ defs'[q] \in Definition <=> defs[q] \in Definition
  PROVE  DebtInv'
<1> DEFINE p == job[t].patch
           r == job[t].res
<1>0. /\ TypeOK /\ SerializedActions /\ p \in Patches /\ job[t] \in Jobs
      /\ debt \subseteq Patches
  BY DEF IInv, TypeOK, Jobs
<1>1. /\ busy = {p}
      /\ \A u \in Tasks : u # t => pc[u] \in {"idle", "queued"}
      /\ lock = t
  BY <1>0, OneOwner DEF Critical
<1>2. phase # "down" /\ lock # "close"
  BY <1>0, <1>1, RuntimeAssumption DEF IInv, ClosedIsQuiet, Owners
<1>3. /\ \A u \in Tasks : u # t => job'[u] = job[u] /\ pc'[u] = pc[u]
      /\ pc'[t] = "saving" /\ job'[t].patch = p
      /\ lock' = lock /\ busy' = busy /\ saved' = saved
      /\ \A q \in Patches : q # p => err'[q] = err[q]
      /\ snap' = [q \in Patches |-> IF Present(q) THEN err'[q] ELSE "none"]
  BY <1>0, IdleJobIsJob DEF RecordAndSave, TypeOK, Jobs
<1>4. Owed(p) => err'[p] = "durability_unconfirmed"
  <2> SUFFICES ASSUME Owed(p)  PROVE err'[p] = "durability_unconfirmed"
    OBVIOUS
  <2>1. \/ ~r.denied /\ r.error = "durability_unconfirmed"
        \/ r.denied /\ job[t].pending /\ err[p] = "durability_unconfirmed"
    BY DEF Owed, DebtInv, DebtInHand
  <2>2. CASE AlreadyReported(p, r)
    BY <2>1, <2>2 DEF AlreadyReported, RecordAndSave
  <2>3. CASE ~AlreadyReported(p, r)
    BY <1>0, <2>1, <2>3 DEF RecordAndSave, RecordedError, TypeOK
  <2> QED  BY <2>2, <2>3
<1>5. \A q \in debt : entry[q] \in Definition =>
        Present(q) /\ err'[q] = "durability_unconfirmed"
  BY <1>0, <1>1, <1>2, <1>3, <1>4 DEF DebtInv, DebtAtRest, Owed
<1>6. NoReload' /\ FirstLoad' /\ UnstoredInHand'
  BY <1>3 DEF DebtInv, NoReload, FirstLoad, UnstoredInHand
<1>7. DebtInHand'
  BY <1>0, <1>1, <1>3, <1>5 DEF DebtInHand
<1>8. DebtAtRest'
  BY <1>0, <1>1, <1>2, <1>3, <1>5 DEF DebtInv, DebtAtRest, Present, StoreKept
<1> QED  BY <1>0, <1>6, <1>7, <1>8 DEF DebtInv

\* Every step keeps what is owed reported.
LEMMA DebtStep ==
  ASSUME StoreSound, IInv, DebtInv, [Next]_vars
  PROVE  DebtInv'
<1> USE RuntimeAssumption
<1> USE DEF configVars, loadVars, stateVars, storeVars, fileVars
<1>0. /\ TypeOK /\ SerializedActions
      /\ debt \subseteq Patches
      /\ \A t \in Tasks : job[t] \in Jobs /\ job[t].patch \in Patches
  BY DEF IInv, TypeOK, Jobs
<1>1. ASSUME NEW t \in Tasks, NEW p \in Patches, NEW a \in Requests,
             Admit(t, p, a)
      PROVE  DebtInv'
  <2>1. /\ \A u \in Tasks : u # t => job'[u] = job[u] /\ pc'[u] = pc[u]
        /\ pc[t] = "idle" /\ pc'[t] = "queued"
    BY <1>0, <1>1 DEF Admit, TypeOK
  <2> QED
    BY <1>1, <2>1
       DEF Admit, DebtInv, NoReload, FirstLoad, UnstoredInHand, DebtInHand, DebtAtRest,
           Present
<1>2. ASSUME NEW t \in Tasks, Begin(t)  PROVE DebtInv'
  <2> DEFINE p == job[t].patch
  <2>1. /\ busy = {} /\ lock = "free"
        /\ \A u \in Tasks : pc[u] \in {"idle", "queued"}
    BY <1>0, <1>2, FreeLock DEF Begin, LockFree, Owners
  <2>2. /\ \A u \in Tasks : u # t => job'[u] = job[u] /\ pc'[u] = pc[u]
        /\ job'[t].patch = p /\ pc'[t] = "working"
        /\ job'[t].pending = (err[p] = "durability_unconfirmed")
        /\ lock' = t /\ busy' = {p}
    BY <1>0, <1>2, <2>1 DEF Begin, TypeOK, Jobs
  <2>3. phase # "down"
    BY <1>0, <1>2, <2>1 DEF Begin, IInv, ClosedIsQuiet
  <2>4. p \in debt /\ entry[p] \in Definition => err[p] = "durability_unconfirmed"
    BY <1>0, <2>1, <2>3 DEF DebtInv, DebtAtRest
  <2>5. DebtInHand'
    <3>1. p \in debt' /\ entry'[p] \in Definition =>
            job'[t].pending /\ err'[p] = "durability_unconfirmed"
      BY <1>2, <2>2, <2>4 DEF Begin
    <3> QED  BY <2>1, <2>2, <3>1 DEF DebtInHand
  <2>6. DebtAtRest'
    BY <1>2, <2>1, <2>2, <2>3
       DEF Begin, DebtInv, DebtAtRest, Present, Owners
  <2> QED  BY <1>2, <2>5, <2>6 DEF Begin, DebtInv, NoReload, FirstLoad, UnstoredInHand
<1>3. ASSUME NEW t \in Tasks, Reject(t)  PROVE DebtInv'
  <2>1. /\ \A u \in Tasks : u # t => job'[u] = job[u] /\ pc'[u] = pc[u]
        /\ pc'[t] = "idle"
    BY <1>0, <1>3 DEF Reject, TypeOK
  <2> QED
    BY <1>3, <2>1
       DEF Reject, DebtInv, NoReload, FirstLoad, UnstoredInHand, DebtInHand, DebtAtRest,
           Present
<1>4. ASSUME NEW t \in Tasks, Work(t)  PROVE DebtInv'
  BY <1>4, ReportDebt
<1>5. ASSUME NEW t \in Tasks, pc[t] \in Critical, Leave(t),
             UNCHANGED <<configVars, loadVars, stateVars, debt>>, unstored' = FALSE,
             \/ /\ pc[t] = "saving"
                /\ saved' = snap \/ ~StoreKept
             \/ /\ pc[t] # "saving"
                /\ saved' = saved
                /\ entry[job[t].patch] \notin Definition
      PROVE  DebtInv'
  <2> DEFINE p == job[t].patch
  <2>1. /\ busy = {p} /\ lock = t
        /\ \A u \in Tasks : u # t => pc[u] \in {"idle", "queued"}
    BY <1>0, <1>5, OneOwner
  <2>2. /\ \A u \in Tasks : pc'[u] \in {"idle", "queued"}
        /\ busy' = {} /\ lock' = "free"
    BY <1>0, <1>5, <2>1 DEF Leave, TypeOK
  <2>3. phase # "down"
    BY <1>0, <2>1, <1>5 DEF IInv, ClosedIsQuiet
  <2>4. ASSUME NEW q \in debt, entry[q] \in Definition
        PROVE  /\ err[q] = "durability_unconfirmed"
               /\ Present(q)
               /\ StoreKept => saved'[q] = "durability_unconfirmed"
    <3>1. Present(q)
      BY <2>3, <2>4 DEF DebtInv, DebtAtRest
    <3>2. err[q] = "durability_unconfirmed"
      BY <1>5, <2>1, <2>3, <2>4 DEF DebtInv, DebtAtRest, DebtInHand
    <3>3. pc[t] = "saving" => snap[q] = "durability_unconfirmed"
      BY <2>4 DEF DebtInv, DebtAtRest
    <3>4. ASSUME q # p, StoreKept  PROVE saved[q] = "durability_unconfirmed"
      BY <2>1, <2>4, <3>4 DEF DebtInv, DebtAtRest
    <3> QED  BY <1>5, <2>4, <3>1, <3>2, <3>3, <3>4
  <2>5. DebtInHand'
    BY <2>2 DEF DebtInHand
  <2>6. DebtAtRest'
    BY <1>5, <2>2, <2>3, <2>4 DEF DebtAtRest, Present, StoreKept
  <2> QED  BY <1>5, <2>5, <2>6 DEF DebtInv, NoReload, FirstLoad, UnstoredInHand
<1>6. ASSUME NEW t \in Tasks, Resume(t)  PROVE DebtInv'
  <2> DEFINE p == job[t].patch
  <2>1. CASE Settle(t)
    <3>1. CASE pc' = [pc EXCEPT ![t] = "refreshing"] /\
               UNCHANGED <<job, stateVars, storeVars, lock, busy>>
      <4>1. /\ \A u \in Tasks : u # t => pc'[u] = pc[u]
            /\ pc[t] = "settling" /\ pc'[t] = "refreshing"
        BY <1>0, <2>1, <3>1 DEF Settle, TypeOK
      <4> QED
        BY <2>1, <3>1, <4>1
           DEF Settle, DebtInv, NoReload, FirstLoad, UnstoredInHand, DebtInHand, DebtAtRest,
           Present
    <3>2. CASE RecordAndSave(t, job[t].res)
      BY <2>1, <3>2, RecordDebt DEF Settle
    <3> QED  BY <2>1, <3>1, <3>2 DEF Settle
  <2>2. CASE SettleRevert(t)
    <3>1. defs[p] \in Definition
      BY <2>2 DEF SettleRevert, IInv, CaptureCurrent
    <3>2. [defs[p] EXCEPT !.auto = FALSE] \in Definition
      BY <3>1 DEF Definition
    <3>3. \A q \in Patches :
            /\ entry'[q] \in Definition <=> entry[q] \in Definition
            /\ entry'[q] = NotCreated <=> entry[q] = NotCreated
            /\ defs'[q] \in Definition <=> defs[q] \in Definition
      BY <1>0, <2>2, <3>1, <3>2
         DEF SettleRevert, DisableAutoApply, TypeOK, Vacant
    <3> QED  BY <2>2, <3>3, RecordDebt DEF SettleRevert
  <2>3. CASE SettleRevertUnsaved(t)
    BY <2>3 DEF SettleRevertUnsaved, StoreSound
  <2>4. CASE SettleRevertRemoved(t)
    <3>1. /\ pc[t] \in Critical /\ pc[t] # "saving" /\ Leave(t)
          /\ UNCHANGED <<configVars, loadVars, stateVars, debt>>
          /\ unstored' = FALSE /\ saved' = saved
          /\ entry[p] \notin Definition
      BY <2>4 DEF SettleRevertRemoved, Critical
    <3> QED  BY <1>5, <3>1
  <2>5. CASE Refreshed(t)
    BY <2>5, RecordDebt DEF Refreshed
  <2>6. CASE Save(t)
    BY <1>5, <2>6 DEF Save, Critical, StoreKept
  <2> QED  BY <1>6, <2>1, <2>2, <2>3, <2>4, <2>5, <2>6 DEF Resume
<1>7. CASE Watching
  <2>1. /\ UNCHANGED <<entry, defs, phase, lock, busy, pc, job, snap, saved, debt,
                        unstored>>
        /\ \A p \in Patches : err[p] = "durability_unconfirmed" =>
                                err'[p] = "durability_unconfirmed"
    BY <1>0, <1>7 DEF Watching, WatchAvailable, WatchDenied, TypeOK
  <2>2. DebtInHand'
    BY <1>0, <2>1 DEF DebtInv, DebtInHand
  <2>3. DebtAtRest'
    BY <1>0, <2>1 DEF DebtInv, DebtAtRest, Present, StoreKept
  <2> QED  BY <2>1, <2>2, <2>3 DEF DebtInv, NoReload, FirstLoad, UnstoredInHand
<1>8. CASE Configuration
  <2>1. CASE FlowEnter
    <3>1. busy = {} /\ \A u \in Tasks : pc[u] \in {"idle", "queued"}
      BY <1>0, <2>1, FreeLock DEF FlowEnter, LockFree, Owners
    <3> QED
      BY <2>1, <3>1 DEF FlowEnter, DebtInv, NoReload, FirstLoad,
               UnstoredInHand, DebtInHand, DebtAtRest,
           Present
  <2>2. CASE FlowAbort
    BY <2>2 DEF FlowAbort, DebtInv, NoReload, FirstLoad, UnstoredInHand, DebtInHand, DebtAtRest,
           Present
  <2>3. ASSUME NEW p \in Patches, NEW d \in Definition, FlowCommit(p, d)
        PROVE  DebtInv'
    <3>1. \A q \in debt : /\ entry'[q] \in Definition => entry[q] \in Definition
                          /\ entry'[q] # NotCreated
      BY <1>0, <2>3 DEF FlowCommit, TypeOK, DebtInv, Vacant
    <3>2. UNCHANGED <<defs, phase, busy, err, pc, job, snap, saved, debt, unstored>>
          /\ lock # "close" /\ lock' # "close"
      BY <2>3 DEF FlowCommit
    <3>3. DebtInHand'
      BY <1>0, <3>1, <3>2 DEF DebtInv, DebtInHand
    <3>4. DebtAtRest'
      BY <3>1, <3>2 DEF DebtInv, DebtAtRest, Present, StoreKept
    <3> QED  BY <3>1, <3>2, <3>3, <3>4 DEF DebtInv, NoReload, FirstLoad, UnstoredInHand
  <2>4. ASSUME NEW p \in Patches, Delete(p)  PROVE DebtInv'
    <3>1. /\ debt' \subseteq debt
          /\ \A q \in debt' : entry'[q] = entry[q]
      BY <1>0, <2>4 DEF Delete, TypeOK
    <3>2. UNCHANGED <<defs, phase, busy, err, pc, job, snap, saved, lock, unstored>>
      BY <2>4 DEF Delete
    <3>3. DebtInHand'
      BY <1>0, <3>1, <3>2 DEF DebtInv, DebtInHand
    <3>4. DebtAtRest'
      BY <3>1, <3>2 DEF DebtInv, DebtAtRest, Present, StoreKept
    <3> QED  BY <3>1, <3>2, <3>3, <3>4 DEF DebtInv, NoReload, FirstLoad, UnstoredInHand
  <2>5. ASSUME NEW r \in Retentions, SaveOptions(r)  PROVE DebtInv'
    BY <2>5 DEF SaveOptions, DebtInv, NoReload, FirstLoad, UnstoredInHand,
             DebtInHand, DebtAtRest,
           Present
  <2> QED  BY <1>8, <2>1, <2>2, <2>3, <2>4, <2>5 DEF Configuration
<1>9. CASE Load
  <2>1. \A t \in Tasks : pc[t] = "idle"
    BY <1>9 DEF Load, IInv, ClosedIsQuiet
  <2>2. \A q \in debt : entry[q] \in Definition =>
          /\ defs'[q] \in Definition
          /\ err'[q] = "durability_unconfirmed"
          /\ saved[q] = "durability_unconfirmed"
    <3> SUFFICES ASSUME NEW q \in debt, entry[q] \in Definition
                 PROVE  /\ defs'[q] \in Definition
                        /\ err'[q] = "durability_unconfirmed"
                        /\ saved[q] = "durability_unconfirmed"
      OBVIOUS
    <3>1. "load_fails" \notin Faults
      BY <1>9 DEF Load, DebtInv, FirstLoad, StoreSound
    <3>2. err' = [p \in Patches |-> Restored(p, {})]
      BY <1>9, <3>1 DEF Load, Unreadable
    <3>3. saved[q] = "durability_unconfirmed"
      BY <1>9 DEF Load, DebtInv, DebtAtRest
    <3> QED  BY <1>0, <1>9, <3>2, <3>3 DEF Load, Live, Restored, Gates
  <2>3. phase' = "up" /\ UNCHANGED <<entry, debt, pc, job, saved, snap, lock, busy,
                                     unstored>>
    BY <1>9 DEF Load
  <2>4. lock # "close"
    BY <1>9 DEF Load, IInv, CloseInDrain
  <2>5. DebtInHand'
    BY <2>1, <2>3 DEF DebtInHand
  <2>6. DebtAtRest'
    BY <2>1, <2>2, <2>3, <2>4 DEF DebtAtRest, Present, StoreKept
  <2> QED  BY <2>3, <2>5, <2>6 DEF DebtInv, NoReload, FirstLoad, UnstoredInHand
<1>10. CASE Unload \/ UnloadRefused \/ Close
  BY <1>10
     DEF Unload, UnloadRefused, Close, DebtInv, NoReload, FirstLoad,
         UnstoredInHand, DebtInHand, DebtAtRest, Present
<1>11. CASE CloseSave
  <2>1. busy = {} /\ phase = "draining" /\ \A t \in Tasks : pc[t] = "idle"
    BY <1>0, <1>11, FreeLock DEF CloseSave, LockFree, Owners, Drained
  <2>2. \A q \in debt : entry[q] \in Definition =>
          snap'[q] = "durability_unconfirmed"
    BY <1>0, <1>11, <2>1 DEF CloseSave, DebtInv, DebtAtRest
  <2>3. DebtInHand'
    BY <1>11, <2>1 DEF CloseSave, DebtInHand
  <2>4. DebtAtRest'
    BY <1>11, <2>1, <2>2
       DEF CloseSave, DebtInv, DebtAtRest, Present, StoreKept
  <2> QED  BY <1>11, <2>3, <2>4 DEF CloseSave, DebtInv, NoReload, FirstLoad, UnstoredInHand
<1>12. CASE CloseDone
  <2>1. /\ phase = "draining" /\ busy = {} /\ lock = "close"
        /\ \A t \in Tasks : pc[t] = "idle"
    BY <1>0, <1>12 DEF CloseDone, IInv, CloseInDrain, ClosedIsQuiet
  <2>2. "reload" \in Faults /\ StoreKept
    BY <2>1 DEF DebtInv, NoReload, StoreSound, StoreKept
  <2>3. \A q \in debt : entry[q] \in Definition =>
          saved'[q] = "durability_unconfirmed"
    BY <1>12, <2>1, <2>2 DEF CloseDone, StoreKept, DebtInv, DebtAtRest
  <2>4. DebtInHand'
    BY <1>12, <2>1 DEF CloseDone, DebtInHand
  <2>5. DebtAtRest'
    BY <1>12, <2>1, <2>3 DEF CloseDone, Forget, DebtAtRest
  <2> QED
    BY <1>12, <2>1, <2>2, <2>4, <2>5
       DEF CloseDone, Forget, DebtInv, NoReload, FirstLoad, UnstoredInHand
<1>13. CASE Crash
  <2>1. StoreKept /\ phase # "down"
    BY <1>13 DEF Crash, StoreSound, StoreKept
  <2>2. \A q \in debt' : entry[q] \in Definition =>
          saved'[q] = "durability_unconfirmed"
    BY <1>13, <2>1 DEF Crash, DebtInv, DebtAtRest
  <2>3. /\ \A t \in Tasks : pc'[t] = "idle"
        /\ unstored' = FALSE /\ "crash" \in Faults
        /\ phase' = "down" /\ lock' = "free" /\ UNCHANGED entry
        /\ debt' \subseteq debt
    BY <1>13 DEF Crash, Forget
  <2>4. DebtInHand'
    BY <2>3 DEF DebtInHand
  <2>5. DebtAtRest'
    BY <2>2, <2>3 DEF DebtAtRest
  <2> QED  BY <2>3, <2>4, <2>5 DEF DebtInv, NoReload, FirstLoad, UnstoredInHand
<1>14. CASE UNCHANGED vars \/ \E p \in Patches, c \in Contents : TargetWritten(p, c)
  BY <1>14 DEF vars, TargetWritten, DebtInv, NoReload, FirstLoad,
           UnstoredInHand, DebtInHand, DebtAtRest,
           Present
<1> QED
  BY <1>1, <1>2, <1>3, <1>4, <1>6, <1>7, <1>8, <1>9, <1>10, <1>11, <1>12,
     <1>13, <1>14
     DEF Next, Actions, Lifetime

\* A replacement whose directory flush has not succeeded stays reported, across
\* reloads, security denials and crashes at any point of later actions, for any
\* rules and action slots, wherever Revert can keep its books and a stored image
\* that was not written or cannot be read is not combined with a reload or a
\* crash that would depend on it.
THEOREM DebtIsRemembered ==
  ASSUME StoreSound
  PROVE  Spec => []DebtRemembered
<1>1. Init => DebtInv
  BY RuntimeAssumption, IdleJobIsJob
     DEF Init, DebtInv, NoReload, FirstLoad, UnstoredInHand, DebtInHand, DebtAtRest,
         IdleJob
<1>2. IInv /\ DebtInv /\ [Next]_vars => DebtInv'
  BY DebtStep
<1>3. IInv /\ DebtInv => DebtRemembered
  BY DEF DebtInv, DebtAtRest, DebtRemembered
<1> QED  BY <1>1, <1>2, <1>3, Invariance, PTL DEF Spec

-----------------------------------------------------------------------------
(***************************************************************************)
(* No automatic action undoes a Revert, as long as a Revert that replaced  *)
(* its target gets to switch the rule off: the two faults excluded are the *)
(* ones that keep it from doing so.                                        *)
(***************************************************************************)
RevertSound == "meta_fails" \notin Faults /\ "readback_denied" \notin Faults

\* An executor job adds nothing to what was reverted, and none that was denied
\* has replaced its target.
LEMMA ReportReverted ==
  ASSUME RevertSound, IInv, RevertInv, NEW t \in Tasks, Work(t)
  PROVE  RevertInv'
<1> DEFINE p == job[t].patch
<1> USE DEF configVars, loadVars, stateVars, storeVars, fileVars
<1>0. TypeOK /\ SerializedActions /\ p \in Patches /\ job[t] \in Jobs
  BY DEF IInv, TypeOK, Jobs
<1>1. /\ pc[t] = "working" /\ pc'[t] = "settling"
      /\ job'[t].patch = p /\ job'[t].act = job[t].act
      /\ \A u \in Tasks : u # t => job'[u] = job[u] /\ pc'[u] = pc[u]
      /\ UNCHANGED <<configVars, loadVars>>
  BY <1>0
     DEF Work, WorkDenied, WorkUnavailable, WorkInspected, WorkRefused,
         WorkReplaced, WorkUnsynced, Report, TypeOK, Jobs
<1>2. \A u \in Tasks : u # t => pc[u] \in {"idle", "queued"}
  BY <1>0, <1>1, OneOwner DEF Critical
<1>3. reverted' \subseteq reverted
  BY DEF Work, WorkDenied, WorkUnavailable, WorkInspected, WorkRefused,
         WorkReplaced, WorkUnsynced, Withdrawn
<1>4. job'[t].res.denied => ~job'[t].res.mutated
  <2>1. ASSUME NEW d, NEW e, NEW m, Report(t, d, e, m)
        PROVE  job'[t].res.denied = d /\ job'[t].res.mutated = m
    BY <1>0, <2>1 DEF Report, TypeOK, Jobs, Results
  <2>2. CASE WorkReplaced(t) \/ WorkUnsynced(t)
    <3>1. PICK e : Report(t, FALSE, e, TRUE)
      BY <2>2 DEF WorkReplaced, WorkUnsynced, RevertSound
    <3> QED  BY <2>1, <3>1
  <2>3. CASE WorkDenied(t) \/ WorkUnavailable(t) \/ WorkInspected(t) \/ WorkRefused(t)
    <3>1. PICK d, e : Report(t, d, e, FALSE)
      BY <2>3 DEF WorkDenied, WorkUnavailable, WorkInspected, WorkRefused
    <3> QED  BY <2>1, <3>1
  <2> QED  BY <2>2, <2>3 DEF Work
<1>5. RevertedIsManual' /\ CheckedNotReverted' /\ DeniedUnwritten'
  BY <1>1, <1>2, <1>3, <1>4
     DEF RevertInv, RevertedIsManual, CheckedNotReverted, DeniedUnwritten
<1> QED  BY <1>5 DEF RevertInv

\* Steps that leave rules and reverted targets alone, and no job to an executor
\* or from one, keep the invariant.
LEMMA RevertFrame ==
  ASSUME RevertInv, UNCHANGED <<entry, reverted>>,
         \A u \in Tasks :
           \/ job'[u] = job[u] /\ pc'[u] = pc[u]
           \/ pc'[u] \notin {"working", "settling"}
  PROVE  RevertInv'
BY DEF RevertInv, RevertedIsManual, CheckedNotReverted, DeniedUnwritten

\* Every step keeps reverted rules manual.
LEMMA RevertStep ==
  ASSUME RevertSound, IInv, RevertInv, [Next]_vars
  PROVE  RevertInv'
<1> USE RuntimeAssumption
<1> USE DEF configVars, loadVars, stateVars, storeVars, fileVars
<1>0. /\ TypeOK /\ SerializedActions
      /\ reverted \subseteq Patches
      /\ \A t \in Tasks : job[t] \in Jobs /\ job[t].patch \in Patches
  BY DEF IInv, TypeOK, Jobs
<1>1. ASSUME NEW t \in Tasks, NEW p \in Patches, NEW a \in Requests,
             Admit(t, p, a)
      PROVE  RevertInv'
  <2>1. /\ \A u \in Tasks : u # t => job'[u] = job[u] /\ pc'[u] = pc[u]
        /\ pc[t] = "idle" /\ pc'[t] = "queued"
    BY <1>0, <1>1 DEF Admit, TypeOK
  <2> QED  BY <1>1, <2>1, RevertFrame DEF Admit
<1>2. ASSUME NEW t \in Tasks, Begin(t)  PROVE RevertInv'
  <2> DEFINE p == job[t].patch
  <2>1. \A u \in Tasks : pc[u] \in {"idle", "queued"}
    BY <1>0, <1>2, FreeLock DEF Begin, LockFree, Owners
  <2>2. /\ \A u \in Tasks : u # t => job'[u] = job[u] /\ pc'[u] = pc[u]
        /\ job'[t].patch = p /\ job'[t].def = defs[p] /\ pc'[t] = "working"
        /\ UNCHANGED <<entry, reverted>>
    BY <1>0, <1>2 DEF Begin, TypeOK, Jobs
  <2>3. entry[p] = defs[p] /\ entry[p] \in Definition
    BY <1>0, <1>2
       DEF Begin, StillValid, ValidateCurrent, Present, MatchesEntry, Live
  <2>4. RevertedIsManual'
    BY <2>2 DEF RevertInv, RevertedIsManual
  <2>5. CheckedNotReverted' /\ DeniedUnwritten'
    BY <2>1, <2>2, <2>3
       DEF RevertInv, RevertedIsManual, CheckedNotReverted, DeniedUnwritten
  <2> QED  BY <2>4, <2>5 DEF RevertInv
<1>3. ASSUME NEW t \in Tasks, Reject(t)  PROVE RevertInv'
  <2>1. /\ \A u \in Tasks : u # t => job'[u] = job[u] /\ pc'[u] = pc[u]
        /\ pc[t] = "queued" /\ pc'[t] = "idle"
    BY <1>0, <1>3 DEF Reject, TypeOK
  <2> QED  BY <1>3, <2>1, RevertFrame DEF Reject
<1>4. ASSUME NEW t \in Tasks, Work(t)  PROVE RevertInv'
  BY <1>4, ReportReverted
<1>5. ASSUME NEW t \in Tasks, Resume(t)  PROVE RevertInv'
  <2> DEFINE p == job[t].patch
  <2>1. /\ \A u \in Tasks : u # t => job'[u] = job[u] /\ pc'[u] = pc[u]
        /\ pc'[t] \in {"refreshing", "saving", "idle"}
    BY <1>0, <1>5
       DEF Resume, Settle, SettleRevert, SettleRevertUnsaved,
           SettleRevertRemoved, Refreshed, Save, RecordAndSave, Leave, TypeOK
  <2>2. CASE Settle(t)
    <3>1. ~(job[t].act = "revert" /\ job[t].res.mutated)
      BY <2>2 DEF Settle, IsSafeRevert, RevertInv, DeniedUnwritten, RevertSound
    <3>2. UNCHANGED <<entry, reverted>>
      BY <2>2, <3>1 DEF Settle, Counted
    <3> QED  BY <2>1, <3>2, RevertFrame
  <2>3. CASE SettleRevert(t)
    <3>1. \A u \in Tasks : u # t => pc[u] \in {"idle", "queued"}
      BY <1>0, <2>3, OneOwner DEF SettleRevert, Critical
    <3>2. defs[p] \in Definition
      BY <2>3 DEF SettleRevert, IInv, CaptureCurrent
    <3>3. /\ entry'[p] = [defs[p] EXCEPT !.auto = FALSE]
          /\ \A q \in Patches : q # p => entry'[q] = entry[q]
          /\ reverted' \subseteq reverted \cup {p}
      BY <1>0, <2>3 DEF SettleRevert, DisableAutoApply, Counted, TypeOK
    <3>4. ~entry'[p].auto
      BY <3>2, <3>3 DEF Definition
    <3>5. RevertedIsManual'
      BY <1>0, <3>3, <3>4 DEF RevertInv, RevertedIsManual
    <3>6. CheckedNotReverted' /\ DeniedUnwritten'
      BY <2>1, <3>1 DEF CheckedNotReverted, DeniedUnwritten
    <3> QED  BY <3>5, <3>6 DEF RevertInv
  <2>4. CASE SettleRevertUnsaved(t)
    BY <2>4 DEF SettleRevertUnsaved, RevertSound
  <2>5. CASE SettleRevertRemoved(t) \/ Refreshed(t) \/ Save(t)
    BY <2>1, <2>5, RevertFrame DEF SettleRevertRemoved, Refreshed, Save
  <2> QED  BY <1>5, <2>2, <2>3, <2>4, <2>5 DEF Resume
<1>6. CASE Watching
  BY <1>6, RevertFrame DEF Watching, WatchAvailable, WatchDenied
<1>7. CASE Configuration
  <2>1. CASE FlowEnter \/ FlowAbort \/ \E r \in Retentions : SaveOptions(r)
    BY <2>1, RevertFrame DEF FlowEnter, FlowAbort, SaveOptions
  <2>2. ASSUME NEW p \in Patches,
               \/ Delete(p)
               \/ \E d \in Definition : FlowCommit(p, d)
        PROVE  RevertInv'
    <3>1. /\ reverted' = reverted \ {p}
          /\ \A q \in Patches : q # p => entry'[q] = entry[q]
          /\ UNCHANGED <<pc, job>>
      BY <1>0, <2>2 DEF Delete, FlowCommit, TypeOK
    <3>2. RevertedIsManual'
      BY <1>0, <3>1 DEF RevertInv, RevertedIsManual
    <3>3. CheckedNotReverted' /\ DeniedUnwritten'
      BY <3>1 DEF RevertInv, CheckedNotReverted, DeniedUnwritten
    <3> QED  BY <3>2, <3>3 DEF RevertInv
  <2> QED  BY <1>7, <2>1, <2>2 DEF Configuration
<1>8. CASE Crash
  BY <1>8, RevertFrame DEF Crash, Forget
<1>9. CASE Lifetime /\ ~Crash
  <2>1. UNCHANGED <<entry, reverted, pc, job>>
    BY <1>9 DEF Lifetime, Load, Unload, UnloadRefused, Close, CloseSave, CloseDone
  <2> QED  BY <2>1, RevertFrame
<1>10. CASE UNCHANGED vars \/ \E p \in Patches, c \in Contents : TargetWritten(p, c)
  BY <1>10, RevertFrame DEF vars, TargetWritten
<1> QED
  BY <1>1, <1>2, <1>3, <1>4, <1>5, <1>6, <1>7, <1>8, <1>9, <1>10
     DEF Next, Actions

\* No automatic check re-applies what an explicit Revert undid: not one queued
\* behind it, not the watcher's, not the one after a crash or a reload, for any
\* rules and action slots, wherever a Revert that replaced its target can
\* switch the rule off.
THEOREM RevertStands ==
  ASSUME RevertSound
  PROVE  Spec => RevertNotUndone
<1> DEFINE Stands ==
      \A t \in Tasks : Wrote(t) /\ job[t].act = "reconcile" =>
        job[t].patch \notin reverted
<1>1. Init => RevertInv
  BY DEF Init, RevertInv, RevertedIsManual, CheckedNotReverted, DeniedUnwritten
<1>2. IInv /\ RevertInv /\ [Next]_vars => RevertInv'
  BY RevertStep
<1>3. IInv /\ RevertInv /\ [Next]_vars => Stands
  <2> SUFFICES ASSUME IInv, RevertInv, [Next]_vars, NEW t \in Tasks, Wrote(t),
                      job[t].act = "reconcile"
               PROVE  job[t].patch \notin reverted
    OBVIOUS
  <2>1. WorkReplaced(t) \/ WorkUnsynced(t)
    BY OnlyReplacementsAreWrites
  <2>2. job[t].def.auto
    BY <2>1 DEF WorkReplaced, WorkUnsynced, HasOutput
  <2> QED  BY <2>2 DEF RevertInv, CheckedNotReverted, Wrote
<1> QED  BY <1>1, <1>2, <1>3, Invariance, PTL DEF Spec, RevertNotUndone
-----------------------------------------------------------------------------
(* What the runtime takes an executor job to be                             *)

\* What the job of slot t was asked.
AskedIn(t) == [act |-> job[t].act, auto |-> job[t].def.auto, pending |-> job[t].pending]

\* The runtime's name for what a job answered: not_applied is an error of the
\* service and not of the rule, failures are told apart nowhere.
Names(o) ==
  IF o.denied THEN IF o.mutated THEN {"security_denied"} ELSE Denials
  ELSE IF o.error = "durability_unconfirmed" THEN {"durability_unconfirmed"}
  ELSE IF o.error \in {"none", "not_applied"} THEN {"none"} ELSE {"other"}

\* The faults a job needs to come to an outcome.
Possible(o) ==
  /\ o.mutated /\ o.denied => "readback_denied" \in Faults
  /\ o.mutated /\ o.owing => "fsync_fails" \in Faults

\* Slot t's job comes to outcome o, having acted on content.
ComesTo(t, content, o) ==
  LET p == job[t].patch IN
  /\ pc[t] = "working"
  /\ Outcome(AskedIn(t), content, p \in debt, o) /\ Possible(o)
  /\ \E e \in Names(o) : Report(t, o.denied, e, o.mutated)
  /\ debt' = IF o.owing THEN debt \cup {p} ELSE debt \ {p}
  /\ tgt' = IF o.mutated THEN [tgt EXCEPT ![p] = Output(job[t].act)] ELSE tgt
  /\ unstored' = IF o.mutated /\ o.owing THEN p \notin debt ELSE unstored
  /\ reverted' = IF o.mutated THEN Withdrawn(t) ELSE reverted

LEMMA WantedOutput ==
  ASSUME NEW t \in Tasks, NEW content
  PROVE  /\ Wanted(AskedIn(t), content) <=> HasOutput(job[t].def, content, job[t].act)
         /\ AskedIn(t).pending = job[t].pending
BY DEF Wanted, AskedIn, HasOutput

\* Every outcome is a Work action.
LEMMA OutcomeWorks ==
  ASSUME TypeOK, NEW t \in Tasks, NEW o \in Outcomes,
         NEW content \in {"none", tgt[job[t].patch]}, ComesTo(t, content, o)
  PROVE  Work(t)
<1> DEFINE p == job[t].patch
           r == AskedIn(t)
<1>0. /\ pc[t] = "working" /\ r.pending = job[t].pending /\ job[t].pending \in BOOLEAN
      /\ Outcome(r, content, p \in debt, o) /\ Possible(o)
      /\ debt' = IF o.owing THEN debt \cup {p} ELSE debt \ {p}
  BY WantedOutput DEF ComesTo, TypeOK, Jobs
<1>1. PICK e \in Names(o) : Report(t, o.denied, e, o.mutated)
  BY DEF ComesTo
<1>2. Wanted(r, content)
        => content = tgt[p] /\ HasOutput(job[t].def, tgt[p], job[t].act)
  BY WantedOutput DEF Wanted
<1>3. ~o.mutated => UNCHANGED <<tgt, unstored, reverted>>
  BY DEF ComesTo
<1>4. ~o.mutated => debt' = IF o.confirmed THEN debt \ {p} ELSE debt
  BY <1>0 DEF Outcome
<1>5. o.mutated => /\ tgt' = [tgt EXCEPT ![p] = Output(job[t].act)]
                   /\ reverted' = Withdrawn(t)
                   /\ unstored' = IF o.owing THEN p \notin debt ELSE unstored
  BY DEF ComesTo
<1>6. o.confirmed => job[t].pending
  BY <1>0 DEF Outcome
<1> HIDE DEF p, r
<1>7. CASE DeniedOutcome(o)
  <2>1. Report(t, TRUE, e, FALSE) /\ e \in Denials /\ ~o.mutated
    BY <1>1, <1>7 DEF DeniedOutcome, Answers, Names
  <2>2. debt' \in {debt, Confirmed(t)}
    BY <1>4, <1>6, <2>1 DEF Confirmed, p
  <2> QED  BY <1>0, <1>3, <2>1, <2>2 DEF Work, WorkDenied
<1>8. CASE UnconfirmedOutcome(r, o)
  <2>1. /\ Report(t, FALSE, "durability_unconfirmed", FALSE)
        /\ job[t].pending /\ ~o.mutated /\ ~o.confirmed
    BY <1>0, <1>1, <1>8 DEF UnconfirmedOutcome, Answers, Names
  <2> QED  BY <1>0, <1>3, <1>4, <2>1 DEF Work, WorkUnavailable, fileVars
<1>9. CASE UnavailableOutcome(r, content, o)
  <2>1. /\ Report(t, FALSE, "other", FALSE) /\ ~o.mutated
        /\ job[t].pending => o.confirmed /\ Wanted(r, content)
    BY <1>0, <1>1, <1>9 DEF UnavailableOutcome, UpToDate, Answers, Names, Failures
  <2>2. CASE job[t].pending
    BY <1>0, <1>2, <1>3, <1>4, <2>1, <2>2 DEF Work, WorkRefused, Confirmed, p
  <2>3. CASE ~job[t].pending
    BY <1>0, <1>3, <1>4, <1>6, <2>1, <2>3 DEF Work, WorkUnavailable, fileVars
  <2> QED  BY <2>2, <2>3
<1>10. CASE InspectedOutcome(r, content, o)
  <2>1. /\ content = tgt[p] /\ ~HasOutput(job[t].def, tgt[p], job[t].act)
        /\ ~o.mutated /\ (job[t].pending => o.confirmed)
    BY <1>0, <1>10, WantedOutput DEF InspectedOutcome, UpToDate, Answers, Readable, p, r
  <2>2. Report(t, FALSE, IF tgt[p] = "other" THEN "other" ELSE "none", FALSE)
    BY <1>1, <1>10, <2>1 DEF InspectedOutcome, Answers, Names, Verdict
  <2> QED  BY <1>0, <1>3, <1>4, <1>6, <2>1, <2>2 DEF Work, WorkInspected, Confirmed, p
<1>11. CASE ReplacedOutcome(r, content, o)
  <2>1. o.mutated /\ Wanted(r, content) /\ debt' = debt \ {p} /\ ~o.owing
    BY <1>0, <1>11 DEF ReplacedOutcome, Answers
  <2>2. \/ \E n \in {"none", "other"} : Report(t, FALSE, n, TRUE)
        \/ "readback_denied" \in Faults /\ Report(t, TRUE, "security_denied", TRUE)
    BY <1>0, <1>1, <1>11 DEF ReplacedOutcome, Answers, Names, Failures, Possible
  <2> QED  BY <1>0, <1>2, <1>5, <2>1, <2>2 DEF Work, WorkReplaced, p
<1>12. CASE UnsyncedOutcome(r, content, o)
  <2>1. /\ o.mutated /\ Wanted(r, content) /\ debt' = debt \cup {p} /\ o.owing
        /\ "fsync_fails" \in Faults
        /\ Report(t, FALSE, "durability_unconfirmed", TRUE)
    BY <1>0, <1>1, <1>12 DEF UnsyncedOutcome, Answers, Names, Possible
  <2> QED  BY <1>0, <1>2, <1>5, <2>1 DEF Work, WorkUnsynced, p
<1> QED  BY <1>0, <1>7, <1>8, <1>9, <1>10, <1>11, <1>12 DEF Outcome

\* Every Work action is an outcome.
LEMMA WorkComes ==
  ASSUME TypeOK, NEW t \in Tasks, Work(t)
  PROVE  \E o \in Outcomes : ComesTo(t, tgt[job[t].patch], o)
<1> DEFINE p == job[t].patch
           r == AskedIn(t)
           content == tgt[p]
<1>0. /\ pc[t] = "working" /\ r.pending = job[t].pending /\ job[t].pending \in BOOLEAN
      /\ debt \subseteq Patches /\ content \in Readable
      /\ Wanted(r, content) <=> HasOutput(job[t].def, content, job[t].act)
  <2>1. pc[t] = "working"
    BY DEF Work, WorkDenied, WorkUnavailable, WorkInspected, WorkRefused, WorkReplaced,
           WorkUnsynced
  <2>2. job[t].pending \in BOOLEAN /\ content \in Readable /\ debt \subseteq Patches
    BY DEF TypeOK, Jobs, Contents, Readable
  <2> QED  BY <2>1, <2>2, WantedOutput
<1>1. ASSUME NEW o \in Outcomes, NEW e \in Names(o), Report(t, o.denied, e, o.mutated),
             Outcome(r, content, p \in debt, o), Possible(o),
             debt' = IF o.owing THEN debt \cup {p} ELSE debt \ {p},
             tgt' = IF o.mutated THEN [tgt EXCEPT ![p] = Output(job[t].act)] ELSE tgt,
             unstored' = IF o.mutated /\ o.owing THEN p \notin debt ELSE unstored,
             reverted' = IF o.mutated THEN Withdrawn(t) ELSE reverted
      PROVE  \E n \in Outcomes : ComesTo(t, tgt[job[t].patch], n)
  BY <1>0, <1>1 DEF ComesTo
<1>2. Confirmed(t) = IF job[t].pending THEN debt \ {p} ELSE debt
  BY DEF Confirmed
<1> HIDE DEF p, r, content
\* What is left of the debt when nothing was replaced.
<1>3. ASSUME NEW confirmed \in BOOLEAN, debt' = IF confirmed THEN debt \ {p} ELSE debt,
             NEW owing, owing = (p \in debt /\ ~confirmed)
      PROVE  debt' = IF owing THEN debt \cup {p} ELSE debt \ {p}
  BY <1>3
<1>4. CASE WorkDenied(t)
  <2>1. PICK e \in Denials : Report(t, TRUE, e, FALSE)
    BY <1>4 DEF WorkDenied
  <2>2. PICK confirmed \in BOOLEAN : /\ confirmed => job[t].pending
                                     /\ debt' = IF confirmed THEN debt \ {p} ELSE debt
    BY <1>0, <1>2, <1>4 DEF WorkDenied
  <2> DEFINE o == [denied |-> TRUE, error |-> "denied", mutated |-> FALSE,
                   confirmed |-> confirmed, owing |-> p \in debt /\ ~confirmed]
  <2>3. o \in Outcomes /\ e \in Names(o) /\ Possible(o) /\ DeniedOutcome(o)
    BY <2>1 DEF Outcomes, Names, Possible, DeniedOutcome, Answers
  <2>4. Outcome(r, content, p \in debt, o)
    BY <1>0, <2>2, <2>3 DEF Outcome
  <2>5. debt' = IF o.owing THEN debt \cup {p} ELSE debt \ {p}
    BY <1>3, <2>2
  <2>6. /\ Report(t, o.denied, e, o.mutated)
        /\ tgt' = IF o.mutated THEN [tgt EXCEPT ![p] = Output(job[t].act)] ELSE tgt
        /\ unstored' = IF o.mutated /\ o.owing THEN p \notin debt ELSE unstored
        /\ reverted' = IF o.mutated THEN Withdrawn(t) ELSE reverted
    BY <1>4, <2>1 DEF WorkDenied
  <2> HIDE DEF o
  <2> QED  BY <1>1, <2>3, <2>4, <2>5, <2>6
<1>5. CASE WorkUnavailable(t)
  <2> DEFINE error == IF job[t].pending THEN "durability_unconfirmed" ELSE "commit_failed"
             e == IF job[t].pending THEN "durability_unconfirmed" ELSE "other"
             o == [denied |-> FALSE, error |-> error, mutated |-> FALSE,
                   confirmed |-> FALSE, owing |-> p \in debt]
  <2>1. o \in Outcomes /\ e \in Names(o) /\ Possible(o)
    BY DEF Outcomes, Names, Possible, Failures
  <2>2. UnconfirmedOutcome(r, o) \/ UnavailableOutcome(r, content, o)
    BY <1>0 DEF UnconfirmedOutcome, UnavailableOutcome, UpToDate, Answers, Failures
  <2>3. Outcome(r, content, p \in debt, o)
    BY <2>2 DEF Outcome
  <2>4. /\ Report(t, o.denied, e, o.mutated)
        /\ tgt' = IF o.mutated THEN [tgt EXCEPT ![p] = Output(job[t].act)] ELSE tgt
        /\ unstored' = IF o.mutated /\ o.owing THEN p \notin debt ELSE unstored
        /\ reverted' = IF o.mutated THEN Withdrawn(t) ELSE reverted
        /\ debt' = debt
    BY <1>5 DEF WorkUnavailable, fileVars
  <2>5. debt' = IF o.owing THEN debt \cup {p} ELSE debt \ {p}
    BY <2>4
  <2> HIDE DEF o, e
  <2> QED  BY <1>1, <2>1, <2>3, <2>4, <2>5
<1>6. CASE WorkInspected(t)
  <2> DEFINE e == IF content = "other" THEN "other" ELSE "none"
             o == [denied |-> FALSE, error |-> Verdict(r, content), mutated |-> FALSE,
                   confirmed |-> job[t].pending,
                   owing |-> p \in debt /\ ~job[t].pending]
  <2>1. Verdict(r, content) \in {"none", "conflict", "not_applied"}
    BY DEF Verdict
  <2>2. o \in Outcomes /\ Possible(o)
    BY <1>0, <2>1 DEF Outcomes, Possible
  <2>3. e \in Names(o)
    BY <1>0 DEF Names, Verdict, Readable
  <2>4. ~Wanted(r, content)
    BY <1>0, <1>6 DEF WorkInspected, content, p
  <2>5. InspectedOutcome(r, content, o)
    BY <1>0, <2>4 DEF InspectedOutcome, UpToDate, Answers
  <2>6. Outcome(r, content, p \in debt, o)
    BY <1>0, <2>5 DEF Outcome
  <2>7. /\ Report(t, o.denied, e, o.mutated)
        /\ tgt' = IF o.mutated THEN [tgt EXCEPT ![p] = Output(job[t].act)] ELSE tgt
        /\ unstored' = IF o.mutated /\ o.owing THEN p \notin debt ELSE unstored
        /\ reverted' = IF o.mutated THEN Withdrawn(t) ELSE reverted
        /\ debt' = IF job[t].pending THEN debt \ {p} ELSE debt
    BY <1>2, <1>6 DEF WorkInspected, content, p
  <2>8. debt' = IF o.owing THEN debt \cup {p} ELSE debt \ {p}
    BY <1>0, <1>3, <2>7
  <2> HIDE DEF o, e
  <2> QED  BY <1>1, <2>2, <2>3, <2>6, <2>7, <2>8
<1>7. CASE WorkRefused(t)
  <2> DEFINE o == [denied |-> FALSE, error |-> "commit_failed", mutated |-> FALSE,
                   confirmed |-> job[t].pending,
                   owing |-> p \in debt /\ ~job[t].pending]
  <2>1. o \in Outcomes /\ "other" \in Names(o) /\ Possible(o)
    BY <1>0 DEF Outcomes, Names, Possible, Failures
  <2>2. Wanted(r, content)
    BY <1>0, <1>7 DEF WorkRefused, content, p
  <2>3. UnavailableOutcome(r, content, o)
    BY <1>0, <2>2 DEF UnavailableOutcome, UpToDate, Answers, Failures
  <2>4. Outcome(r, content, p \in debt, o)
    BY <1>0, <2>3 DEF Outcome
  <2>5. /\ Report(t, o.denied, "other", o.mutated)
        /\ tgt' = IF o.mutated THEN [tgt EXCEPT ![p] = Output(job[t].act)] ELSE tgt
        /\ unstored' = IF o.mutated /\ o.owing THEN p \notin debt ELSE unstored
        /\ reverted' = IF o.mutated THEN Withdrawn(t) ELSE reverted
        /\ debt' = IF job[t].pending THEN debt \ {p} ELSE debt
    BY <1>2, <1>7 DEF WorkRefused
  <2>6. debt' = IF o.owing THEN debt \cup {p} ELSE debt \ {p}
    BY <1>0, <1>3, <2>5
  <2> HIDE DEF o
  <2> QED  BY <1>1, <2>1, <2>4, <2>5, <2>6
<1>8. CASE WorkReplaced(t)
  <2>1. /\ Wanted(r, content) /\ debt' = debt \ {p}
        /\ tgt' = [tgt EXCEPT ![p] = Output(job[t].act)] /\ reverted' = Withdrawn(t)
        /\ unstored' = unstored
    BY <1>0, <1>8 DEF WorkReplaced, content, p
  <2>2. CASE \E n \in {"none", "other"} : Report(t, FALSE, n, TRUE)
    <3>1. PICK n \in {"none", "other"} : Report(t, FALSE, n, TRUE)
      BY <2>2
    <3> DEFINE o == [denied |-> FALSE,
                     error |-> IF n = "none" THEN "none" ELSE "conflict",
                     mutated |-> TRUE, confirmed |-> job[t].pending, owing |-> FALSE]
    <3>2. o \in Outcomes /\ n \in Names(o) /\ Possible(o)
      BY <1>0 DEF Outcomes, Names, Possible
    <3>3. ReplacedOutcome(r, content, o)
      BY <1>0, <2>1 DEF ReplacedOutcome, UpToDate, Answers
    <3>4. Outcome(r, content, p \in debt, o)
      BY <1>0, <3>3 DEF Outcome
    <3>5. /\ Report(t, o.denied, n, o.mutated)
          /\ tgt' = IF o.mutated THEN [tgt EXCEPT ![p] = Output(job[t].act)] ELSE tgt
          /\ unstored' = IF o.mutated /\ o.owing THEN p \notin debt ELSE unstored
          /\ reverted' = IF o.mutated THEN Withdrawn(t) ELSE reverted
          /\ debt' = IF o.owing THEN debt \cup {p} ELSE debt \ {p}
      BY <2>1, <3>1
    <3> HIDE DEF o
    <3> QED  BY <1>1, <3>2, <3>4, <3>5
  <2>3. CASE /\ "readback_denied" \in Faults
             /\ Report(t, TRUE, "security_denied", TRUE)
    <3> DEFINE o == [denied |-> TRUE, error |-> "denied", mutated |-> TRUE,
                     confirmed |-> job[t].pending, owing |-> FALSE]
    <3>1. o \in Outcomes /\ "security_denied" \in Names(o) /\ Possible(o)
      BY <1>0, <2>3 DEF Outcomes, Names, Possible
    <3>2. ReplacedOutcome(r, content, o)
      BY <1>0, <2>1 DEF ReplacedOutcome, UpToDate, Answers
    <3>3. Outcome(r, content, p \in debt, o)
      BY <1>0, <3>2 DEF Outcome
    <3>4. /\ Report(t, o.denied, "security_denied", o.mutated)
          /\ tgt' = IF o.mutated THEN [tgt EXCEPT ![p] = Output(job[t].act)] ELSE tgt
          /\ unstored' = IF o.mutated /\ o.owing THEN p \notin debt ELSE unstored
          /\ reverted' = IF o.mutated THEN Withdrawn(t) ELSE reverted
          /\ debt' = IF o.owing THEN debt \cup {p} ELSE debt \ {p}
      BY <2>1, <2>3
    <3> HIDE DEF o
    <3> QED  BY <1>1, <3>1, <3>3, <3>4
  <2> QED  BY <1>8, <2>2, <2>3 DEF WorkReplaced
<1>9. CASE WorkUnsynced(t)
  <2> DEFINE o == [denied |-> FALSE, error |-> "durability_unconfirmed",
                   mutated |-> TRUE, confirmed |-> job[t].pending, owing |-> TRUE]
  <2>1. /\ Wanted(r, content) /\ debt' = debt \cup {p}
        /\ tgt' = [tgt EXCEPT ![p] = Output(job[t].act)] /\ reverted' = Withdrawn(t)
        /\ unstored' = (p \notin debt)
        /\ "fsync_fails" \in Faults /\ Report(t, o.denied, o.error, o.mutated)
    BY <1>0, <1>9 DEF WorkUnsynced, content, p
  <2>2. o \in Outcomes /\ o.error \in Names(o) /\ Possible(o)
    BY <1>0, <2>1 DEF Outcomes, Names, Possible
  <2>3. UnsyncedOutcome(r, content, o)
    BY <1>0, <2>1 DEF UnsyncedOutcome, UpToDate, Answers
  <2>4. Outcome(r, content, p \in debt, o)
    BY <1>0, <2>3 DEF Outcome
  <2>5. /\ tgt' = IF o.mutated THEN [tgt EXCEPT ![p] = Output(job[t].act)] ELSE tgt
        /\ unstored' = IF o.mutated /\ o.owing THEN p \notin debt ELSE unstored
        /\ reverted' = IF o.mutated THEN Withdrawn(t) ELSE reverted
        /\ debt' = IF o.owing THEN debt \cup {p} ELSE debt \ {p}
    BY <2>1
  <2>6. Report(t, o.denied, o.error, o.mutated)
    BY <2>1
  <2> HIDE DEF o
  <2> QED  BY <1>1, <2>2, <2>4, <2>5, <2>6
<1> QED  BY <1>4, <1>5, <1>6, <1>7, <1>8, <1>9 DEF Work, content, p

\* What the runtime's model lets an executor job do is exactly what a job can come
\* to: each outcome that acts on what the target holds, or before it was read, is
\* one of the actions WorkDenied to WorkUnsynced, and each of these is one of those
\* outcomes (Reconciler.run as PatchRuntime takes it, coordinator.py:242-281).
THEOREM WorkIsOutcome ==
  ASSUME TypeOK, NEW t \in Tasks
  PROVE  Work(t) <=> \E content \in {"none", tgt[job[t].patch]}, o \in Outcomes :
                       ComesTo(t, content, o)
BY OutcomeWorks, WorkComes

=============================================================================
