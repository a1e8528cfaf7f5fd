-------------------------- MODULE FileTransaction --------------------------
(***************************************************************************)
(* One reconcile, apply or revert of one rule, in the executor:            *)
(* Reconciler.run with its bounded retry (reconciler.py), the checked read *)
(* of the target (safe_io.py), the commit (atomic_writer.py) and the       *)
(* backups (backup.py), against other programs that write the target, a    *)
(* killed process and a power loss at any point.                           *)
(*                                                                         *)
(* The target's content is abstracted to its relation to the rule's diff.  *)
(* live is what the name leads to; disk is what it may lead to after a     *)
(* power loss if the directory is not flushed before.  A snapshot is stale *)
(* once anybody wrote the target after it was read (identity() compares    *)
(* inode, size, times and mode, verify_snapshot also the hash).            *)
(***************************************************************************)
EXTENDS Naturals, Sequences

CONSTANTS Retention,    \* backups to keep per patch
          MaxBackups,   \* bound: the disk has no room for a further backup
          Faults        \* which of FaultKinds this environment exhibits

FaultKinds == {"io_error", "unflushed_ancestor", "killed", "power_loss",
               "clock_back", "no_quiescence"}

ASSUME TransactionAssumption ==
  /\ Retention \in Nat \ {0}
  /\ MaxBackups \in Nat /\ MaxBackups > Retention
  /\ Faults \subseteq FaultKinds

Acts     == {"reconcile", "apply", "revert", "refresh_source"}
Whole    == {"orig", "patched", "other"}           \* readable contents
Outside  == Whole \cup {"missing", "unsafe"}       \* what others can leave
Contents == Outside \cup {"torn"}
Errors   == {"none", "conflict", "not_applied", "missing_target", "denied",
             "target_changed", "commit_failed", "backup_failed",
             "backup_prune_failed", "durability_unconfirmed"}
Steps    == {"idle", "read", "confirm", "decide", "verify", "temp", "backup_dir",
             "backup_fill", "backup_sync", "verify_again", "recheck", "replace",
             "sync", "read_back", "prune", "done"}
Backups  == [data : {"orig", "patched"}, durable : BOOLEAN]

\* What the runtime asks: the action, the two fields of the rule that decide
\* what it does, and whether a replacement is remembered as unconfirmed.  Only
\* reconcile looks at auto_apply, only what may write at backup_before_apply.
Requests ==
  {r \in [act : Acts, auto : BOOLEAN, backup : BOOLEAN, pending : BOOLEAN] :
     /\ r.auto => r.act = "reconcile"
     /\ r.backup => r.act \in {"apply", "revert"} \/ r.auto}

\* The local state of Reconciler.run.  pending and mutated are those of
\* _Progress, snap and stale describe the snapshot, temp the temporary file and
\* slot the place of the backup that is being made.
Jobs == [pc : Steps, req : Requests, attempt : 0..2, pending : BOOLEAN,
         mutated : BOOLEAN, snap : Whole \cup {"none"}, stale : BOOLEAN,
         temp : {"none", "written", "flushed"}, slot : 0..MaxBackups,
         error : Errors, denied : BOOLEAN]

VARIABLES
  live, disk,    \* the target, now and after a power loss
  job,           \* the executor job
  ancestors,     \* .hapatchy/backups/<id>: absent, created, durably linked
  backups,       \* complete backups, in the order of their names
  debt,          \* ghost: replaced, and the directory not flushed since
  owed           \* ghost: the bytes the last backed-up replacement overwrote

targetVars == <<live, disk>>
backupVars == <<ancestors, backups>>
ghosts     == <<debt, owed>>
vars == <<targetVars, job, backupVars, ghosts>>

TypeOK ==
  /\ live \in Contents /\ disk \in Contents
  /\ job \in Jobs
  /\ ancestors \in {"absent", "created", "durable"}
  /\ backups \in Seq(Backups) /\ Len(backups) <= MaxBackups
  /\ debt \in BOOLEAN /\ owed \in {"none", "orig", "patched"}

Fresh(r) == [pc |-> "read", req |-> r, attempt |-> 0, pending |-> r.pending,
             mutated |-> FALSE, snap |-> "none", stale |-> FALSE,
             temp |-> "none", slot |-> 0, error |-> "none", denied |-> FALSE]

IdleJob ==
  [Fresh([act |-> "reconcile", auto |-> FALSE, backup |-> FALSE, pending |-> FALSE])
     EXCEPT !.pc = "idle"]

Init ==
  /\ live \in Outside /\ disk = live
  /\ job = IdleJob
  /\ ancestors = "absent" /\ backups = <<>>
  /\ debt = FALSE /\ owed = "none"

At(step) == job.pc = step
Go(step) == job' = [job EXCEPT !.pc = step]

-----------------------------------------------------------------------------
(* Results.  A PatchError ends the attempt and reaches Reconciler.run.      *)

\* The temporary file is unlinked by commit's finally clause.
Finish(why, security) ==
  job' = [job EXCEPT !.pc = "done", !.error = why, !.denied = security,
                     !.temp = "none", !.snap = "none", !.stale = FALSE, !.slot = 0]

\* Another attempt starts from nothing but the progress record.
RetryUncounted ==
  job' = [job EXCEPT !.pc = "read",
                     !.temp = "none", !.snap = "none", !.stale = FALSE, !.slot = 0]
Retry ==
  job' = [job EXCEPT !.pc = "read", !.attempt = @ + 1,
                     !.temp = "none", !.snap = "none", !.stale = FALSE, !.slot = 0]

MayRetryReplaced(why) == why = "target_changed" /\ job.attempt < 2
MayRetry(why) == why = "target_changed" /\ ~job.mutated /\ job.attempt < 2

\* The except clause of Reconciler.run: an unconfirmed replacement stays the
\* reported error, a changed target is inspected again, twice.
KeepsPendingNever(security) == FALSE
KeepsPending(security) == job.pending /\ ~security

Raise(why, security) ==
  \/ KeepsPending(security) /\ Finish("durability_unconfirmed", FALSE)
  \/ ~KeepsPending(security) /\ MayRetry(why) /\ Retry
  \/ ~KeepsPending(security) /\ ~MayRetry(why) /\ Finish(why, security)

Fails(why) == "io_error" \in Faults /\ Raise(why, FALSE)

\* GuardedFile.read raises: the name leads nowhere, to what may not be read, or
\* to a file that changes while it is read.
ReadRaises ==
  \/ live = "missing" /\ Raise("missing_target", FALSE)
  \/ live = "unsafe" /\ Raise("denied", TRUE)
  \/ live \in Whole /\ Raise("target_changed", FALSE)

-----------------------------------------------------------------------------
(* Reconciler._attempt                                                      *)

\* The runtime passes the pending flag it remembers, which may say less (after
\* a crash) or more than is true.
Start ==
  /\ job.pc \in {"idle", "done"}
  /\ \E r \in Requests : job' = Fresh(r)
  /\ UNCHANGED <<targetVars, backupVars, ghosts>>

\* Policy check, parse and read; the first two can only refuse.
ReadTarget ==
  /\ At("read")
  /\ \/ Raise("denied", TRUE)
     \/ ReadRaises
     \/ /\ live \in Whole
        /\ job' = [job EXCEPT !.pc = IF job.pending THEN "confirm" ELSE "decide",
                              !.snap = live]
  /\ UNCHANGED <<targetVars, backupVars, ghosts>>

\* confirm_durability: the directory flush is tried again.
ConfirmDurability ==
  /\ At("confirm")
  /\ \/ /\ job.stale \/ live \notin Whole
        /\ ReadRaises
        /\ UNCHANGED <<disk, debt>>
     \/ /\ ~job.stale /\ live \in Whole
        /\ disk' = live
        /\ debt' = FALSE
        /\ job' = [job EXCEPT !.pc = "decide", !.pending = FALSE]
     \/ /\ ~job.stale /\ live \in Whole
        /\ Fails("durability_unconfirmed")
        /\ UNCHANGED <<disk, debt>>
  /\ UNCHANGED <<live, backupVars, owed>>

\* inspect and _output_for_action.
WantsOutput ==
  \/ job.req.act = "revert" /\ job.snap = "patched"
  \/ job.req.act = "apply" /\ job.snap = "orig"
  \/ job.req.act = "reconcile" /\ job.req.auto /\ job.snap = "orig"

Output == IF job.req.act = "revert" THEN "orig" ELSE "patched"

BackupRequired == job.req.act = "revert" \/ job.req.backup

Inspected(content) == IF content = "other" THEN "conflict" ELSE "none"

Decide ==
  /\ At("decide")
  /\ \/ WantsOutput /\ Go("verify")
     \/ /\ ~WantsOutput
        /\ Finish(IF job.req.act = "revert" /\ job.snap = "orig"
                    THEN "not_applied" ELSE Inspected(job.snap), FALSE)
  /\ UNCHANGED <<targetVars, backupVars, ghosts>>

-----------------------------------------------------------------------------
(* AtomicFileWriter.commit                                                  *)

\* verify_snapshot: read again and compare.
Verified(step) ==
  \/ ReadRaises /\ (job.stale \/ live \notin Whole)
  \/ ~job.stale /\ live \in Whole /\ Go(step)
VerifiedUnchecked(step) == Go(step)
VerifiedAgain(step) == Verified(step)

VerifySnapshot ==
  /\ At("verify")
  /\ Verified("temp")
  /\ UNCHANGED <<targetVars, backupVars, ghosts>>

\* Bytes, owner, mode and flush of the temporary file.
FlushedSkipped == "written"
Flushed == "flushed"
WriteTemporary ==
  /\ At("temp")
  /\ \/ job' = [job EXCEPT !.pc = IF BackupRequired THEN "backup_dir" ELSE "verify_again",
                           !.temp = Flushed]
     \/ Fails("commit_failed")
  /\ UNCHANGED <<targetVars, backupVars, ghosts>>

\* GuardedDirectory(create=True): a directory is flushed by who made it, and by
\* nobody who finds it after a failure or a kill between the two.
BackupDirectory ==
  /\ At("backup_dir")
  /\ \/ /\ Len(backups) < MaxBackups
        /\ ancestors' = IF ancestors = "absent" THEN "durable" ELSE ancestors
        /\ Go("backup_fill")
     \/ /\ "unflushed_ancestor" \in Faults /\ ancestors = "absent"
        /\ ancestors' = "created"
        /\ Raise("backup_failed", FALSE)
     \/ Fails("backup_failed") /\ UNCHANGED ancestors
     \/ Len(backups) = MaxBackups /\ Raise("backup_failed", FALSE) /\ UNCHANGED ancestors
  /\ UNCHANGED <<targetVars, backups, ghosts>>

\* The two files of the backup.  Names sort by time: the new one is the last,
\* unless the clock was set back.
FillBackup ==
  /\ At("backup_fill")
  /\ LET new == [data |-> job.snap, durable |-> FALSE] IN
       \/ /\ backups' = Append(backups, new)
          /\ job' = [job EXCEPT !.pc = "backup_sync", !.slot = Len(backups) + 1]
       \/ /\ "clock_back" \in Faults
          /\ backups' = <<new>> \o backups
          /\ job' = [job EXCEPT !.pc = "backup_sync", !.slot = 1]
       \/ Fails("backup_failed") /\ UNCHANGED backups
  /\ UNCHANGED <<targetVars, ancestors, ghosts>>

\* The flush of the new backup and of the directory that names it.
SyncBackup ==
  /\ At("backup_sync")
  /\ \/ /\ backups' = [backups EXCEPT ![job.slot].durable = TRUE]
        /\ job' = [job EXCEPT !.pc = "verify_again", !.slot = 0]
     \/ Fails("backup_failed") /\ UNCHANGED backups
  /\ UNCHANGED <<targetVars, ancestors, ghosts>>

\* Preparing took time: the target is compared with the inspected one again.
VerifyAgain ==
  /\ At("verify_again")
  /\ VerifiedAgain("recheck")
  /\ UNCHANGED <<targetVars, backupVars, ghosts>>

\* before_commit: grants and path policy once more.
RecheckPolicy ==
  /\ At("recheck")
  /\ Raise("denied", TRUE) \/ Go("replace")
  /\ UNCHANGED <<targetVars, backupVars, ghosts>>

\* os.replace: until the directory is flushed a power loss may undo it, or show
\* unflushed bytes as a torn file.
Replace ==
  /\ At("replace")
  /\ \/ /\ live' = Output
        /\ disk' = IF job.temp = "flushed" THEN disk ELSE "torn"
        /\ job' = [job EXCEPT !.pc = "sync", !.mutated = TRUE, !.temp = "none"]
        /\ debt' = TRUE
        /\ owed' = IF BackupRequired THEN job.snap ELSE "none"
     \/ Fails("commit_failed") /\ UNCHANGED <<targetVars, ghosts>>
  /\ UNCHANGED backupVars

\* The flush of the target's directory; a failure is reported as such.
SyncTarget ==
  /\ At("sync")
  /\ \/ disk' = live /\ debt' = FALSE /\ Go("read_back")
     \/ Fails("durability_unconfirmed") /\ UNCHANGED <<disk, debt>>
  /\ UNCHANGED <<live, backupVars, owed>>

\* After the commit: read and inspect what is there now.
ReadBack ==
  /\ At("read_back")
  /\ \/ ReadRaises
     \/ live \in Whole /\ job' = [job EXCEPT !.pc = "prune", !.snap = live]
  /\ UNCHANGED <<targetVars, backupVars, ghosts>>

\* prune: the oldest names beyond the retention go; it may stop half way.
ExcessOffByOne ==
  IF Len(backups) > 0 THEN Len(backups) - (Retention - 1) ELSE 0
Excess == IF Len(backups) > Retention THEN Len(backups) - Retention ELSE 0

Prune ==
  /\ At("prune")
  /\ \/ /\ backups' = SubSeq(backups, Excess + 1, Len(backups))
        /\ Finish(Inspected(job.snap), FALSE)
     \/ /\ \E k \in 0..Excess : backups' = SubSeq(backups, k + 1, Len(backups))
        /\ Fails("backup_prune_failed")
  /\ UNCHANGED <<targetVars, ancestors, ghosts>>

-----------------------------------------------------------------------------
(* Surroundings                                                             *)

\* Another program writes, removes or links the target (that a power loss undoes
\* its work is the same as one more write).  The code relies on quiescence
\* between the last check and the replacement.  A write between two jobs is one
\* before the next job's first read.
WriteOutside ==
  /\ ~At("done")
  /\ job.pc \in {"recheck", "replace"} => "no_quiescence" \in Faults
  /\ live' \in Outside
  /\ disk' = live'
  /\ job' = [job EXCEPT !.stale = (job.snap # "none")]
  /\ owed' = "none"
  /\ UNCHANGED <<backupVars, debt>>

\* The process dies; the kernel keeps what it was told.  A temporary file may
\* remain, where nothing reads it.
Killed ==
  /\ "killed" \in Faults
  /\ ~At("idle")
  /\ job' = IdleJob
  /\ \/ UNCHANGED ancestors
     \/ /\ At("backup_dir") /\ ancestors = "absent"
        /\ ancestors' = IF "unflushed_ancestor" \in Faults THEN "created" ELSE "durable"
  /\ UNCHANGED <<targetVars, backups, ghosts>>

\* Backups after a power failure: those that were flushed, and some others.
Surviving == UNION {
  {[k \in 1..n |-> backups[at[k]]] : at \in
     {f \in [1..n -> DOMAIN backups] :
        /\ \A k, l \in 1..n : k < l => f[k] < f[l]
        /\ \A i \in DOMAIN backups :
             backups[i].durable => \E k \in 1..n : f[k] = i}} :
  n \in 0..Len(backups)}

\* Power fails: only what was flushed is certain.
PowerLoss ==
  /\ "power_loss" \in Faults
  /\ job' = IdleJob
  /\ live' \in {live, disk}
  /\ disk' = live'
  /\ debt' = FALSE
  /\ owed' = IF debt THEN "none" ELSE owed
  /\ \/ ancestors = "created" /\ ancestors' = "absent" /\ backups' = <<>>
     \/ /\ ancestors' = IF ancestors = "absent" THEN "absent" ELSE "durable"
        /\ backups' \in Surviving

Transaction ==
  \/ ReadTarget \/ ConfirmDurability \/ Decide \/ VerifySnapshot
  \/ WriteTemporary \/ BackupDirectory \/ FillBackup \/ SyncBackup \/ VerifyAgain
  \/ RecheckPolicy \/ Replace \/ SyncTarget \/ ReadBack \/ Prune

Next == Start \/ Transaction \/ WriteOutside \/ Killed \/ PowerLoss

Spec == Init /\ [][Next]_vars

\* The executor runs the job it was given.
LiveSpec == Spec /\ WF_vars(Transaction)

-----------------------------------------------------------------------------
(* Properties                                                               *)

\* The target is never seen half written, not even after a power loss: its
\* bytes are flushed before they get its name.
TargetWhole == live # "torn"

\* A replacement overwrites exactly the bytes that were inspected and, when
\* required, backed up durably; a job replaces at most once, whatever retries.
ReplacesInspected ==
  [][job'.mutated /\ ~job.mutated =>
       /\ live = job.snap
       /\ live' # live
       /\ BackupRequired => [data |-> live, durable |-> TRUE] \in
                              {backups[i] : i \in DOMAIN backups}]_vars

\* What a backed-up replacement overwrote stays recoverable, also after a power
\* loss: pruning and later failed attempts never take the last preimage.
PreimageRecoverable ==
  owed # "none" => \E i \in DOMAIN backups : backups[i].data = owed

\* A result does not hide an unconfirmed replacement the job made or was asked
\* to confirm: unless policy stopped it first, it says durability_unconfirmed
\* as long as that is so.
HonestResult ==
  At("done") /\ debt /\ (job.mutated \/ (job.req.pending /\ ~job.denied)) =>
    job.error = "durability_unconfirmed"

\* A job ends although other programs keep writing the target.
JobReturns == At("read") ~> job.pc \in {"done", "idle"}

-----------------------------------------------------------------------------
(* Refinement                                                               *)

AskedOf ==
  IF job.pc \in {"idle", "done"} THEN [act |-> "nothing", auto |-> FALSE, pending |-> FALSE]
  ELSE [act |-> job.req.act, auto |-> job.req.auto, pending |-> job.pending]

\* After the replacement the snapshot is the old one until the target is read back.
SeenOf == IF job.pc \in {"sync", "read_back"} THEN "none" ELSE job.snap

WroteOf == ~At("done") /\ job.mutated

AnswerOf ==
  [denied |-> job.denied, error |-> job.error, mutated |-> At("done") /\ job.mutated]

Contract == INSTANCE JobContract WITH
  target <- live,
  settled <- disk,
  owing <- debt,
  asked <- AskedOf,
  seen <- SeenOf,
  wrote <- WroteOf,
  answer <- AnswerOf

\* With its attempts, checks, temporary files and backups, and whatever fails on
\* the way, a job is what the runtime takes it to be.
ImplementsJob == Contract!Spec
=============================================================================
