----------------------- MODULE FileTransactionProofs -----------------------
(* Proofs about FileTransaction, for any retention, any room for backups    *)
(* and, unless a theorem excludes some, any faults.                         *)
EXTENDS JobHistory, TLAPS

-----------------------------------------------------------------------------
(* The inductive invariant                                                  *)

Filled     == {"verify_again", "recheck", "replace"}
Temporary  == {"backup_dir", "backup_fill", "backup_sync"} \cup Filled
Committing == {"verify", "temp"} \cup Temporary
Replaced   == {"sync", "read_back", "prune"}

\* A backup is only begun where there is room for it.
RoomLeft == At("backup_fill") => Len(backups) < MaxBackups

\* What is committed was decided on from the snapshot; the snapshot is what is
\* there unless somebody wrote since.
Decided ==
  /\ job.pc \in {"confirm", "decide"} \cup Committing => job.snap # "none"
  /\ job.pc \in Committing => WantsOutput
  /\ job.pc \in {"confirm", "decide"} \cup Committing /\ ~job.stale
       => live = job.snap
  /\ job.pc \in Temporary => job.temp = "flushed"

\* Between the last check and the replacement nobody writes.
Quiescent ==
  "no_quiescence" \notin Faults /\ job.pc \in {"recheck", "replace"} => ~job.stale

\* A job replaces once, and goes back to nothing afterwards.
ReplacedOnce ==
  /\ job.mutated => job.pc \in Replaced \cup {"done"}
  /\ job.pc \in Replaced => job.mutated

\* The backup of a replacement is made of the snapshot, and flushed before it.
BackedUp ==
  /\ At("backup_sync") => /\ job.slot \in DOMAIN backups
                          /\ backups[job.slot].data = job.snap
  /\ job.pc \in Filled /\ BackupRequired =>
       \E i \in DOMAIN backups : backups[i].data = job.snap /\ backups[i].durable

\* What is on disk and what may be was flushed.
NeverTorn == live # "torn" /\ disk # "torn"

\* An unconfirmed replacement is either remembered or was just confirmed.
Remembered ==
  /\ job.pc \in {"read_back", "prune"} => ~debt
  /\ job.pc \notin {"idle", "done"} /\ job.req.pending /\ debt /\ ~job.mutated
       => job.pending
  /\ job.pc \in {"decide"} \cup Committing \cup Replaced => ~job.pending

Ordered ==
  /\ Decided
  /\ Quiescent
  /\ ReplacedOnce
  /\ BackedUp
  /\ NeverTorn
  /\ Remembered
  /\ HonestResult

IInv == TypeOK /\ RoomLeft /\ Ordered

-----------------------------------------------------------------------------
(* Types                                                                    *)

LEMMA StepNames ==
  /\ "idle" \in Steps /\ "read" \in Steps /\ "confirm" \in Steps
  /\ "decide" \in Steps /\ "verify" \in Steps /\ "temp" \in Steps
  /\ "backup_dir" \in Steps /\ "backup_fill" \in Steps
  /\ "backup_sync" \in Steps /\ "verify_again" \in Steps
  /\ "recheck" \in Steps /\ "replace" \in Steps /\ "sync" \in Steps
  /\ "read_back" \in Steps /\ "prune" \in Steps /\ "done" \in Steps
BY DEF Steps

LEMMA ErrorNames ==
  /\ "none" \in Errors /\ "conflict" \in Errors /\ "not_applied" \in Errors
  /\ "missing_target" \in Errors /\ "denied" \in Errors
  /\ "target_changed" \in Errors /\ "commit_failed" \in Errors
  /\ "backup_failed" \in Errors /\ "backup_prune_failed" \in Errors
  /\ "durability_unconfirmed" \in Errors
BY DEF Errors

LEMMA NoSlot == 0 \in 0..MaxBackups
BY TransactionAssumption

LEMMA FreshType == \A r \in Requests : Fresh(r) \in Jobs
<1> TAKE r \in Requests
<1>1. r.pending \in BOOLEAN
  BY DEF Requests
<1> QED
  BY <1>1, StepNames, ErrorNames, NoSlot DEF Fresh, Jobs

LEMMA IdleType == IdleJob \in Jobs
<1> DEFINE r == [act |-> "reconcile", auto |-> FALSE, backup |-> FALSE,
                 pending |-> FALSE]
<1>1. r \in Requests
  BY DEF Requests, Acts
<1>2. Fresh(r) \in Jobs
  BY <1>1, FreshType
<1>3. IdleJob = [Fresh(r) EXCEPT !.pc = "idle"]
  BY DEF IdleJob
<1> HIDE DEF r
<1> QED
  BY <1>2, <1>3, StepNames DEF Jobs

LEMMA InitType == Init => TypeOK
<1> SUFFICES ASSUME Init PROVE TypeOK
  OBVIOUS
<1>1. backups \in Seq(Backups) /\ Len(backups) = 0
  BY DEF Init
<1>2. live \in Contents /\ disk \in Contents
  BY DEF Init, Contents
<1>3. Len(backups) <= MaxBackups
  BY <1>1, TransactionAssumption
<1> QED
  BY <1>1, <1>2, <1>3, IdleType DEF Init, TypeOK

\* What the ways to go on do to a job.
LEMMA GoType ==
  ASSUME job \in Jobs, NEW pc \in Steps, Go(pc)
  PROVE  job' \in Jobs
BY DEF Go, Jobs

LEMMA FinishType ==
  ASSUME job \in Jobs, NEW why \in Errors, NEW security \in BOOLEAN,
         Finish(why, security)
  PROVE  job' \in Jobs
BY StepNames, NoSlot DEF Finish, Jobs

LEMMA RetryType ==
  ASSUME job \in Jobs, job.attempt < 2, Retry
  PROVE  job' \in Jobs
<1>1. job.attempt + 1 \in 0..2
  BY DEF Jobs
<1> QED
  BY <1>1, StepNames, NoSlot DEF Retry, Jobs

LEMMA RaiseType ==
  ASSUME job \in Jobs, NEW why \in Errors, NEW security \in BOOLEAN,
         Raise(why, security)
  PROVE  job' \in Jobs
BY FinishType, RetryType, ErrorNames DEF Raise, MayRetry

LEMMA FailsType ==
  ASSUME job \in Jobs, NEW why \in Errors, Fails(why)
  PROVE  job' \in Jobs
BY RaiseType DEF Fails

LEMMA ReadRaisesType ==
  ASSUME job \in Jobs, ReadRaises
  PROVE  job' \in Jobs
BY RaiseType, ErrorNames DEF ReadRaises

\* What is left of the backups by a power failure.
LEMMA SurvivingType ==
  ASSUME TypeOK, NEW s \in Surviving
  PROVE  /\ s \in Seq(Backups) /\ Len(s) <= MaxBackups
         /\ \A i \in DOMAIN backups :
              backups[i].durable => \E k \in DOMAIN s : s[k] = backups[i]
<1>1. PICK n \in 0..Len(backups) :
        s \in {[k \in 1..n |-> backups[at[k]]] : at \in
                 {f \in [1..n -> DOMAIN backups] :
                    /\ \A k, l \in 1..n : k < l => f[k] < f[l]
                    /\ \A i \in DOMAIN backups :
                         backups[i].durable => \E k \in 1..n : f[k] = i}}
  BY Zenon DEF Surviving
<1>2. PICK at \in [1..n -> DOMAIN backups] :
        /\ \A i \in DOMAIN backups :
             backups[i].durable => \E k \in 1..n : at[k] = i
        /\ s = [k \in 1..n |-> backups[at[k]]]
  BY <1>1
<1>3. backups \in Seq(Backups) /\ Len(backups) <= MaxBackups /\ MaxBackups \in Nat
  BY TransactionAssumption DEF TypeOK
<1>4. \A k \in 1..n : backups[at[k]] \in Backups
  BY <1>2, <1>3
<1>5. s \in Seq(Backups) /\ Len(s) = n
  BY <1>2, <1>3, <1>4
<1> QED
  BY <1>2, <1>3, <1>5

\* The job, step by step.
LEMMA JobType ==
  ASSUME TypeOK, RoomLeft, Transaction
  PROVE  job' \in Jobs
<1> USE StepNames, ErrorNames
<1>0. job \in Jobs
  BY DEF TypeOK
<1>1. CASE ReadTarget
  <2>1. ASSUME live \in Whole, NEW pc \in Steps,
               job' = [job EXCEPT !.pc = pc, !.snap = live]
        PROVE  job' \in Jobs
    BY <1>0, <2>1 DEF Jobs
  <2> QED
    BY <1>0, <1>1, <2>1, RaiseType, ReadRaisesType DEF ReadTarget
<1>2. CASE ConfirmDurability
  <2>1. ASSUME job' = [job EXCEPT !.pc = "decide", !.pending = FALSE]
        PROVE  job' \in Jobs
    BY <1>0, <2>1 DEF Jobs
  <2> QED
    BY <1>0, <1>2, <2>1, FailsType, ReadRaisesType DEF ConfirmDurability
<1>3. CASE Decide
  BY <1>0, <1>3, GoType, FinishType DEF Decide, Inspected
<1>4. CASE VerifySnapshot \/ VerifyAgain
  BY <1>0, <1>4, GoType, ReadRaisesType
  DEF VerifySnapshot, VerifyAgain, VerifiedAgain, Verified
<1>5. CASE WriteTemporary
  <2>1. ASSUME NEW pc \in Steps,
               job' = [job EXCEPT !.pc = pc, !.temp = "flushed"]
        PROVE  job' \in Jobs
    BY <1>0, <2>1 DEF Jobs
  <2> QED
    BY <1>0, <1>5, <2>1, FailsType DEF WriteTemporary, Flushed
<1>6. CASE BackupDirectory
  BY <1>0, <1>6, GoType, RaiseType, FailsType DEF BackupDirectory
<1>7. CASE SyncBackup
  <2>1. ASSUME job' = [job EXCEPT !.pc = "verify_again", !.slot = 0]
        PROVE  job' \in Jobs
    BY <1>0, <2>1, NoSlot DEF Jobs
  <2> QED
    BY <1>0, <1>7, <2>1, FailsType DEF SyncBackup
<1>8. CASE RecheckPolicy
  BY <1>0, <1>8, GoType, RaiseType DEF RecheckPolicy
<1>9. CASE Replace
  <2>1. ASSUME job' = [job EXCEPT !.pc = "sync", !.mutated = TRUE, !.temp = "none"]
        PROVE  job' \in Jobs
    BY <1>0, <2>1 DEF Jobs
  <2> QED
    BY <1>0, <1>9, <2>1, FailsType DEF Replace
<1>10. CASE SyncTarget
  BY <1>0, <1>10, GoType, FailsType DEF SyncTarget
<1>11. CASE ReadBack
  <2>1. ASSUME live \in Whole, job' = [job EXCEPT !.pc = "prune", !.snap = live]
        PROVE  job' \in Jobs
    BY <1>0, <2>1 DEF Jobs
  <2> QED
    BY <1>0, <1>11, <2>1, ReadRaisesType DEF ReadBack
<1>12. CASE Prune
  BY <1>0, <1>12, FinishType, FailsType DEF Prune, Inspected
<1>13. CASE FillBackup
  <2>1. ASSUME NEW n \in 0..MaxBackups,
               job' = [job EXCEPT !.pc = "backup_sync", !.slot = n]
        PROVE  job' \in Jobs
    BY <1>0, <2>1 DEF Jobs
  <2>2. Len(backups) \in Nat /\ Len(backups) < MaxBackups
    BY <1>13 DEF FillBackup, RoomLeft, TypeOK, At
  <2>3. 1 \in 0..MaxBackups /\ Len(backups) + 1 \in 0..MaxBackups
    BY <2>2, TransactionAssumption
  <2> QED
    BY <1>0, <1>13, <2>1, <2>3, FailsType DEF FillBackup
<1> QED
  BY <1>1, <1>2, <1>3, <1>4, <1>5, <1>6, <1>7, <1>8, <1>9, <1>10, <1>11, <1>12,
     <1>13 DEF Transaction

\* The backups, step by step.
LEMMA BackupsType ==
  ASSUME TypeOK, RoomLeft, Decided, Transaction
  PROVE  backups' \in Seq(Backups) /\ Len(backups') <= MaxBackups
<1> USE TransactionAssumption DEF TypeOK
<1>1. CASE UNCHANGED backups
  BY <1>1
<1>2. CASE FillBackup
  <2> DEFINE new == [data |-> job.snap, durable |-> FALSE]
  <2>1. At("backup_fill") /\ Len(backups) < MaxBackups /\ Len(backups) \in Nat
    BY <1>2 DEF FillBackup, RoomLeft
  <2>2. new \in Backups
    BY <2>1 DEF Decided, WantsOutput, Committing, Temporary, Backups, At
  <2>3. <<new>> \in Seq(Backups) /\ Len(<<new>>) = 1
    BY <2>2
  <2> HIDE DEF new
  <2>4. /\ Append(backups, new) \in Seq(Backups)
        /\ Len(Append(backups, new)) = Len(backups) + 1
    BY <2>2
  <2>5. /\ <<new>> \o backups \in Seq(Backups)
        /\ Len(<<new>> \o backups) = Len(backups) + 1
    BY <2>2, <2>3, <2>1
  <2>6. \/ UNCHANGED backups
        \/ backups' = Append(backups, new)
        \/ backups' = <<new>> \o backups
    BY <1>2 DEF FillBackup, new
  <2>7. CASE backups' = Append(backups, new)
    BY <2>1, <2>4, <2>7
  <2>8. CASE backups' = <<new>> \o backups
    BY <2>1, <2>5, <2>8
  <2> QED
    BY <1>1, <2>6, <2>7, <2>8
<1>3. CASE SyncBackup
  <2>1. CASE backups' = [backups EXCEPT ![job.slot].durable = TRUE]
    <3>1. \A b \in Backups : [b EXCEPT !.durable = TRUE] \in Backups
      BY DEF Backups
    <3>2. backups \in [1..Len(backups) -> Backups] /\ Len(backups) \in Nat
      OBVIOUS
    <3>3. backups' \in [1..Len(backups) -> Backups]
      BY <2>1, <3>1, <3>2
    <3>4. backups' \in Seq(Backups) /\ Len(backups') = Len(backups)
      BY <3>2, <3>3
    <3> QED
      BY <3>4
  <2> QED
    BY <1>1, <1>3, <2>1 DEF SyncBackup
<1>4. CASE Prune
  <2>1. PICK k \in 0..Excess : backups' = SubSeq(backups, k + 1, Len(backups))
    <3>1. Excess \in Nat
      BY DEF Excess
    <3>2. Excess \in 0..Excess
      BY <3>1
    <3> HIDE DEF TypeOK
    <3> QED
      BY <1>4, <3>2 DEF Prune
  <2>2. k \in 0..Len(backups)
    BY DEF Excess
  <2>3. backups' \in Seq(Backups) /\ Len(backups') = Len(backups) - k
    BY <2>1, <2>2
  <2> QED
    BY <2>2, <2>3
<1> QED
  BY <1>1, <1>2, <1>3, <1>4
  DEF Transaction, ReadTarget, ConfirmDurability, Decide, VerifySnapshot,
      WriteTemporary, BackupDirectory, VerifyAgain, RecheckPolicy, Replace,
      SyncTarget, ReadBack, backupVars

-----------------------------------------------------------------------------
(* Order                                                                    *)

\* What the ways to go on do to the fields of a job.
LEMMA GoEffect ==
  ASSUME job \in Jobs, NEW p, Go(p)
  PROVE  /\ job'.pc = p
         /\ UNCHANGED <<job.req, job.pending, job.mutated, job.snap, job.stale,
                        job.temp, job.slot, job.error, job.denied>>
BY DEF Go, Jobs

LEMMA FinishEffect ==
  ASSUME job \in Jobs, NEW why, NEW security, Finish(why, security)
  PROVE  /\ job'.pc = "done" /\ job'.error = why /\ job'.denied = security
         /\ UNCHANGED <<job.req, job.mutated, job.pending>>
BY DEF Finish, Jobs

LEMMA RaiseEffect ==
  ASSUME job \in Jobs, NEW why, NEW security \in BOOLEAN, Raise(why, security)
  PROVE  /\ job'.pc \in {"read", "done"}
         /\ UNCHANGED <<job.req, job.mutated, job.pending>>
         /\ job'.pc = "read" => why = "target_changed" /\ ~job.mutated
         /\ job'.pc = "done" =>
              \/ job'.error = "durability_unconfirmed"
              \/ security /\ job'.denied
              \/ ~security /\ ~job.pending /\ job'.error = why
<1>1. CASE Retry /\ MayRetry(why)
  BY <1>1 DEF Retry, MayRetry, Jobs
<1>2. CASE KeepsPending(security) /\ Finish("durability_unconfirmed", FALSE)
  BY <1>2, FinishEffect
<1>3. CASE ~KeepsPending(security) /\ Finish(why, security)
  BY <1>3, FinishEffect DEF KeepsPending
<1> QED
  BY <1>1, <1>2, <1>3 DEF Raise

\* An exception leaves what the invariant says, if the job reports what it
\* leaves unconfirmed.
LEMMA RaiseHolds ==
  ASSUME IInv, NEW why, NEW security \in BOOLEAN, Raise(why, security),
         job.pc \notin {"idle", "done"}, UNCHANGED <<live, disk, debt>>,
         job.mutated /\ debt => why = "durability_unconfirmed" /\ ~security
  PROVE  Ordered'
<1> USE DEF IInv, Ordered
<1>1. job \in Jobs
  BY DEF TypeOK
<1>2. /\ job'.pc \in {"read", "done"}
      /\ UNCHANGED <<job.req, job.mutated, job.pending>>
      /\ job'.pc = "read" => ~job.mutated
      /\ job'.pc = "done" =>
           \/ job'.error = "durability_unconfirmed"
           \/ security /\ job'.denied
           \/ ~security /\ ~job.pending /\ job'.error = why
  BY <1>1, RaiseEffect
<1>3. Decided' /\ Quiescent' /\ BackedUp'
  BY <1>2 DEF Decided, Quiescent, BackedUp, Committing, Temporary, Filled, At
<1>4. ReplacedOnce' /\ NeverTorn'
  BY <1>2 DEF ReplacedOnce, NeverTorn, Replaced
<1>5. Remembered'
  BY <1>2 DEF Remembered, Committing, Temporary, Filled, Replaced
<1>6. HonestResult'
  BY <1>2 DEF HonestResult, Remembered, At
<1> QED
  BY <1>3, <1>4, <1>5, <1>6

LEMMA FailsHolds ==
  ASSUME IInv, NEW why, Fails(why),
         job.pc \notin {"idle", "done"}, UNCHANGED <<live, disk, debt>>,
         job.mutated /\ debt => why = "durability_unconfirmed"
  PROVE  Ordered'
BY RaiseHolds DEF Fails

LEMMA ReadRaisesHolds ==
  ASSUME IInv, ReadRaises,
         job.pc \notin {"idle", "done"}, UNCHANGED <<live, disk, debt>>,
         ~(job.mutated /\ debt)
  PROVE  Ordered'
BY RaiseHolds DEF ReadRaises

\* A replaced target is unconfirmed only until its directory is flushed.
LEMMA Unconfirmed ==
  ASSUME IInv, job.pc \notin {"sync", "done"}
  PROVE  ~(job.mutated /\ debt)
BY DEF IInv, Ordered, ReplacedOnce, Remembered, Replaced

\* Steps up to the decision.
LEMMA DecideOrdered ==
  ASSUME IInv, ReadTarget \/ ConfirmDurability \/ Decide
  PROVE  Ordered'
<1> USE Unconfirmed DEF At, targetVars, backupVars, ghosts
<1>0. job \in Jobs
  BY DEF IInv, TypeOK
<1>1. CASE ReadTarget
  <2>1. CASE /\ live \in Whole
             /\ job' = [job EXCEPT
                          !.pc = IF job.pending THEN "confirm" ELSE "decide",
                          !.snap = live]
    <3>1. /\ job'.pc \in {"confirm", "decide"} /\ job'.snap = live
          /\ job'.pc = IF job.pending THEN "confirm" ELSE "decide"
          /\ UNCHANGED <<job.req, job.pending, job.mutated>>
      BY <1>0, <2>1 DEF Jobs
    <3> QED
      BY <1>1, <2>1, <3>1
      DEF IInv, Ordered, ReadTarget, Decided, Quiescent, ReplacedOnce, BackedUp,
          NeverTorn, Remembered, HonestResult, Filled, Temporary, Committing,
          Replaced, Whole
  <2> QED
    BY <1>1, <2>1, RaiseHolds, ReadRaisesHolds DEF ReadTarget
<1>2. CASE ConfirmDurability
  <2>1. CASE /\ ReadRaises \/ Fails("durability_unconfirmed")
             /\ UNCHANGED <<disk, debt>>
    BY <1>2, <2>1, FailsHolds, ReadRaisesHolds DEF ConfirmDurability
  <2>2. CASE job' = [job EXCEPT !.pc = "decide", !.pending = FALSE]
             /\ disk' = live /\ debt' = FALSE
    BY <1>0, <1>2, <2>2
    DEF IInv, Ordered, ConfirmDurability, Decided, Quiescent, ReplacedOnce,
        BackedUp, NeverTorn, Remembered, HonestResult, Filled, Temporary,
        Committing, Replaced, Jobs
  <2> QED
    BY <1>2, <2>1, <2>2 DEF ConfirmDurability
<1>3. CASE Decide
  <2>1. CASE Go("verify") /\ WantsOutput
    <3>1. /\ job'.pc = "verify"
          /\ UNCHANGED <<job.req, job.pending, job.mutated, job.snap, job.stale>>
      BY <1>0, <2>1, GoEffect
    <3>2. WantsOutput'
      BY <2>1, <3>1 DEF WantsOutput
    <3> QED
      BY <1>3, <2>1, <3>1, <3>2
      DEF IInv, Ordered, Decide, Decided, Quiescent, ReplacedOnce, BackedUp,
          NeverTorn, Remembered, HonestResult, Filled, Temporary, Committing,
          Replaced
  <2>2. ASSUME NEW why, Finish(why, FALSE)
        PROVE  Ordered'
    <3>1. /\ job'.pc = "done"
          /\ UNCHANGED <<job.req, job.pending, job.mutated>>
      BY <1>0, <2>2, FinishEffect
    <3> QED
      BY <1>3, <3>1
      DEF IInv, Ordered, Decide, Decided, Quiescent, ReplacedOnce, BackedUp,
          NeverTorn, Remembered, HonestResult, Filled, Temporary, Committing,
          Replaced
  <2> QED
    BY <1>3, <2>1, <2>2 DEF Decide
<1> QED
  BY <1>1, <1>2, <1>3

\* A step within the commit that only goes on.
LEMMA GoHolds ==
  ASSUME IInv, job.pc \in Committing, NEW pc \in Committing, Go(pc),
         pc \in Temporary => job.pc \in Temporary,
         pc \in Filled => job.pc \in Filled \/ ~BackupRequired,
         pc \in {"recheck", "replace"} =>
           job.pc \in {"recheck", "replace"} \/ ~job.stale,
         pc # "backup_sync",
         UNCHANGED <<live, disk, debt, backups>>
  PROVE  Ordered'
<1>0. job \in Jobs
  BY DEF IInv, TypeOK
<1>1. /\ job'.pc = pc
      /\ UNCHANGED <<job.req, job.pending, job.mutated, job.snap, job.stale,
                     job.temp>>
  BY <1>0, GoEffect
<1>2. WantsOutput' = WantsOutput /\ BackupRequired' = BackupRequired
  BY <1>1 DEF WantsOutput, BackupRequired
<1>3. Decided' /\ Quiescent'
  BY <1>1, <1>2 DEF IInv, Ordered, Decided, Quiescent, Committing, Temporary
<1>4. BackedUp'
  BY <1>1, <1>2 DEF IInv, Ordered, BackedUp, At
<1>5. ReplacedOnce' /\ Remembered' /\ HonestResult'
  BY <1>1
  DEF IInv, Ordered, ReplacedOnce, Remembered, HonestResult, Committing,
      Temporary, Filled, Replaced, At
<1> QED
  BY <1>3, <1>4, <1>5 DEF IInv, Ordered, NeverTorn

LEMMA VerifyOrdered ==
  ASSUME IInv,
         VerifySnapshot \/ VerifyAgain \/ BackupDirectory \/ RecheckPolicy
  PROVE  Ordered'
<1> USE Unconfirmed
    DEF At, targetVars, backupVars, ghosts, Committing, Temporary, Filled
<1>1. CASE VerifySnapshot
  BY <1>1, GoHolds, ReadRaisesHolds DEF VerifySnapshot, Verified
<1>2. CASE VerifyAgain
  BY <1>2, GoHolds, ReadRaisesHolds DEF VerifyAgain, VerifiedAgain, Verified
<1>3. CASE BackupDirectory
  BY <1>3, GoHolds, RaiseHolds, FailsHolds DEF BackupDirectory
<1>4. CASE RecheckPolicy
  BY <1>4, GoHolds, RaiseHolds DEF RecheckPolicy
<1> QED
  BY <1>1, <1>2, <1>3, <1>4

\* Steps that make the new file and the backup.
LEMMA PrepareOrdered ==
  ASSUME IInv, WriteTemporary \/ FillBackup \/ SyncBackup
  PROVE  Ordered'
<1> USE Unconfirmed DEF At, targetVars, backupVars, ghosts
<1>0. job \in Jobs /\ backups \in Seq(Backups) /\ Len(backups) \in Nat
  BY DEF IInv, TypeOK
<1>1. ASSUME NEW pc \in Temporary,
             \/ job' = [job EXCEPT !.pc = pc, !.temp = "flushed"]
             \/ /\ job.pc \in Temporary
                /\ \E n : job' = [job EXCEPT !.pc = pc, !.slot = n],
             pc # "recheck", pc # "replace",
             job.pc \in Committing, UNCHANGED <<live, disk, debt>>, BackedUp'
      PROVE  Ordered'
  <2>1. /\ job'.pc = pc
        /\ job'.temp = IF job.pc \in Temporary THEN job.temp ELSE "flushed"
        /\ UNCHANGED <<job.req, job.pending, job.mutated, job.snap, job.stale>>
    BY <1>0, <1>1 DEF Jobs, IInv, Ordered, Decided
  <2>2. WantsOutput' = WantsOutput
    BY <2>1 DEF WantsOutput
  <2>3. Decided' /\ Quiescent'
    BY <1>1, <2>1, <2>2
    DEF IInv, Ordered, Decided, Quiescent, Committing, Temporary
  <2>4. ReplacedOnce' /\ Remembered' /\ HonestResult'
    BY <1>1, <2>1
    DEF IInv, Ordered, ReplacedOnce, Remembered, HonestResult, Committing,
        Temporary, Filled, Replaced
  <2> QED
    BY <1>1, <2>3, <2>4 DEF IInv, Ordered, NeverTorn
<1>2. CASE WriteTemporary
  <2>1. ASSUME job' = [job EXCEPT
                  !.pc = IF BackupRequired THEN "backup_dir" ELSE "verify_again",
                  !.temp = "flushed"]
        PROVE  Ordered'
    <3>1. job'.req = job.req
      BY <1>0, <2>1 DEF Jobs
    <3>2. BackedUp'
      BY <1>0, <2>1, <3>1 DEF BackedUp, BackupRequired, Filled, Jobs
    <3> QED
      BY <1>1, <1>2, <2>1, <3>2
      DEF WriteTemporary, Temporary, Filled, Committing
  <2> QED
    BY <1>2, <2>1, FailsHolds DEF WriteTemporary, Flushed
<1>3. CASE FillBackup
  <2> DEFINE new == [data |-> job.snap, durable |-> FALSE]
  <2>1. ASSUME \/ /\ backups' = Append(backups, new)
                  /\ job' = [job EXCEPT !.pc = "backup_sync",
                                        !.slot = Len(backups) + 1]
               \/ /\ backups' = <<new>> \o backups
                  /\ job' = [job EXCEPT !.pc = "backup_sync", !.slot = 1]
        PROVE  Ordered'
    <3>1. job'.pc = "backup_sync" /\ job'.snap = job.snap
      BY <1>0, <2>1 DEF Jobs
    <3>2. new \in Backups
      BY <1>3 DEF IInv, Ordered, Decided, WantsOutput, Committing, Temporary,
                  Backups, FillBackup
    <3>3. <<new>> \in Seq(Backups) /\ Len(<<new>>) = 1 /\ <<new>>[1] = new
      BY <3>2
    <3>4. job'.slot \in DOMAIN backups' /\ backups'[job'.slot] = new
      <4>1. CASE /\ backups' = Append(backups, new)
                 /\ job' = [job EXCEPT !.pc = "backup_sync",
                                       !.slot = Len(backups) + 1]
        <5>1. job'.slot = Len(backups) + 1
          BY <1>0, <4>1 DEF Jobs
        <5> HIDE DEF new
        <5> QED
          BY <1>0, <3>2, <4>1, <5>1
      <4>2. CASE /\ backups' = <<new>> \o backups
                 /\ job' = [job EXCEPT !.pc = "backup_sync", !.slot = 1]
        <5>1. job'.slot = 1
          BY <1>0, <4>2 DEF Jobs
        <5> HIDE DEF new
        <5> QED
          BY <1>0, <3>2, <3>3, <4>2, <5>1
      <4> QED
        BY <2>1, <4>1, <4>2
    <3>5. BackedUp'
      BY <3>1, <3>4 DEF BackedUp, Filled
    <3> QED
      BY <1>1, <1>3, <2>1, <3>5 DEF FillBackup, Temporary, Committing
  <2> QED
    BY <1>3, <2>1, FailsHolds DEF FillBackup
<1>4. CASE SyncBackup
  <2>1. ASSUME backups' = [backups EXCEPT ![job.slot].durable = TRUE],
               job' = [job EXCEPT !.pc = "verify_again", !.slot = 0]
        PROVE  Ordered'
    <3>1. job'.pc = "verify_again" /\ job'.snap = job.snap
      BY <1>0, <2>1 DEF Jobs
    <3>2. job.slot \in DOMAIN backups /\ backups[job.slot].data = job.snap
      BY <1>4 DEF SyncBackup, IInv, Ordered, BackedUp
    <3>3. backups[job.slot] \in Backups
      BY <1>0, <3>2
    <3>4. \A b \in Backups : [b EXCEPT !.durable = TRUE].data = b.data
                             /\ [b EXCEPT !.durable = TRUE].durable
      BY DEF Backups
    <3>5. /\ job.slot \in DOMAIN backups'
          /\ backups'[job.slot].data = job.snap /\ backups'[job.slot].durable
      BY <1>0, <2>1, <3>2, <3>3, <3>4
    <3>6. BackedUp'
      BY <3>1, <3>5 DEF BackedUp, Filled
    <3> QED
      BY <1>1, <1>4, <2>1, <3>6 DEF SyncBackup, Temporary, Filled, Committing
  <2> QED
    BY <1>4, <2>1, FailsHolds DEF SyncBackup
<1> QED
  BY <1>2, <1>3, <1>4

\* The replacement and what follows.
LEMMA ReplaceOrdered ==
  ASSUME IInv, Replace \/ SyncTarget \/ ReadBack \/ Prune
  PROVE  Ordered'
<1> USE Unconfirmed DEF At, targetVars, backupVars, ghosts
<1>0. job \in Jobs
  BY DEF IInv, TypeOK
<1>1. ASSUME NEW pc \in Replaced, job'.pc = pc, job'.mutated, ~job'.pending,
             pc # "sync" => ~debt',
             live' # "torn", disk' # "torn"
      PROVE  Ordered'
  BY <1>1
  DEF Ordered, Decided, Quiescent, ReplacedOnce, BackedUp, NeverTorn, Remembered,
      HonestResult, Filled, Temporary, Committing, Replaced
<1>2. CASE Replace
  <2>1. CASE /\ job' = [job EXCEPT !.pc = "sync", !.mutated = TRUE,
                                   !.temp = "none"]
             /\ live' = Output
             /\ disk' = IF job.temp = "flushed" THEN disk ELSE "torn"
    <3>1. job'.pc = "sync" /\ job'.mutated /\ job'.pending = job.pending
      BY <1>0, <2>1 DEF Jobs
    <3>2. ~job.pending /\ job.temp = "flushed" /\ disk # "torn"
      BY <1>2 DEF Replace, IInv, Ordered, Remembered, Decided, NeverTorn,
                  Committing, Temporary, Filled
    <3> QED
      BY <1>1, <2>1, <3>1, <3>2 DEF Replaced, Output
  <2>2. CASE Fails("commit_failed") /\ UNCHANGED <<targetVars, ghosts>>
    BY <1>2, <2>2, FailsHolds DEF Replace
  <2> QED
    BY <1>2, <2>1, <2>2 DEF Replace
<1>3. CASE SyncTarget
  <2>1. CASE Go("read_back") /\ disk' = live /\ debt' = FALSE
    <3>1. /\ job'.pc = "read_back"
          /\ UNCHANGED <<job.mutated, job.pending>>
      BY <1>0, <2>1, GoEffect
    <3> QED
      BY <1>1, <1>3, <2>1, <3>1
      DEF SyncTarget, IInv, Ordered, ReplacedOnce, Remembered, NeverTorn, Replaced
  <2>2. CASE Fails("durability_unconfirmed") /\ UNCHANGED <<disk, debt>>
    BY <1>3, <2>2, FailsHolds DEF SyncTarget
  <2> QED
    BY <1>3, <2>1, <2>2 DEF SyncTarget
<1>4. CASE ReadBack
  <2>1. CASE job' = [job EXCEPT !.pc = "prune", !.snap = live]
    <3>1. /\ job'.pc = "prune"
          /\ UNCHANGED <<job.mutated, job.pending>>
      BY <1>0, <2>1 DEF Jobs
    <3> QED
      BY <1>1, <1>4, <3>1
      DEF ReadBack, IInv, Ordered, ReplacedOnce, Remembered, NeverTorn, Replaced
  <2> QED
    BY <1>4, <2>1, ReadRaisesHolds DEF ReadBack
<1>5. CASE Prune
  <2>1. ~debt /\ job.mutated /\ live # "torn" /\ disk # "torn"
    BY <1>5 DEF Prune, IInv, Ordered, ReplacedOnce, Remembered, NeverTorn, Replaced
  <2>2. ASSUME NEW why, Finish(why, FALSE) PROVE Ordered'
    <3>1. job'.pc = "done"
      BY <1>0, <2>2, FinishEffect
    <3> QED
      BY <1>5, <2>1, <3>1
      DEF Prune, Ordered, Decided, Quiescent, ReplacedOnce, BackedUp, NeverTorn,
          Remembered, HonestResult, Filled, Temporary, Committing, Replaced
  <2> QED
    BY <1>5, <2>2, FailsHolds DEF Prune
<1> QED
  BY <1>2, <1>3, <1>4, <1>5

\* A new job, other programs, a killed process and a power failure.
LEMMA OutsideOrdered ==
  ASSUME IInv, Start \/ WriteOutside \/ Killed \/ PowerLoss
  PROVE  Ordered'
<1> USE DEF At, targetVars, backupVars, ghosts
<1>0. job \in Jobs
  BY DEF IInv, TypeOK
<1>1. ASSUME job'.pc \in {"idle", "read"}, ~job'.mutated,
             job'.pending = job'.req.pending, NeverTorn'
      PROVE  Ordered'
  BY <1>1
  DEF Ordered, Decided, Quiescent, ReplacedOnce, BackedUp, Remembered,
      HonestResult, Filled, Temporary, Committing, Replaced
<1>2. CASE Start
  BY <1>1, <1>2 DEF Start, Fresh, IInv, Ordered, NeverTorn
<1>3. /\ IdleJob.pc = "idle" /\ ~IdleJob.mutated
      /\ IdleJob.pending = IdleJob.req.pending
  BY DEF IdleJob, Fresh
<1>4. CASE Killed
  BY <1>1, <1>3, <1>4 DEF Killed, IInv, Ordered, NeverTorn
<1>5. CASE PowerLoss
  BY <1>1, <1>3, <1>5 DEF PowerLoss, IInv, Ordered, NeverTorn
<1>6. CASE WriteOutside
  <2>1. /\ UNCHANGED <<job.pc, job.req, job.pending, job.mutated, job.snap,
                       job.temp, job.slot, job.error, job.denied>>
        /\ job'.stale = (job.snap # "none")
    BY <1>0, <1>6 DEF WriteOutside, Jobs
  <2>2. WantsOutput' = WantsOutput /\ BackupRequired' = BackupRequired
    BY <2>1 DEF WantsOutput, BackupRequired
  <2>3. NeverTorn'
    BY <1>6 DEF WriteOutside, NeverTorn, Outside, Whole
  <2>4. Decided'
    BY <2>1, <2>2, <1>6 DEF IInv, Ordered, Decided, WriteOutside
  <2>5. Quiescent'
    BY <2>1, <1>6 DEF Quiescent, WriteOutside
  <2>6. ReplacedOnce' /\ BackedUp' /\ Remembered' /\ HonestResult'
    BY <2>1, <2>2, <1>6
    DEF IInv, Ordered, ReplacedOnce, BackedUp, Remembered, HonestResult,
        WriteOutside
  <2> QED
    BY <2>3, <2>4, <2>5, <2>6 DEF Ordered
<1> QED
  BY <1>2, <1>4, <1>5, <1>6

-----------------------------------------------------------------------------
(* Theorems                                                                 *)

LEMMA InitInvariant == Init => IInv
<1> SUFFICES ASSUME Init PROVE IInv
  OBVIOUS
<1>1. TypeOK
  BY InitType
<1>2. /\ job.pc = "idle" /\ ~job.mutated /\ job.pending = job.req.pending
      /\ live \in Outside /\ disk = live
  BY DEF Init, IdleJob, Fresh
<1>3. RoomLeft /\ Ordered
  BY <1>2
  DEF RoomLeft, Ordered, Decided, Quiescent, ReplacedOnce, BackedUp, NeverTorn,
      Remembered, HonestResult, Filled, Temporary, Committing, Replaced, At,
      Outside, Whole
<1> QED
  BY <1>1, <1>3 DEF IInv

LEMMA NextOrdered ==
  ASSUME IInv, [Next]_vars
  PROVE  Ordered'
<1>1. CASE UNCHANGED vars
  BY <1>1
  DEF vars, targetVars, backupVars, ghosts, IInv, Ordered, Decided, Quiescent,
      ReplacedOnce, BackedUp, NeverTorn, Remembered, HonestResult, At,
      WantsOutput, BackupRequired
<1> QED
  BY <1>1, DecideOrdered, VerifyOrdered, PrepareOrdered, ReplaceOrdered,
     OutsideOrdered
  DEF Next, Transaction

LEMMA NextType ==
  ASSUME IInv, [Next]_vars
  PROVE  TypeOK'
<1> USE DEF targetVars, backupVars, ghosts
<1>1. CASE Start
  BY <1>1, FreshType DEF Start, IInv, TypeOK
<1>2. CASE Transaction
  <2>1. job' \in Jobs
    BY <1>2, JobType DEF IInv
  <2>2. backups' \in Seq(Backups) /\ Len(backups') <= MaxBackups
    BY <1>2, BackupsType DEF IInv, Ordered
  <2>3. live' \in Contents /\ disk' \in Contents
    BY <1>2
    DEF IInv, TypeOK, Contents, Outside, Whole, Transaction, ReadTarget,
        ConfirmDurability, Decide, VerifySnapshot, WriteTemporary,
        BackupDirectory, FillBackup, SyncBackup, VerifyAgain, RecheckPolicy,
        Replace, SyncTarget, ReadBack, Prune, Output
  <2>4. /\ ancestors' \in {"absent", "created", "durable"}
        /\ debt' \in BOOLEAN
    BY <1>2
    DEF IInv, TypeOK, Transaction, ReadTarget,
        ConfirmDurability, Decide, VerifySnapshot, WriteTemporary,
        BackupDirectory, FillBackup, SyncBackup, VerifyAgain, RecheckPolicy,
        Replace, SyncTarget, ReadBack, Prune
  <2>5. owed' \in {"none", "orig", "patched"}
    <3>1. CASE Replace
      BY <3>1
      DEF Replace, IInv, TypeOK, Ordered, Decided, WantsOutput, Committing,
          Temporary, Filled, At
    <3>2. CASE UNCHANGED owed
      BY <3>2 DEF IInv, TypeOK
    <3> QED
      BY <1>2, <3>1, <3>2
      DEF Transaction, ReadTarget,
          ConfirmDurability, Decide, VerifySnapshot, WriteTemporary,
          BackupDirectory, FillBackup, SyncBackup, VerifyAgain, RecheckPolicy,
          SyncTarget, ReadBack, Prune
  <2> QED
    BY <2>1, <2>2, <2>3, <2>4, <2>5 DEF TypeOK
<1>3. CASE WriteOutside
  <2>1. job' \in Jobs
    BY <1>3 DEF WriteOutside, IInv, TypeOK, Jobs
  <2> QED
    BY <1>3, <2>1 DEF WriteOutside, IInv, TypeOK, Contents
<1>4. CASE Killed
  BY <1>4, IdleType DEF Killed, IInv, TypeOK
<1>5. CASE PowerLoss
  <2>1. backups' \in Seq(Backups) /\ Len(backups') <= MaxBackups
    <3>1. CASE backups' = << >>
      BY <3>1, TransactionAssumption
    <3>2. CASE backups' \in Surviving
      BY <3>2, SurvivingType DEF IInv
    <3> QED
      BY <1>5, <3>1, <3>2 DEF PowerLoss
  <2> QED
    BY <1>5, <2>1, IdleType DEF PowerLoss, IInv, TypeOK
<1>6. CASE UNCHANGED vars
  BY <1>6 DEF vars, IInv, TypeOK
<1> QED
  BY <1>1, <1>2, <1>3, <1>4, <1>5, <1>6 DEF Next

\* Only BackupDirectory leads to the filling, and it looks for room.
LEMMA NextRoom ==
  ASSUME IInv, [Next]_vars
  PROVE  RoomLeft'
<1> USE DEF At, targetVars, backupVars, ghosts
<1>0. job \in Jobs
  BY DEF IInv, TypeOK
<1>1. ASSUME job'.pc # "backup_fill" PROVE RoomLeft'
  BY <1>1 DEF RoomLeft
<1>2. ASSUME NEW why, NEW security \in BOOLEAN, Raise(why, security)
      PROVE  job'.pc # "backup_fill"
  BY <1>0, <1>2, RaiseEffect
<1>3. ASSUME NEW why, Fails(why) PROVE job'.pc # "backup_fill"
  BY <1>2, <1>3 DEF Fails
<1>4. ASSUME ReadRaises PROVE job'.pc # "backup_fill"
  BY <1>2, <1>4 DEF ReadRaises
<1>5. CASE ReadTarget
  <2>1. job'.pc # "backup_fill"
    BY <1>0, <1>2, <1>4, <1>5 DEF ReadTarget, Jobs
  <2> QED
    BY <1>1, <2>1
<1>6. CASE ConfirmDurability
  <2>1. job'.pc # "backup_fill"
    BY <1>0, <1>3, <1>4, <1>6 DEF ConfirmDurability, Jobs
  <2> QED
    BY <1>1, <2>1
<1>7. CASE Decide
  <2>1. job'.pc # "backup_fill"
    BY <1>0, <1>7 DEF Decide, Go, Finish, Jobs
  <2> QED
    BY <1>1, <2>1
<1>8. CASE VerifySnapshot \/ VerifyAgain
  <2>1. job'.pc # "backup_fill"
    BY <1>0, <1>4, <1>8, GoEffect
    DEF VerifySnapshot, VerifyAgain, VerifiedAgain, Verified
  <2> QED
    BY <1>1, <2>1
<1>9. CASE WriteTemporary \/ FillBackup \/ SyncBackup \/ Replace \/ ReadBack
  <2>1. job'.pc # "backup_fill"
    BY <1>0, <1>3, <1>4, <1>9
    DEF WriteTemporary, FillBackup, SyncBackup, Replace, ReadBack, Jobs
  <2> QED
    BY <1>1, <2>1
<1>10. CASE RecheckPolicy \/ SyncTarget
  <2>1. job'.pc # "backup_fill"
    BY <1>0, <1>2, <1>3, <1>10 DEF RecheckPolicy, SyncTarget, Go, Jobs
  <2> QED
    BY <1>1, <2>1
<1>11. CASE Prune
  <2>1. job'.pc # "backup_fill"
    BY <1>0, <1>3, <1>11, FinishEffect DEF Prune
  <2> QED
    BY <1>1, <2>1
<1>12. CASE BackupDirectory
  BY <1>0, <1>1, <1>2, <1>3, <1>12, GoEffect DEF BackupDirectory, RoomLeft
<1>13. CASE Start \/ Killed \/ PowerLoss
  BY <1>1, <1>13 DEF Start, Killed, PowerLoss, IdleJob, Fresh
<1>14. CASE WriteOutside
  <2>1. UNCHANGED <<backups, job.pc>>
    BY <1>0, <1>14 DEF WriteOutside, Jobs
  <2> QED
    BY <2>1 DEF IInv, RoomLeft
<1>15. CASE UNCHANGED vars
  BY <1>15 DEF vars, IInv, RoomLeft
<1> QED
  BY <1>5, <1>6, <1>7, <1>8, <1>9, <1>10, <1>11, <1>12, <1>13, <1>14, <1>15
  DEF Next, Transaction

\* A job writes the target in Replace and nowhere else.
LEMMA OnlyReplaces ==
  ASSUME IInv, [Next]_vars, job'.mutated, ~job.mutated
  PROVE  Replace /\ live' = Output
<1> USE DEF At, targetVars, backupVars, ghosts
<1>0. job \in Jobs
  BY DEF IInv, TypeOK
<1>1. ASSUME NEW why, NEW security \in BOOLEAN, Raise(why, security)
      PROVE  job'.mutated = job.mutated
  BY <1>0, <1>1, RaiseEffect
<1>2. ASSUME NEW why, Fails(why) PROVE job'.mutated = job.mutated
  BY <1>1, <1>2 DEF Fails
<1>3. ASSUME ReadRaises PROVE job'.mutated = job.mutated
  BY <1>1, <1>3 DEF ReadRaises
<1>4. ~ReadTarget
  BY <1>0, <1>1, <1>3 DEF ReadTarget, Jobs
<1>5. ~ConfirmDurability
  BY <1>0, <1>2, <1>3 DEF ConfirmDurability, Jobs
<1>6. ~Decide
  BY <1>0, GoEffect, FinishEffect DEF Decide
<1>7. ~VerifySnapshot /\ ~VerifyAgain
  BY <1>0, <1>3, GoEffect
  DEF VerifySnapshot, VerifyAgain, VerifiedAgain, Verified
<1>8. ~WriteTemporary /\ ~FillBackup /\ ~SyncBackup /\ ~ReadBack
  BY <1>0, <1>2, <1>3
  DEF WriteTemporary, FillBackup, SyncBackup, ReadBack, Jobs
<1>9. ~RecheckPolicy /\ ~SyncTarget
  BY <1>0, <1>1, <1>2, GoEffect DEF RecheckPolicy, SyncTarget
<1>10. ~Prune
  BY <1>0, <1>2, FinishEffect DEF Prune
<1>11. ~BackupDirectory
  BY <1>0, <1>1, <1>2, GoEffect DEF BackupDirectory
<1>12. ~Start /\ ~Killed /\ ~PowerLoss
  BY DEF Start, Killed, PowerLoss, IdleJob, Fresh
<1>13. ~WriteOutside
  BY <1>0 DEF WriteOutside, Jobs
<1>14. ~UNCHANGED vars
  BY DEF vars
<1>15. Replace
  BY <1>4, <1>5, <1>6, <1>7, <1>8, <1>9, <1>10, <1>11, <1>12, <1>13, <1>14
  DEF Next, Transaction
<1> QED
  BY <1>2, <1>15 DEF Replace

\* The inductive invariant holds in every behaviour, whatever fails.
THEOREM Invariance == Spec => []IInv
<1>1. IInv /\ [Next]_vars => IInv'
  BY NextType, NextRoom, NextOrdered DEF IInv
<1> QED
  BY <1>1, InitInvariant, PTL DEF Spec

\* Every variable keeps its type, for any retention, room and faults.
THEOREM TypeCorrect == Spec => []TypeOK
<1>1. IInv => TypeOK
  BY DEF IInv
<1> QED
  BY <1>1, Invariance, PTL

\* No interruption at any point shows a half written target: what gets its name
\* was flushed (atomic_writer.py, _write_all and _fsync before os.replace).
THEOREM NoTornTarget == Spec => []TargetWhole
<1>1. IInv => TargetWhole
  BY DEF IInv, Ordered, NeverTorn, TargetWhole
<1> QED
  BY <1>1, Invariance, PTL

\* A job that left or found an unconfirmed replacement reports it, whatever
\* fails or interferes (reconciler.py, the except clause of run).
THEOREM ResultsHonest == Spec => []HonestResult
<1>1. IInv => HonestResult
  BY DEF IInv, Ordered
<1> QED
  BY <1>1, Invariance, PTL

\* If other programs keep still between the last check and os.replace, exactly
\* the inspected bytes are overwritten, once, after they were backed up durably.
THEOREM InspectedReplaced ==
  ASSUME "no_quiescence" \notin Faults
  PROVE  Spec => ReplacesInspected
<1> DEFINE Inspects ==
      job'.mutated /\ ~job.mutated =>
        /\ live = job.snap
        /\ live' # live
        /\ BackupRequired => [data |-> live, durable |-> TRUE] \in
                               {backups[i] : i \in DOMAIN backups}
<1>1. ASSUME IInv, [Next]_vars, job'.mutated, ~job.mutated
      PROVE  Inspects
  <2>1. At("replace") /\ live' = Output
    BY <1>1, OnlyReplaces DEF Replace
  <2>2. WantsOutput /\ live = job.snap
    BY <1>1, <2>1
    DEF IInv, Ordered, Decided, Quiescent, Committing, Temporary, Filled, At
  <2>3. live' # live
    BY <2>1, <2>2 DEF WantsOutput, Output
  <2>4. ASSUME BackupRequired
        PROVE  [data |-> live, durable |-> TRUE] \in
                 {backups[i] : i \in DOMAIN backups}
    <3>1. PICK i \in DOMAIN backups :
            backups[i].data = job.snap /\ backups[i].durable
      BY <1>1, <2>1, <2>4 DEF IInv, Ordered, BackedUp, Filled, At
    <3>2. backups[i] \in Backups
      BY <1>1 DEF IInv, TypeOK
    <3>3. backups[i] = [data |-> live, durable |-> TRUE]
      BY <2>2, <3>1, <3>2 DEF Backups
    <3> QED
      BY <3>3
  <2> QED
    BY <2>2, <2>3, <2>4
<1>2. IInv /\ [Next]_vars => [Inspects]_vars
  BY <1>1
<1> QED
  BY <1>2, Invariance, PTL DEF Spec, ReplacesInspected

-----------------------------------------------------------------------------
(* Preimages                                                                *)

\* The bytes that were overwritten are in a flushed backup; until a job has
\* pruned it is the last one, which pruning leaves.
Kept ==
  /\ ancestors # "created"
  /\ owed # "none" => \E i \in DOMAIN backups :
                        backups[i].data = owed /\ backups[i].durable
  /\ At("backup_sync") => job.slot = Len(backups)
  /\ job.pc \in Filled /\ BackupRequired =>
       /\ Len(backups) > 0
       /\ backups[Len(backups)].data = job.snap
       /\ backups[Len(backups)].durable
  /\ job.pc \in Replaced /\ owed # "none" =>
       /\ Len(backups) > 0
       /\ backups[Len(backups)].data = owed
       /\ backups[Len(backups)].durable

\* Away from the end of a commit only the backups count.
LEMMA KeptAway ==
  ASSUME Kept, UNCHANGED <<ancestors, backups, owed>>,
         job'.pc \notin {"backup_sync"} \cup Filled \cup Replaced
  PROVE  Kept'
BY DEF Kept, At

\* An exception leads away from there.
LEMMA RaiseKept ==
  ASSUME job \in Jobs, NEW why, NEW security \in BOOLEAN, Raise(why, security)
  PROVE  job'.pc \notin {"backup_sync"} \cup Filled \cup Replaced
BY RaiseEffect DEF Filled, Replaced

LEMMA FailsKept ==
  ASSUME job \in Jobs, NEW why, Fails(why)
  PROVE  job'.pc \notin {"backup_sync"} \cup Filled \cup Replaced
BY RaiseKept DEF Fails

LEMMA ReadRaisesKept ==
  ASSUME job \in Jobs, ReadRaises
  PROVE  job'.pc \notin {"backup_sync"} \cup Filled \cup Replaced
BY RaiseKept DEF ReadRaises

LEMMA BeginKept ==
  ASSUME IInv, Kept, "unflushed_ancestor" \notin Faults,
         \/ Start \/ ReadTarget \/ ConfirmDurability \/ Decide
         \/ VerifySnapshot \/ BackupDirectory \/ Killed
  PROVE  Kept'
<1> USE DEF targetVars, backupVars, ghosts, Filled, Replaced
<1>0. job \in Jobs
  BY DEF IInv, TypeOK
<1>1. CASE Start
  BY <1>1, KeptAway DEF Start, Fresh
<1>2. CASE ReadTarget
  <2>1. job'.pc \notin {"backup_sync"} \cup Filled \cup Replaced
    <3>1. ASSUME NEW pc, job' = [job EXCEPT !.pc = pc, !.snap = live]
          PROVE  job'.pc = pc
      BY <1>0, <3>1 DEF Jobs
    <3> QED
      BY <1>0, <1>2, <3>1, RaiseKept, ReadRaisesKept DEF ReadTarget
  <2> QED
    BY <1>2, <2>1, KeptAway DEF ReadTarget
<1>3. CASE ConfirmDurability
  <2>1. job'.pc \notin {"backup_sync"} \cup Filled \cup Replaced
    BY <1>0, <1>3, FailsKept, ReadRaisesKept DEF ConfirmDurability, Jobs
  <2> QED
    BY <1>3, <2>1, KeptAway DEF ConfirmDurability
<1>4. CASE Decide
  <2>1. job'.pc \notin {"backup_sync"} \cup Filled \cup Replaced
    <3>1. job'.pc \in {"verify", "done"}
      BY <1>0, <1>4 DEF Decide, Go, Finish, Jobs
    <3> QED
      BY <3>1
  <2> QED
    BY <1>4, <2>1, KeptAway DEF Decide
<1>5. CASE VerifySnapshot
  <2>1. job'.pc \notin {"backup_sync"} \cup Filled \cup Replaced
    BY <1>0, <1>5, ReadRaisesKept DEF VerifySnapshot, Verified, Go, Jobs
  <2> QED
    BY <1>5, <2>1, KeptAway DEF VerifySnapshot
<1>6. CASE BackupDirectory
  <2>1. job'.pc \notin {"backup_sync"} \cup Filled \cup Replaced
    BY <1>0, <1>6, RaiseKept, FailsKept DEF BackupDirectory, Go, Jobs
  <2>2. ancestors' # "created"
    BY <1>6 DEF BackupDirectory, Kept
  <2> QED
    BY <1>6, <2>1, <2>2 DEF BackupDirectory, Kept, At
<1>7. CASE Killed
  BY <1>7 DEF Killed, IdleJob, Fresh, Kept, At
<1> QED
  BY <1>1, <1>2, <1>3, <1>4, <1>5, <1>6, <1>7

LEMMA PrepareKept ==
  ASSUME IInv, Kept, "clock_back" \notin Faults,
         WriteTemporary \/ FillBackup \/ SyncBackup \/ VerifyAgain \/ RecheckPolicy
  PROVE  Kept'
<1> USE DEF targetVars, backupVars, ghosts
<1>0. job \in Jobs /\ backups \in Seq(Backups) /\ Len(backups) \in Nat
  BY DEF IInv, TypeOK
<1>1. CASE WriteTemporary
  <2>1. CASE Fails("commit_failed")
    BY <1>0, <1>1, <2>1, FailsKept, KeptAway DEF WriteTemporary
  <2>2. CASE job' = [job EXCEPT
               !.pc = IF BackupRequired THEN "backup_dir" ELSE "verify_again",
               !.temp = "flushed"]
    <3>1. /\ job'.pc = IF BackupRequired THEN "backup_dir" ELSE "verify_again"
          /\ job'.req = job.req
      BY <1>0, <2>2 DEF Jobs
    <3>2. BackupRequired' = BackupRequired
      BY <3>1 DEF BackupRequired
    <3> QED
      BY <1>1, <3>1, <3>2 DEF WriteTemporary, Kept, At, Filled, Replaced
  <2> QED
    BY <1>1, <2>1, <2>2 DEF WriteTemporary, Flushed
<1>2. CASE FillBackup
  <2> DEFINE new == [data |-> job.snap, durable |-> FALSE]
  <2>1. CASE Fails("backup_failed") /\ UNCHANGED backups
    BY <1>0, <1>2, <2>1, FailsKept, KeptAway DEF FillBackup
  <2>2. CASE /\ backups' = Append(backups, new)
             /\ job' = [job EXCEPT !.pc = "backup_sync",
                                   !.slot = Len(backups) + 1]
    <3>1. job'.pc = "backup_sync" /\ job'.slot = Len(backups) + 1
      BY <1>0, <2>2 DEF Jobs
    <3> HIDE DEF new
    <3>2. /\ Len(backups') = Len(backups) + 1
          /\ \A i \in DOMAIN backups :
               i \in DOMAIN backups' /\ backups'[i] = backups[i]
      BY <1>0, <2>2
    <3> QED
      BY <1>2, <3>1, <3>2 DEF FillBackup, Kept, At, Filled, Replaced
  <2> QED
    BY <1>2, <2>1, <2>2 DEF FillBackup
<1>3. CASE SyncBackup
  <2>1. CASE Fails("backup_failed") /\ UNCHANGED backups
    BY <1>0, <1>3, <2>1, FailsKept, KeptAway DEF SyncBackup
  <2>2. CASE /\ backups' = [backups EXCEPT ![job.slot].durable = TRUE]
             /\ job' = [job EXCEPT !.pc = "verify_again", !.slot = 0]
    <3>1. job'.pc = "verify_again" /\ job'.snap = job.snap
      BY <1>0, <2>2 DEF Jobs
    <3>2. /\ job.slot \in DOMAIN backups /\ backups[job.slot].data = job.snap
          /\ job.slot = Len(backups)
      BY <1>3 DEF SyncBackup, IInv, Ordered, BackedUp, Kept
    <3>3. \A b \in Backups : /\ [b EXCEPT !.durable = TRUE].data = b.data
                             /\ [b EXCEPT !.durable = TRUE].durable
      BY DEF Backups
    <3>4. \A i \in DOMAIN backups : backups[i] \in Backups
      BY <1>0
    <3>5. /\ DOMAIN backups' = DOMAIN backups
          /\ \A i \in DOMAIN backups :
               /\ backups'[i].data = backups[i].data
               /\ backups[i].durable => backups'[i].durable
               /\ i = job.slot => backups'[i].durable
      BY <2>2, <3>3, <3>4
    <3>6. backups' \in Seq(Backups)
      BY <1>3, BackupsType DEF IInv, Ordered, Transaction
    <3>7. Len(backups') = Len(backups)
      BY <1>0, <3>5, <3>6
    <3> QED
      BY <1>3, <3>1, <3>2, <3>5, <3>7 DEF SyncBackup, Kept, At, Replaced
  <2> QED
    BY <1>3, <2>1, <2>2 DEF SyncBackup
<1>4. ASSUME NEW pc \in Filled, Go(pc), job.pc \in Filled,
             UNCHANGED <<ancestors, backups, owed>>
      PROVE  Kept'
  <2>1. job'.pc = pc /\ job'.req = job.req /\ job'.snap = job.snap
    BY <1>0, <1>4, GoEffect
  <2> QED
    BY <1>4, <2>1 DEF Kept, At, BackupRequired, Filled, Replaced
<1>5. CASE VerifyAgain
  BY <1>0, <1>4, <1>5, KeptAway, ReadRaisesKept
  DEF VerifyAgain, VerifiedAgain, Verified, At, Filled
<1>6. CASE RecheckPolicy
  BY <1>0, <1>4, <1>6, KeptAway, RaiseKept DEF RecheckPolicy, At, Filled
<1> QED
  BY <1>1, <1>2, <1>3, <1>5, <1>6

LEMMA ReplaceKept ==
  ASSUME IInv, Kept, Replace \/ SyncTarget \/ ReadBack \/ Prune
  PROVE  Kept'
<1> USE DEF targetVars, backupVars, ghosts
<1>0. job \in Jobs /\ backups \in Seq(Backups) /\ Len(backups) \in Nat
  BY DEF IInv, TypeOK
<1>1. ASSUME job'.pc \in Replaced, job.pc \in Replaced,
             UNCHANGED <<ancestors, backups, owed>>
      PROVE  Kept'
  BY <1>1 DEF Kept, At, Filled, Replaced
<1>2. CASE Replace
  <2>1. CASE Fails("commit_failed") /\ UNCHANGED ghosts
    BY <1>0, <1>2, <2>1, FailsKept, KeptAway DEF Replace
  <2>2. CASE /\ job' = [job EXCEPT !.pc = "sync", !.mutated = TRUE,
                                   !.temp = "none"]
             /\ owed' = IF BackupRequired THEN job.snap ELSE "none"
    <3>1. job'.pc = "sync"
      BY <1>0, <2>2 DEF Jobs
    <3>2. BackupRequired => /\ Len(backups) \in DOMAIN backups
                            /\ backups[Len(backups)].data = job.snap
                            /\ backups[Len(backups)].durable
      BY <1>0, <1>2 DEF Replace, Kept, At, Filled
    <3> QED
      BY <1>0, <1>2, <2>2, <3>1, <3>2 DEF Replace, Kept, At, Filled, Replaced
  <2> QED
    BY <1>2, <2>1, <2>2 DEF Replace
<1>3. CASE SyncTarget
  <2>1. CASE Go("read_back")
    BY <1>0, <1>1, <1>3, <2>1, GoEffect DEF SyncTarget, At, Replaced
  <2>2. CASE Fails("durability_unconfirmed")
    BY <1>0, <1>3, <2>2, FailsKept, KeptAway DEF SyncTarget
  <2> QED
    BY <1>3, <2>1, <2>2 DEF SyncTarget
<1>4. CASE ReadBack
  <2>1. CASE job' = [job EXCEPT !.pc = "prune", !.snap = live]
    <3>1. job'.pc = "prune"
      BY <1>0, <2>1 DEF Jobs
    <3> QED
      BY <1>1, <1>4, <3>1 DEF ReadBack, At, Replaced
  <2>2. CASE ReadRaises
    BY <1>0, <1>4, <2>2, ReadRaisesKept, KeptAway DEF ReadBack
  <2> QED
    BY <1>4, <2>1, <2>2 DEF ReadBack
<1>5. CASE Prune
  <2>1. job'.pc \notin {"backup_sync"} \cup Filled \cup Replaced
    BY <1>0, <1>5, FailsKept, FinishEffect DEF Prune, Filled, Replaced
  <2>2. PICK k \in 0..Excess : backups' = SubSeq(backups, k + 1, Len(backups))
    <3>1. Excess \in 0..Excess
      BY <1>0, TransactionAssumption DEF Excess
    <3> QED
      BY <1>5, <3>1 DEF Prune
  <2>3. k \in Nat /\ (Len(backups) > 0 => k < Len(backups))
    BY <1>0, TransactionAssumption DEF Excess
  <2>4. owed # "none" => Len(backups) > 0 /\ backups[Len(backups)].data = owed
                         /\ backups[Len(backups)].durable
    BY <1>5 DEF Prune, Kept, At, Replaced
  <2>5. Len(backups) > 0 =>
          /\ Len(backups) - k \in DOMAIN backups'
          /\ backups'[Len(backups) - k] = backups[Len(backups)]
    BY <1>0, <2>2, <2>3
  <2> QED
    BY <1>5, <2>1, <2>4, <2>5 DEF Prune, Kept, At
<1> QED
  BY <1>2, <1>3, <1>4, <1>5

LEMMA OutsideKept ==
  ASSUME IInv, Kept, WriteOutside \/ PowerLoss
  PROVE  Kept'
<1>1. CASE WriteOutside
  <2>1. UNCHANGED <<job.pc, job.req, job.snap, job.slot>>
    BY <1>1 DEF WriteOutside, IInv, TypeOK, Jobs
  <2> QED
    BY <1>1, <2>1 DEF WriteOutside, Kept, At, BackupRequired, backupVars
<1>2. CASE PowerLoss
  <2>1. job'.pc = "idle"
    BY <1>2 DEF PowerLoss, IdleJob, Fresh
  <2>2. ancestors' # "created" /\ backups' \in Surviving
    BY <1>2 DEF PowerLoss, Kept
  <2>3. owed' # "none" => \E i \in DOMAIN backups' :
                            backups'[i].data = owed' /\ backups'[i].durable
    <3>1. owed' # "none" => owed' = owed
      BY <1>2 DEF PowerLoss
    <3>2. \A i \in DOMAIN backups : backups[i].durable =>
            \E k \in DOMAIN backups' : backups'[k] = backups[i]
      BY <2>2, SurvivingType DEF IInv
    <3> QED
      BY <3>1, <3>2 DEF Kept
  <2> QED
    BY <2>1, <2>2, <2>3 DEF Kept, At, Filled, Replaced
<1> QED
  BY <1>1, <1>2

\* If the clock is not set back and the directories of backups were flushed when
\* they were made, what a backed-up replacement overwrote stays recoverable,
\* for any retention, through failures, kills and power losses (backup.py).
THEOREM PreimageKept ==
  ASSUME {"clock_back", "unflushed_ancestor"} \cap Faults = {}
  PROVE  Spec => []PreimageRecoverable
<1>1. Init => Kept
  BY DEF Init, Kept, IdleJob, Fresh, At, Filled, Replaced
<1>2. IInv /\ Kept /\ [Next]_vars => Kept'
  <2> SUFFICES ASSUME IInv, Kept, [Next]_vars PROVE Kept'
    OBVIOUS
  <2>1. CASE UNCHANGED vars
    BY <2>1 DEF vars, backupVars, ghosts, Kept, At, BackupRequired
  <2> QED
    BY <2>1, BeginKept, PrepareKept, ReplaceKept, OutsideKept
    DEF Next, Transaction
<1>3. Kept => PreimageRecoverable
  BY DEF Kept, PreimageRecoverable
<1> QED
  BY <1>1, <1>2, <1>3, Invariance, PTL DEF Spec

-----------------------------------------------------------------------------
(* The refinement of JobContract                                            *)

\* What the invariant does not say of a job, and the contract sees.
AtHand ==
  /\ At("sync") => debt
  /\ At("confirm") => job.pending
  /\ At("prune") => job.snap # "none"
  /\ job.pc \in {"idle", "read", "done"} => job.snap = "none"
  /\ job.pc # "done" => job.error = "none" /\ ~job.denied

Views == <<live, disk, debt, AskedOf, SeenOf, WroteOf, AnswerOf>>

\* The contract's steps, seen through the views: nothing,
LEMMA SeenNothing ==
  ASSUME UNCHANGED Views
  PROVE  [Contract!Next]_(Contract!jobVars)
BY DEF Views, Contract!jobVars

\* a job that looks at its target,
LEMMA SeenLook ==
  ASSUME UNCHANGED <<live, disk, debt, AskedOf, WroteOf, AnswerOf>>,
         AskedOf.act # "nothing", SeenOf' = "none" \/ (SeenOf' = live /\ live \in Whole)
  PROVE  Contract!Next
<1>1. Contract!Working
  BY DEF Contract!Working, Contract!Nothing
<1>2. SeenOf' # "missing" /\ SeenOf' # "unsafe"
  BY DEF Whole
<1> QED  BY <1>1, <1>2 DEF Contract!Next, Contract!Look

\* and one that ends with an answer.
LEMMA SeenReport ==
  ASSUME job \in Jobs, job.pc \notin {"idle", "done"}, UNCHANGED <<live, disk, debt>>,
         NEW e, NEW d, Finish(e, d)
  PROVE  Contract!Report(d, e)
<1>1. job.req.act \in Acts
  BY DEF Jobs, Requests
<1>2. AskedOf = [act |-> job.req.act, auto |-> job.req.auto, pending |-> job.pending]
  BY DEF AskedOf
<1>3. Contract!Working
  BY <1>1, <1>2 DEF Contract!Working, Contract!Nothing, Acts
<1>4. /\ job'.pc = "done" /\ job'.error = e /\ job'.denied = d /\ job'.snap = "none"
      /\ job'.mutated = job.mutated /\ job.mutated \in BOOLEAN
  BY DEF Finish, Jobs
<1>5. AskedOf' = Contract!Nothing /\ SeenOf' = "none" /\ WroteOf' = FALSE
  BY <1>4 DEF AskedOf, SeenOf, WroteOf, At, Contract!Nothing
<1>6. WroteOf = job.mutated
  BY <1>4 DEF WroteOf, At
<1>7. AnswerOf' = [denied |-> d, error |-> e, mutated |-> WroteOf]
  BY <1>4, <1>6 DEF AnswerOf, At
<1> QED  BY <1>3, <1>5, <1>7 DEF Contract!Report

\* What a job at work shows.
LEMMA SeenWorking ==
  ASSUME job \in Jobs, job.pc \notin {"idle", "done"}
  PROVE  /\ AskedOf = [act |-> job.req.act, auto |-> job.req.auto,
                       pending |-> job.pending]
         /\ AskedOf.act # "nothing" /\ Contract!Working
         /\ WroteOf = job.mutated
         /\ AnswerOf = [denied |-> job.denied, error |-> job.error, mutated |-> FALSE]
<1>1. job.req.act \in Acts /\ job.mutated \in BOOLEAN
  BY DEF Jobs, Requests
<1> QED  BY <1>1 DEF AskedOf, WroteOf, AnswerOf, At, Acts, Contract!Working,
                     Contract!Nothing

\* An exception is another look or an answer.
LEMMA SeenRaise ==
  ASSUME IInv, AtHand, job.pc \notin {"idle", "done"}, UNCHANGED <<live, disk, debt>>,
         NEW why, NEW security \in BOOLEAN, Raise(why, security),
         security => why = "denied" /\ ~(job.mutated /\ debt),
         ~security =>
           IF job.mutated /\ debt THEN why = "durability_unconfirmed"
           ELSE job.pending \/ why \in Contract!Failures
  PROVE  Contract!Next
<1>0. job \in Jobs
  BY DEF IInv, TypeOK
<1>1. /\ AskedOf = [act |-> job.req.act, auto |-> job.req.auto, pending |-> job.pending]
      /\ AskedOf.act # "nothing" /\ WroteOf = job.mutated
  BY <1>0, SeenWorking
<1>2. job.mutated => ~job.pending
  BY DEF IInv, Ordered, ReplacedOnce, Remembered
<1>3. CASE Retry /\ MayRetry(why)
  <2>1. /\ job'.pc = "read" /\ job'.snap = "none"
        /\ UNCHANGED <<job.req, job.pending, job.mutated, job.error, job.denied>>
    BY <1>0, <1>3 DEF Retry, Jobs
  <2>2. /\ AskedOf' = AskedOf /\ SeenOf' = "none" /\ WroteOf' = WroteOf
        /\ AnswerOf' = AnswerOf
    BY <1>1, <2>1 DEF AskedOf, SeenOf, WroteOf, AnswerOf, At
  <2> QED  BY <1>1, <2>2, SeenLook
<1>4. CASE KeepsPending(security) /\ Finish("durability_unconfirmed", FALSE)
  <2>1. Contract!Report(FALSE, "durability_unconfirmed")
    BY <1>0, <1>4, SeenReport
  <2>2. AskedOf.pending /\ ~WroteOf
    BY <1>1, <1>2, <1>4 DEF KeepsPending
  <2> QED  BY <2>1, <2>2 DEF Contract!Next, Contract!Unavailable
<1>5. CASE ~KeepsPending(security) /\ Finish(why, security)
  <2>1. Contract!Report(security, why)
    BY <1>0, <1>5, SeenReport
  <2>2. CASE security
    BY <1>1, <2>1, <2>2 DEF Contract!Next, Contract!Denied
  <2>3. CASE ~security
    <3>1. ~AskedOf.pending /\ ~job.pending
      BY <1>1, <1>5, <2>3 DEF KeepsPending
    <3>2. Contract!Report(FALSE, why)
      BY <2>1, <2>3
    <3>3. CASE job.mutated /\ debt
      BY <1>1, <2>3, <3>2, <3>3 DEF Contract!Next, Contract!Unsynced
    <3>4. CASE job.mutated /\ ~debt
      BY <1>1, <2>3, <3>1, <3>2, <3>4 DEF Contract!Next, Contract!Replaced
    <3>5. CASE ~job.mutated
      BY <1>1, <2>3, <3>1, <3>2, <3>5 DEF Contract!Next, Contract!Unavailable
    <3> QED  BY <3>3, <3>4, <3>5
  <2> QED  BY <2>2, <2>3
<1> QED  BY <1>3, <1>4, <1>5 DEF Raise

LEMMA SeenFails ==
  ASSUME IInv, AtHand, job.pc \notin {"idle", "done"}, UNCHANGED <<live, disk, debt>>,
         NEW why, Fails(why),
         IF job.mutated /\ debt THEN why = "durability_unconfirmed"
         ELSE job.pending \/ why \in Contract!Failures
  PROVE  Contract!Next
BY SeenRaise DEF Fails

LEMMA SeenReadRaises ==
  ASSUME IInv, AtHand, job.pc \notin {"idle", "done", "sync"}, ReadRaises,
         UNCHANGED <<live, disk, debt>>
  PROVE  Contract!Next
<1>1. ~(job.mutated /\ debt)
  BY Unconfirmed
<1>2. "missing_target" \in Contract!Failures /\ "target_changed" \in Contract!Failures
  BY DEF Contract!Failures
<1> QED  BY <1>1, <1>2, SeenRaise DEF ReadRaises

LEMMA SeenGo ==
  ASSUME IInv, NEW pc, Go(pc), {pc, job.pc} \cap {"idle", "done", "sync", "read_back"} = {},
         UNCHANGED <<live, disk, debt>>
  PROVE  [Contract!Next]_(Contract!jobVars)
<1>1. /\ job'.pc = pc
      /\ UNCHANGED <<job.req, job.pending, job.mutated, job.snap, job.error, job.denied>>
  BY GoEffect DEF IInv, TypeOK
<1>2. UNCHANGED Views
  BY <1>1 DEF Views, AskedOf, SeenOf, WroteOf, AnswerOf, At
<1> QED  BY <1>2, SeenNothing

\* Steps up to the decision.
LEMMA SeenDecide ==
  ASSUME IInv, AtHand, ReadTarget \/ ConfirmDurability \/ Decide
  PROVE  [Contract!Next]_(Contract!jobVars)
<1> USE DEF At, targetVars, backupVars, ghosts
<1>0. job \in Jobs /\ job.pc \notin {"idle", "done", "sync", "read_back", "prune"}
  BY DEF IInv, TypeOK, ReadTarget, ConfirmDurability, Decide
<1>1. /\ AskedOf = [act |-> job.req.act, auto |-> job.req.auto, pending |-> job.pending]
      /\ AskedOf.act # "nothing" /\ Contract!Working /\ WroteOf = job.mutated
      /\ SeenOf = job.snap
  BY <1>0, SeenWorking DEF SeenOf
<1>2. ~job.mutated
  BY <1>0 DEF IInv, Ordered, ReplacedOnce, Replaced
<1>3. CASE ReadTarget
  <2>1. CASE /\ live \in Whole
             /\ job' = [job EXCEPT
                          !.pc = IF job.pending THEN "confirm" ELSE "decide",
                          !.snap = live]
    <3>1. /\ job'.pc \in {"confirm", "decide"} /\ job'.snap = live
          /\ UNCHANGED <<job.req, job.pending, job.mutated, job.error, job.denied>>
      BY <1>0, <2>1 DEF Jobs
    <3>2. AskedOf' = AskedOf /\ SeenOf' = live /\ WroteOf' = WroteOf /\ AnswerOf' = AnswerOf
      BY <1>0, <1>1, <3>1 DEF AskedOf, SeenOf, WroteOf, AnswerOf
    <3> QED  BY <1>1, <1>3, <2>1, <3>2, SeenLook DEF ReadTarget
  <2> QED  BY <1>0, <1>2, <1>3, <2>1, SeenRaise, SeenReadRaises DEF ReadTarget
<1>4. CASE ConfirmDurability
  <2>1. CASE ~job.stale /\ live \in Whole /\ disk' = live /\ debt' = FALSE
             /\ job' = [job EXCEPT !.pc = "decide", !.pending = FALSE]
    <3>1. /\ job'.pc = "decide" /\ job'.pending = FALSE
          /\ UNCHANGED <<job.req, job.snap, job.mutated, job.error, job.denied>>
      BY <1>0, <2>1 DEF Jobs
    <3>2. /\ AskedOf' = [act |-> AskedOf.act, auto |-> AskedOf.auto, pending |-> FALSE]
          /\ SeenOf' = SeenOf /\ WroteOf' = WroteOf /\ AnswerOf' = AnswerOf
      BY <1>0, <1>1, <3>1 DEF AskedOf, SeenOf, WroteOf, AnswerOf
    <3>3. SeenOf = live /\ AskedOf.pending /\ ~WroteOf
      BY <1>1, <1>2, <1>4, <2>1
         DEF ConfirmDurability, AtHand, IInv, Ordered, Decided
    <3>4. Contract!Confirm
      BY <1>1, <1>4, <2>1, <3>2, <3>3 DEF ConfirmDurability, Contract!Confirm
    <3> QED  BY <3>4 DEF Contract!Next
  <2>2. job.pending
    BY <1>4 DEF ConfirmDurability, AtHand
  <2> QED
    BY <1>0, <1>2, <1>4, <2>1, <2>2, SeenFails, SeenReadRaises DEF ConfirmDurability
<1>5. CASE Decide
  <2>1. CASE Go("verify")
    BY <1>5, <2>1, SeenGo DEF Decide
  <2>2. CASE /\ ~WantsOutput
             /\ Finish(IF job.req.act = "revert" /\ job.snap = "orig"
                         THEN "not_applied" ELSE Inspected(job.snap), FALSE)
    <3>1. Contract!Report(FALSE, IF AskedOf.act = "revert" /\ SeenOf = "orig"
                                   THEN "not_applied" ELSE Contract!Verdict(SeenOf))
      BY <1>0, <1>1, <1>5, <2>2, SeenReport
         DEF Decide, Inspected, Contract!Verdict
    <3>2. SeenOf # "none" /\ ~AskedOf.pending /\ ~WroteOf
      BY <1>1, <1>2, <1>5 DEF Decide, IInv, Ordered, Decided, Remembered
    <3>3. ~Contract!Wants(SeenOf)
      BY <1>1, <2>2 DEF WantsOutput, Contract!Wants
    <3> QED  BY <3>1, <3>2, <3>3 DEF Contract!Next, Contract!Inspected
  <2> QED  BY <1>5, <2>1, <2>2 DEF Decide
<1> QED  BY <1>3, <1>4, <1>5

\* Steps that prepare the replacement: nothing, or an answer.
LEMMA SeenPrepare ==
  ASSUME IInv, AtHand,
         VerifySnapshot \/ WriteTemporary \/ BackupDirectory \/ FillBackup \/ SyncBackup
           \/ VerifyAgain \/ RecheckPolicy
  PROVE  [Contract!Next]_(Contract!jobVars)
<1> USE DEF At, targetVars, backupVars, ghosts
<1>0. job \in Jobs /\ job.pc \notin {"idle", "done", "sync", "read_back", "prune"}
  BY DEF IInv, TypeOK, VerifySnapshot, WriteTemporary, BackupDirectory, FillBackup,
         SyncBackup, VerifyAgain, RecheckPolicy
<1>1. ~job.mutated
  BY <1>0 DEF IInv, Ordered, ReplacedOnce, Replaced
<1>2. "commit_failed" \in Contract!Failures /\ "backup_failed" \in Contract!Failures
  BY DEF Contract!Failures
<1>3. ASSUME NEW pc, pc \notin {"idle", "done", "sync", "read_back"}, job'.pc = pc,
             UNCHANGED <<live, disk, debt, job.req, job.pending, job.mutated, job.snap,
                         job.error, job.denied>>
      PROVE  [Contract!Next]_(Contract!jobVars)
  <2>1. UNCHANGED Views
    BY <1>0, <1>3 DEF Views, AskedOf, SeenOf, WroteOf, AnswerOf
  <2> QED  BY <2>1, SeenNothing
<1>4. CASE VerifySnapshot
  BY <1>0, <1>4, SeenGo, SeenReadRaises DEF VerifySnapshot, Verified
<1>5. CASE WriteTemporary
  <2>1. CASE job' = [job EXCEPT
               !.pc = IF BackupRequired THEN "backup_dir" ELSE "verify_again",
               !.temp = "flushed"]
    <3>1. /\ job'.pc \in {"backup_dir", "verify_again"}
          /\ UNCHANGED <<job.req, job.pending, job.mutated, job.snap, job.error, job.denied>>
      BY <1>0, <2>1 DEF Jobs
    <3> QED  BY <1>3, <1>5, <3>1 DEF WriteTemporary
  <2> QED  BY <1>0, <1>1, <1>2, <1>5, <2>1, SeenFails DEF WriteTemporary, Flushed
<1>6. CASE BackupDirectory
  BY <1>0, <1>1, <1>2, <1>6, SeenGo, SeenRaise, SeenFails DEF BackupDirectory
<1>7. CASE FillBackup
  <2>1. ASSUME NEW n, job' = [job EXCEPT !.pc = "backup_sync", !.slot = n]
        PROVE  [Contract!Next]_(Contract!jobVars)
    <3>1. /\ job'.pc = "backup_sync"
          /\ UNCHANGED <<job.req, job.pending, job.mutated, job.snap, job.error, job.denied>>
      BY <1>0, <2>1 DEF Jobs
    <3> QED  BY <1>3, <1>7, <3>1 DEF FillBackup
  <2> QED  BY <1>0, <1>1, <1>2, <1>7, <2>1, SeenFails DEF FillBackup
<1>8. CASE SyncBackup
  <2>1. CASE job' = [job EXCEPT !.pc = "verify_again", !.slot = 0]
    <3>1. /\ job'.pc = "verify_again"
          /\ UNCHANGED <<job.req, job.pending, job.mutated, job.snap, job.error, job.denied>>
      BY <1>0, <2>1 DEF Jobs
    <3> QED  BY <1>3, <1>8, <3>1 DEF SyncBackup
  <2> QED  BY <1>0, <1>1, <1>2, <1>8, <2>1, SeenFails DEF SyncBackup
<1>9. CASE VerifyAgain
  BY <1>0, <1>9, SeenGo, SeenReadRaises DEF VerifyAgain, VerifiedAgain, Verified
<1>10. CASE RecheckPolicy
  BY <1>0, <1>1, <1>10, SeenGo, SeenRaise DEF RecheckPolicy
<1> QED  BY <1>4, <1>5, <1>6, <1>7, <1>8, <1>9, <1>10

\* The replacement, the flush and the report of what came of them.
LEMMA SeenReplace ==
  ASSUME IInv, AtHand, "no_quiescence" \notin Faults,
         Replace \/ SyncTarget \/ ReadBack \/ Prune
  PROVE  [Contract!Next]_(Contract!jobVars)
<1> USE DEF At, targetVars, backupVars, ghosts
<1>0. job \in Jobs /\ job.pc \in {"replace", "sync", "read_back", "prune"}
  BY DEF IInv, TypeOK, Replace, SyncTarget, ReadBack, Prune
<1>1. /\ AskedOf = [act |-> job.req.act, auto |-> job.req.auto, pending |-> job.pending]
      /\ AskedOf.act # "nothing" /\ Contract!Working /\ WroteOf = job.mutated
  BY <1>0, SeenWorking
<1>2. CASE Replace
  <2>1. CASE /\ job' = [job EXCEPT !.pc = "sync", !.mutated = TRUE, !.temp = "none"]
             /\ live' = Output /\ debt' = TRUE
             /\ disk' = IF job.temp = "flushed" THEN disk ELSE "torn"
    <3>1. /\ job'.pc = "sync" /\ job'.mutated = TRUE
          /\ UNCHANGED <<job.req, job.pending, job.error, job.denied>>
      BY <1>0, <2>1 DEF Jobs
    <3>2. /\ AskedOf' = AskedOf /\ SeenOf' = "none" /\ WroteOf' = TRUE
          /\ AnswerOf' = AnswerOf
      BY <1>1, <1>2, <3>1 DEF Replace, AskedOf, SeenOf, WroteOf, AnswerOf
    <3>3. /\ SeenOf = live /\ job.temp = "flushed" /\ WantsOutput
          /\ ~job.pending /\ ~job.mutated
      BY <1>2 DEF Replace, SeenOf, IInv, Ordered, Decided, Quiescent, ReplacedOnce,
                  Remembered, Committing, Temporary, Filled, Replaced
    <3>4. SeenOf = job.snap
      BY <1>2 DEF Replace, SeenOf
    <3>5. Contract!Wants(SeenOf)
      BY <1>1, <3>3, <3>4 DEF WantsOutput, Contract!Wants
    <3>6. live' = IF AskedOf.act = "revert" THEN "orig" ELSE "patched"
      BY <1>1, <2>1 DEF Output
    <3>7. Contract!Replace
      BY <1>1, <2>1, <3>2, <3>3, <3>5, <3>6 DEF Contract!Replace
    <3> QED  BY <3>7 DEF Contract!Next
  <2>2. CASE Fails("commit_failed") /\ UNCHANGED <<targetVars, ghosts>>
    <3>1. ~job.mutated
      BY <1>2 DEF Replace, IInv, Ordered, ReplacedOnce, Replaced
    <3> QED  BY <1>0, <2>2, <3>1, SeenFails DEF Contract!Failures
  <2> QED  BY <1>2, <2>1, <2>2 DEF Replace
<1>3. CASE SyncTarget
  <2>1. job.pc = "sync" /\ job.mutated /\ debt
    BY <1>3 DEF SyncTarget, IInv, Ordered, ReplacedOnce, Replaced, AtHand
  <2>2. CASE disk' = live /\ debt' = FALSE /\ Go("read_back")
    <3>1. /\ job'.pc = "read_back"
          /\ UNCHANGED <<job.req, job.pending, job.mutated, job.error, job.denied>>
      BY <1>0, <2>2, GoEffect
    <3>2. UNCHANGED <<AskedOf, SeenOf, WroteOf, AnswerOf>>
      BY <2>1, <3>1 DEF AskedOf, SeenOf, WroteOf, AnswerOf
    <3>3. Contract!Flush
      BY <1>1, <1>3, <2>1, <2>2, <3>2 DEF SyncTarget, Contract!Flush
    <3> QED  BY <3>3 DEF Contract!Next
  <2> QED  BY <1>3, <2>1, <2>2, SeenFails DEF SyncTarget
<1>4. CASE ReadBack
  <2>1. CASE live \in Whole /\ job' = [job EXCEPT !.pc = "prune", !.snap = live]
    <3>1. /\ job'.pc = "prune" /\ job'.snap = live
          /\ UNCHANGED <<job.req, job.pending, job.mutated, job.error, job.denied>>
      BY <1>0, <2>1 DEF Jobs
    <3>2. AskedOf' = AskedOf /\ SeenOf' = live /\ WroteOf' = WroteOf /\ AnswerOf' = AnswerOf
      BY <1>4, <3>1 DEF ReadBack, AskedOf, SeenOf, WroteOf, AnswerOf
    <3> QED  BY <1>1, <1>4, <2>1, <3>2, SeenLook DEF ReadBack
  <2> QED  BY <1>4, <2>1, SeenReadRaises DEF ReadBack
<1>5. CASE Prune
  <2>1. /\ job.pc = "prune" /\ job.mutated /\ ~debt /\ SeenOf = job.snap
        /\ SeenOf # "none" /\ UNCHANGED <<live, disk, debt>>
    BY <1>5 DEF Prune, SeenOf, AtHand, IInv, Ordered, ReplacedOnce, Remembered, Replaced
  <2>2. CASE Finish(Inspected(job.snap), FALSE)
    <3>1. Contract!Report(FALSE, Contract!Verdict(SeenOf))
      BY <1>0, <2>1, <2>2, SeenReport DEF Inspected, Contract!Verdict
    <3> QED  BY <1>1, <2>1, <3>1 DEF Contract!Next, Contract!Replaced
  <2>3. CASE Fails("backup_prune_failed")
    BY <2>1, <2>3, SeenFails DEF Contract!Failures
  <2> QED  BY <1>5, <2>2, <2>3 DEF Prune
<1> QED  BY <1>2, <1>3, <1>4, <1>5

\* A new job, other programs, a killed process and a power failure.
LEMMA SeenOutside ==
  ASSUME IInv, AtHand, Start \/ WriteOutside \/ Killed \/ PowerLoss
  PROVE  [Contract!Next]_(Contract!jobVars)
<1> USE DEF At, targetVars, backupVars, ghosts
<1>0. job \in Jobs
  BY DEF IInv, TypeOK
<1>1. CASE Start
  <2>1. PICK r \in Requests : job' = Fresh(r)
    BY <1>1 DEF Start
  <2>2. /\ job'.pc = "read" /\ job'.req = r /\ job'.pending = r.pending
        /\ job'.snap = "none" /\ ~job'.mutated /\ job'.error = "none"
        /\ job'.denied = FALSE
    BY <2>1 DEF Fresh
  <2>3. /\ AskedOf' = [act |-> r.act, auto |-> r.auto, pending |-> r.pending]
        /\ SeenOf' = "none" /\ WroteOf' = FALSE /\ AnswerOf' = Contract!NoAnswer
    BY <2>2 DEF AskedOf, SeenOf, WroteOf, AnswerOf, Contract!NoAnswer
  <2>4. AskedOf' \in Contract!Asks
    BY <2>3 DEF Requests, Acts, Contract!Asks, Contract!Acts
  <2>5. ~Contract!Working
    BY <1>1 DEF Start, AskedOf, Contract!Working, Contract!Nothing
  <2>6. Contract!Ask
    BY <1>1, <2>3, <2>4, <2>5 DEF Start, Contract!Ask
  <2> QED  BY <2>6 DEF Contract!Next
<1>2. CASE WriteOutside
  <2>1. UNCHANGED <<job.pc, job.req, job.pending, job.mutated, job.snap, job.error,
                    job.denied>>
    BY <1>0, <1>2 DEF WriteOutside, Jobs
  <2>2. UNCHANGED <<AskedOf, SeenOf, WroteOf, AnswerOf>>
    BY <2>1 DEF AskedOf, SeenOf, WroteOf, AnswerOf
  <2>3. Contract!WriteOutside
    BY <1>2, <2>2 DEF WriteOutside, Outside, Whole, Contract!WriteOutside,
                      Contract!Outside, Contract!Whole
  <2> QED  BY <2>3 DEF Contract!Next
<1>3. ASSUME job' = IdleJob
      PROVE  /\ AskedOf' = Contract!Nothing /\ SeenOf' = "none" /\ WroteOf' = FALSE
             /\ AnswerOf' = Contract!NoAnswer
  <2>1. /\ job'.pc = "idle" /\ job'.snap = "none" /\ ~job'.mutated
        /\ job'.error = "none" /\ job'.denied = FALSE
    BY <1>3 DEF IdleJob, Fresh
  <2> QED  BY <2>1 DEF AskedOf, SeenOf, WroteOf, AnswerOf, Contract!Nothing,
                       Contract!NoAnswer
<1>4. CASE Killed
  BY <1>3, <1>4 DEF Killed, Contract!Next, Contract!Die
<1>5. CASE PowerLoss
  BY <1>3, <1>5 DEF PowerLoss, Contract!Next, Contract!Die
<1> QED  BY <1>1, <1>2, <1>4, <1>5

\* How an attempt ends keeps what the contract sees at hand.
LEMMA RaiseAtHand ==
  ASSUME IInv, AtHand, job.pc \notin {"idle", "done"}, NEW why, NEW security,
         Raise(why, security)
  PROVE  AtHand'
<1>0. job \in Jobs
  BY DEF IInv, TypeOK
<1>1. CASE Retry
  <2>1. job'.pc = "read" /\ job'.snap = "none" /\ UNCHANGED <<job.error, job.denied>>
    BY <1>0, <1>1 DEF Retry, Jobs
  <2> QED  BY <2>1 DEF AtHand, At
<1>2. ASSUME NEW e, NEW d, Finish(e, d)  PROVE AtHand'
  <2>1. job'.pc = "done" /\ job'.snap = "none"
    BY <1>0, <1>2 DEF Finish, Jobs
  <2> QED  BY <2>1 DEF AtHand, At
<1> QED  BY <1>1, <1>2 DEF Raise

LEMMA ReadRaisesAtHand ==
  ASSUME IInv, AtHand, job.pc \notin {"idle", "done"}, ReadRaises
  PROVE  AtHand'
BY RaiseAtHand DEF ReadRaises

LEMMA FailsAtHand ==
  ASSUME IInv, AtHand, job.pc \notin {"idle", "done"}, NEW why, Fails(why)
  PROVE  AtHand'
BY RaiseAtHand DEF Fails

LEMMA NextAtHand ==
  ASSUME IInv, AtHand, [Next]_vars
  PROVE  AtHand'
<1> USE DEF At
<1>0. job \in Jobs
  BY DEF IInv, TypeOK
<1>1. ASSUME NEW pc, job'.pc = pc, job.pc \notin {"idle", "done"},
             pc \notin {"idle", "read", "done", "sync", "confirm", "prune"},
             UNCHANGED <<job.error, job.denied>>
      PROVE  AtHand'
  BY <1>1 DEF AtHand
<1>2. ASSUME NEW pc, Go(pc), job.pc \notin {"idle", "done"},
             pc \notin {"idle", "read", "done", "sync", "confirm", "prune"}
      PROVE  AtHand'
  BY <1>0, <1>1, <1>2, GoEffect
<1>3. ASSUME NEW e, NEW d, Finish(e, d)  PROVE AtHand'
  <2>1. job'.pc = "done" /\ job'.snap = "none"
    BY <1>0, <1>3 DEF Finish, Jobs
  <2> QED  BY <2>1 DEF AtHand
<1>4. CASE ReadTarget
  <2>1. CASE /\ live \in Whole
             /\ job' = [job EXCEPT
                          !.pc = IF job.pending THEN "confirm" ELSE "decide",
                          !.snap = live]
    <3>1. /\ job'.pc = IF job.pending THEN "confirm" ELSE "decide"
          /\ UNCHANGED <<job.pending, job.error, job.denied>>
      BY <1>0, <2>1 DEF Jobs
    <3> QED  BY <1>4, <3>1 DEF ReadTarget, AtHand
  <2> QED  BY <1>4, <2>1, RaiseAtHand, ReadRaisesAtHand DEF ReadTarget
<1>5. CASE ConfirmDurability
  <2>1. CASE job' = [job EXCEPT !.pc = "decide", !.pending = FALSE]
    <3>1. job'.pc = "decide" /\ UNCHANGED <<job.error, job.denied>>
      BY <1>0, <2>1 DEF Jobs
    <3> QED  BY <1>1, <1>5, <3>1 DEF ConfirmDurability
  <2> QED  BY <1>5, <2>1, FailsAtHand, ReadRaisesAtHand DEF ConfirmDurability
<1>6. CASE Decide
  BY <1>2, <1>3, <1>6 DEF Decide
<1>7. CASE VerifySnapshot \/ VerifyAgain
  BY <1>2, <1>7, ReadRaisesAtHand DEF VerifySnapshot, VerifyAgain, VerifiedAgain, Verified
<1>8. CASE WriteTemporary
  <2>1. CASE job' = [job EXCEPT
               !.pc = IF BackupRequired THEN "backup_dir" ELSE "verify_again",
               !.temp = "flushed"]
    <3>1. job'.pc \in {"backup_dir", "verify_again"} /\ UNCHANGED <<job.error, job.denied>>
      BY <1>0, <2>1 DEF Jobs
    <3> QED  BY <1>1, <1>8, <3>1 DEF WriteTemporary
  <2> QED  BY <1>8, <2>1, FailsAtHand DEF WriteTemporary, Flushed
<1>9. CASE BackupDirectory
  BY <1>2, <1>9, RaiseAtHand, FailsAtHand DEF BackupDirectory
<1>10. CASE FillBackup
  <2>1. ASSUME NEW n, job' = [job EXCEPT !.pc = "backup_sync", !.slot = n]
        PROVE  AtHand'
    <3>1. job'.pc = "backup_sync" /\ UNCHANGED <<job.error, job.denied>>
      BY <1>0, <2>1 DEF Jobs
    <3> QED  BY <1>1, <1>10, <3>1 DEF FillBackup
  <2> QED  BY <1>10, <2>1, FailsAtHand DEF FillBackup
<1>11. CASE SyncBackup
  <2>1. CASE job' = [job EXCEPT !.pc = "verify_again", !.slot = 0]
    <3>1. job'.pc = "verify_again" /\ UNCHANGED <<job.error, job.denied>>
      BY <1>0, <2>1 DEF Jobs
    <3> QED  BY <1>1, <1>11, <3>1 DEF SyncBackup
  <2> QED  BY <1>11, <2>1, FailsAtHand DEF SyncBackup
<1>12. CASE RecheckPolicy
  BY <1>2, <1>12, RaiseAtHand DEF RecheckPolicy
<1>13. CASE Replace
  <2>1. CASE /\ job' = [job EXCEPT !.pc = "sync", !.mutated = TRUE, !.temp = "none"]
             /\ debt' = TRUE
    <3>1. job'.pc = "sync" /\ UNCHANGED <<job.error, job.denied>>
      BY <1>0, <2>1 DEF Jobs
    <3> QED  BY <1>13, <2>1, <3>1 DEF Replace, AtHand
  <2> QED  BY <1>13, <2>1, FailsAtHand DEF Replace
<1>14. CASE SyncTarget
  BY <1>2, <1>14, FailsAtHand DEF SyncTarget
<1>15. CASE ReadBack
  <2>1. CASE live \in Whole /\ job' = [job EXCEPT !.pc = "prune", !.snap = live]
    <3>1. /\ job'.pc = "prune" /\ job'.snap # "none" /\ UNCHANGED <<job.error, job.denied>>
      BY <1>0, <2>1 DEF Jobs, Whole
    <3> QED  BY <1>15, <3>1 DEF ReadBack, AtHand
  <2> QED  BY <1>15, <2>1, ReadRaisesAtHand DEF ReadBack
<1>16. CASE Prune
  BY <1>3, <1>16, FailsAtHand DEF Prune
<1>17. CASE Start
  BY <1>17 DEF Start, Fresh, AtHand
<1>18. CASE WriteOutside
  <2>1. UNCHANGED <<job.pc, job.pending, job.snap, job.error, job.denied>>
    BY <1>0, <1>18 DEF WriteOutside, Jobs
  <2> QED  BY <1>18, <2>1 DEF WriteOutside, AtHand
<1>19. CASE Killed \/ PowerLoss
  BY <1>19 DEF Killed, PowerLoss, IdleJob, Fresh, AtHand
<1>20. CASE UNCHANGED vars
  BY <1>20 DEF vars, ghosts, AtHand
<1> QED  BY <1>4, <1>5, <1>6, <1>7, <1>8, <1>9, <1>10, <1>11, <1>12, <1>13, <1>14, <1>15,
            <1>16, <1>17, <1>18, <1>19, <1>20 DEF Next, Transaction

\* As long as nobody writes between the last check and the replacement, a job with
\* its attempts, checks, temporary files and backups is what the runtime takes it
\* to be: it replaces the target once and whole, and its answer says how far it
\* came (Reconciler.run, reconciler.py:63-94).
THEOREM JobsKeepContract ==
  ASSUME "no_quiescence" \notin Faults
  PROVE  Spec => ImplementsJob
<1>1. Init => Contract!Init /\ AtHand
  <2> SUFFICES ASSUME Init  PROVE Contract!Init /\ AtHand
    OBVIOUS
  <2>1. /\ job.pc = "idle" /\ job.snap = "none" /\ ~job.mutated
        /\ job.error = "none" /\ job.denied = FALSE
    BY DEF Init, IdleJob, Fresh
  <2>2. /\ AskedOf = Contract!Nothing /\ SeenOf = "none" /\ WroteOf = FALSE
        /\ AnswerOf = Contract!NoAnswer
    BY <2>1 DEF AskedOf, SeenOf, WroteOf, AnswerOf, At, Contract!Nothing,
                Contract!NoAnswer
  <2> QED  BY <2>1, <2>2 DEF Init, Contract!Init, Outside, Whole, Contract!Outside,
                             Contract!Whole, AtHand, At
<1>2. IInv /\ AtHand /\ [Next]_vars => AtHand'
  BY NextAtHand
<1>3. IInv /\ AtHand /\ [Next]_vars => [Contract!Next]_(Contract!jobVars)
  <2> SUFFICES ASSUME IInv, AtHand, [Next]_vars
               PROVE  [Contract!Next]_(Contract!jobVars)
    OBVIOUS
  <2>1. CASE UNCHANGED vars
    <3>1. UNCHANGED Views
      BY <2>1 DEF vars, targetVars, ghosts, Views, AskedOf, SeenOf, WroteOf, AnswerOf, At
    <3> QED  BY <3>1, SeenNothing
  <2> QED
    BY <2>1, SeenDecide, SeenPrepare, SeenReplace, SeenOutside DEF Next, Transaction
<1> QED  BY <1>1, <1>2, <1>3, Invariance, PTL DEF Spec, ImplementsJob, Contract!Spec

-----------------------------------------------------------------------------
(* A job ends                                                               *)

Over == job.pc \in {"idle", "done"}

\* How many steps an attempt can still take.
Ahead(step) ==
  CASE step = "read" -> 14 [] step = "confirm" -> 13 [] step = "decide" -> 12
    [] step = "verify" -> 11 [] step = "temp" -> 10 [] step = "backup_dir" -> 9
    [] step = "backup_fill" -> 8 [] step = "backup_sync" -> 7
    [] step = "verify_again" -> 6 [] step = "recheck" -> 5 [] step = "replace" -> 4
    [] step = "sync" -> 3 [] step = "read_back" -> 2 [] OTHER -> 1

\* And how many the job, with the attempts that it may still begin.
StepsLeft == IF Over THEN 0 ELSE 14 * (2 - job.attempt) + Ahead(job.pc)

BoundedSteps == StepsLeft \in 0 .. 42 /\ (StepsLeft = 0 <=> Over)

\* Every step of a job brings its end nearer, and nobody else's puts it off.
AlwaysNearer ==
  [][/\ Transaction => StepsLeft' < StepsLeft
     /\ ~Start => StepsLeft' <= StepsLeft]_vars

LEMMA BoundedFollows == TypeOK => BoundedSteps
<1> SUFFICES ASSUME job \in Jobs  PROVE BoundedSteps
  BY DEF TypeOK
<1>1. Ahead(job.pc) \in 1 .. 14
  BY DEF Ahead
<1>2. job.attempt \in 0 .. 2
  BY DEF Jobs
<1> QED  BY <1>1, <1>2 DEF BoundedSteps, StepsLeft

\* The same attempt goes on.
LEMMA GoesOn ==
  ASSUME job \in Jobs, ~Over, ~Over', job'.attempt = job.attempt,
         Ahead(job'.pc) < Ahead(job.pc)
  PROVE  StepsLeft' < StepsLeft
<1>1. job.attempt \in 0 .. 2
  BY DEF Jobs
<1>2. Ahead(job.pc) \in Nat /\ Ahead(job'.pc) \in Nat
  BY DEF Ahead
<1> QED  BY <1>1, <1>2 DEF StepsLeft

LEMMA GoNearer ==
  ASSUME job \in Jobs, ~Over, NEW step, Go(step), step \notin {"idle", "done"},
         Ahead(step) < Ahead(job.pc)
  PROVE  StepsLeft' < StepsLeft
<1>1. job'.pc = step /\ job'.attempt = job.attempt
  BY DEF Go, Jobs
<1> QED  BY <1>1, GoesOn DEF Over

LEMMA FinishNearer ==
  ASSUME TypeOK, ~Over, NEW why, NEW security, Finish(why, security)
  PROVE  StepsLeft' < StepsLeft
<1>1. Over'
  BY FinishEffect DEF TypeOK, Over
<1>2. StepsLeft \in 0 .. 42 /\ StepsLeft # 0
  BY BoundedFollows DEF BoundedSteps
<1> QED  BY <1>1, <1>2 DEF StepsLeft

\* An exception ends the job, or one of its three attempts.
LEMMA RaiseNearer ==
  ASSUME TypeOK, ~Over, NEW why, NEW security, Raise(why, security)
  PROVE  StepsLeft' < StepsLeft
<1>1. CASE Retry /\ MayRetry(why)
  <2>1. /\ job'.pc = "read" /\ job'.attempt = job.attempt + 1
        /\ job.attempt \in 0 .. 2
    BY <1>1 DEF Retry, Jobs, TypeOK
  <2>2. StepsLeft' = 14 * (2 - (job.attempt + 1)) + 14
    BY <2>1 DEF StepsLeft, Over, Ahead
  <2>3. StepsLeft = 14 * (2 - job.attempt) + Ahead(job.pc) /\ Ahead(job.pc) \in 1 .. 14
    BY DEF StepsLeft, Ahead
  <2> QED  BY <2>1, <2>2, <2>3
<1>2. CASE Finish("durability_unconfirmed", FALSE) \/ Finish(why, security)
  BY <1>2, FinishNearer
<1> QED  BY <1>1, <1>2 DEF Raise

LEMMA StepNearer ==
  ASSUME TypeOK, Transaction
  PROVE  StepsLeft' < StepsLeft
<1> USE DEF At
<1>1. ~Over /\ job \in Jobs
  BY DEF TypeOK, Over, Transaction, ReadTarget, ConfirmDurability, Decide, VerifySnapshot,
         WriteTemporary, BackupDirectory, FillBackup, SyncBackup, VerifyAgain, RecheckPolicy,
         Replace, SyncTarget, ReadBack, Prune
<1>2. ASSUME NEW why, NEW security, Raise(why, security)  PROVE StepsLeft' < StepsLeft
  BY <1>1, <1>2, RaiseNearer
<1>3. (ReadRaises \/ \E why : Fails(why)) => StepsLeft' < StepsLeft
  BY <1>2 DEF ReadRaises, Fails
<1>4. ASSUME NEW step, Go(step), step \notin {"idle", "done"}, Ahead(step) < Ahead(job.pc)
      PROVE  StepsLeft' < StepsLeft
  BY <1>1, <1>4, GoNearer
<1>5. CASE ReadTarget
  <2>1. CASE job' = [job EXCEPT !.pc = IF job.pending THEN "confirm" ELSE "decide",
                                !.snap = live]
    <3>1. job'.pc \in {"confirm", "decide"} /\ job'.attempt = job.attempt /\ job.pc = "read"
      BY <1>1, <1>5, <2>1 DEF ReadTarget, Jobs
    <3> QED  BY <1>1, <3>1, GoesOn DEF Over, Ahead
  <2> QED  BY <1>2, <1>3, <1>5, <2>1 DEF ReadTarget
<1>6. CASE ConfirmDurability
  <2>1. CASE job' = [job EXCEPT !.pc = "decide", !.pending = FALSE]
    <3>1. job'.pc = "decide" /\ job'.attempt = job.attempt /\ job.pc = "confirm"
      BY <1>1, <1>6, <2>1 DEF ConfirmDurability, Jobs
    <3> QED  BY <1>1, <3>1, GoesOn DEF Over, Ahead
  <2> QED  BY <1>3, <1>6, <2>1 DEF ConfirmDurability
<1>7. CASE Decide
  <2>1. Go("verify") => StepsLeft' < StepsLeft
    BY <1>4, <1>7 DEF Decide, Ahead
  <2>2. ASSUME NEW why, Finish(why, FALSE)  PROVE StepsLeft' < StepsLeft
    BY <1>1, <2>2, FinishNearer
  <2> QED  BY <1>7, <2>1, <2>2 DEF Decide
<1>8. CASE VerifySnapshot
  <2>1. Go("temp") => StepsLeft' < StepsLeft
    BY <1>4, <1>8 DEF VerifySnapshot, Ahead
  <2> QED  BY <1>3, <1>8, <2>1 DEF VerifySnapshot, Verified
<1>9. CASE WriteTemporary
  <2>1. CASE job' = [job EXCEPT !.pc = IF BackupRequired THEN "backup_dir" ELSE "verify_again",
                                !.temp = Flushed]
    <3>1. /\ job'.pc \in {"backup_dir", "verify_again"} /\ job'.attempt = job.attempt
          /\ job.pc = "temp"
      BY <1>1, <1>9, <2>1 DEF WriteTemporary, Jobs
    <3> QED  BY <1>1, <3>1, GoesOn DEF Over, Ahead
  <2> QED  BY <1>3, <1>9, <2>1 DEF WriteTemporary
<1>10. CASE BackupDirectory
  <2>1. Go("backup_fill") => StepsLeft' < StepsLeft
    BY <1>4, <1>10 DEF BackupDirectory, Ahead
  <2> QED  BY <1>2, <1>3, <1>10, <2>1 DEF BackupDirectory
<1>11. CASE FillBackup
  <2>1. CASE \E n : job' = [job EXCEPT !.pc = "backup_sync", !.slot = n]
    <3>1. job'.pc = "backup_sync" /\ job'.attempt = job.attempt /\ job.pc = "backup_fill"
      BY <1>1, <1>11, <2>1 DEF FillBackup, Jobs
    <3> QED  BY <1>1, <3>1, GoesOn DEF Over, Ahead
  <2> QED  BY <1>3, <1>11, <2>1 DEF FillBackup
<1>12. CASE SyncBackup
  <2>1. CASE job' = [job EXCEPT !.pc = "verify_again", !.slot = 0]
    <3>1. job'.pc = "verify_again" /\ job'.attempt = job.attempt /\ job.pc = "backup_sync"
      BY <1>1, <1>12, <2>1 DEF SyncBackup, Jobs
    <3> QED  BY <1>1, <3>1, GoesOn DEF Over, Ahead
  <2> QED  BY <1>3, <1>12, <2>1 DEF SyncBackup
<1>13. CASE VerifyAgain
  <2>1. Go("recheck") => StepsLeft' < StepsLeft
    BY <1>4, <1>13 DEF VerifyAgain, Ahead
  <2> QED  BY <1>3, <1>13, <2>1 DEF VerifyAgain, VerifiedAgain, Verified
<1>14. CASE RecheckPolicy
  <2>1. Go("replace") => StepsLeft' < StepsLeft
    BY <1>4, <1>14 DEF RecheckPolicy, Ahead
  <2> QED  BY <1>2, <1>14, <2>1 DEF RecheckPolicy
<1>15. CASE Replace
  <2>1. CASE job' = [job EXCEPT !.pc = "sync", !.mutated = TRUE, !.temp = "none"]
    <3>1. job'.pc = "sync" /\ job'.attempt = job.attempt /\ job.pc = "replace"
      BY <1>1, <1>15, <2>1 DEF Replace, Jobs
    <3> QED  BY <1>1, <3>1, GoesOn DEF Over, Ahead
  <2> QED  BY <1>3, <1>15, <2>1 DEF Replace
<1>16. CASE SyncTarget
  <2>1. Go("read_back") => StepsLeft' < StepsLeft
    BY <1>4, <1>16 DEF SyncTarget, Ahead
  <2> QED  BY <1>3, <1>16, <2>1 DEF SyncTarget
<1>17. CASE ReadBack
  <2>1. CASE job' = [job EXCEPT !.pc = "prune", !.snap = live]
    <3>1. job'.pc = "prune" /\ job'.attempt = job.attempt /\ job.pc = "read_back"
      BY <1>1, <1>17, <2>1 DEF ReadBack, Jobs
    <3> QED  BY <1>1, <3>1, GoesOn DEF Over, Ahead
  <2> QED  BY <1>3, <1>17, <2>1 DEF ReadBack
<1>18. CASE Prune
  <2>1. ASSUME NEW why, Finish(why, FALSE)  PROVE StepsLeft' < StepsLeft
    BY <1>1, <2>1, FinishNearer
  <2> QED  BY <1>3, <1>18, <2>1 DEF Prune
<1> QED  BY <1>5, <1>6, <1>7, <1>8, <1>9, <1>10, <1>11, <1>12, <1>13, <1>14, <1>15, <1>16,
            <1>17, <1>18 DEF Transaction

\* A job takes at most 42 steps of its own, in three attempts, and whatever other
\* programs write meanwhile puts its end off by none: the loop of Reconciler.run
\* always returns, as its last line claims (reconciler.py:70-86).
THEOREM JobsAreBounded == Spec => []BoundedSteps /\ AlwaysNearer
<1> DEFINE Nearer == /\ Transaction => StepsLeft' < StepsLeft
                     /\ ~Start => StepsLeft' <= StepsLeft
<1>1. ASSUME TypeOK, BoundedSteps, BoundedSteps', [Next]_vars  PROVE [Nearer]_vars
  <2>1. StepsLeft \in Nat /\ StepsLeft' \in Nat
    BY <1>1 DEF BoundedSteps
  <2>2. CASE Transaction
    <3>1. StepsLeft' < StepsLeft
      BY <1>1, <2>2, StepNearer
    <3> QED  BY <2>1, <3>1
  <2>3. CASE Start
    <3>1. ~Transaction
      BY <2>3 DEF Start, Transaction, At, ReadTarget, ConfirmDurability, Decide,
                  VerifySnapshot, WriteTemporary, BackupDirectory, FillBackup, SyncBackup,
                  VerifyAgain, RecheckPolicy, Replace, SyncTarget, ReadBack, Prune
    <3> QED  BY <2>3, <3>1
  <2>4. CASE ~Transaction /\ (WriteOutside \/ Killed \/ PowerLoss)
    <3>1. CASE WriteOutside
      <4>1. job'.pc = job.pc /\ job'.attempt = job.attempt
        BY <1>1, <3>1 DEF WriteOutside, TypeOK, Jobs
      <4> QED  BY <2>1, <2>4, <4>1 DEF StepsLeft, Over
    <3>2. CASE Killed \/ PowerLoss
      <4>1. Over'
        BY <3>2 DEF Killed, PowerLoss, IdleJob, Fresh, Over
      <4> QED  BY <2>1, <2>4, <4>1 DEF StepsLeft
    <3> QED  BY <2>4, <3>1, <3>2
  <2> QED  BY <1>1, <2>2, <2>3, <2>4 DEF Next
<1>2. TypeOK /\ BoundedSteps /\ BoundedSteps' /\ [Next]_vars => [Nearer]_vars
  BY <1>1
<1> QED  BY <1>2, BoundedFollows, TypeCorrect, PTL DEF Spec, AlwaysNearer
-----------------------------------------------------------------------------
(* What a job comes to                                                      *)

Confirmed == job.req.pending /\ ~job.pending

\* What the history says of a job that runs.
Followed ==
  /\ ~job.mutated => debt = (inherited /\ ~Confirmed)
  /\ ~job.mutated /\ job.snap # "none" => drawn = job.snap
  /\ job.mutated \/ (At("read") /\ Confirmed) => Wanted(job.req, drawn)

CameTo == At("done") => Outcome(job.req, drawn, inherited, OutcomeOf)

Tracked ==
  /\ job.pending => job.req.pending
  /\ ~Over => Followed
  /\ CameTo

\* What is committed is wanted.
LEMMA CommitsWanted ==
  ASSUME IInv, Tracked, job.pc \in Committing
  PROVE  Wanted(job.req, drawn)
<1>1. ~job.mutated /\ job.snap # "none" /\ WantsOutput /\ ~Over
  BY DEF IInv, Ordered, Decided, ReplacedOnce, Replaced, Committing, Temporary,
         Filled, Over
<1> QED  BY <1>1 DEF Tracked, Followed, WantsOutput, Wanted

\* A running job keeps what it began with, and draws what it reads.
LEMMA NoteRunning ==
  ASSUME ~Over, Note
  PROVE  /\ inherited' = inherited
         /\ drawn' = IF ~job.mutated /\ job'.snap # "none" THEN job'.snap ELSE drawn
BY DEF Over, Note, Start

\* A step that goes on, and only may look at the target, is followed.
LEMMA GoesOnTracked ==
  ASSUME Tracked, ~Over, Note, job'.pc \notin {"idle", "read", "done"},
         UNCHANGED <<job.req, job.pending, job.mutated>>,
         job.mutated \/ debt' = debt
  PROVE  Tracked'
<1>1. Followed
  BY DEF Tracked
<1>2. Followed'
  BY <1>1, NoteRunning DEF Followed, Confirmed, At
<1> QED  BY <1>2 DEF Tracked, Over, CameTo, At

LEMMA GoTracked ==
  ASSUME IInv, Tracked, ~Over, Note, NEW pc, pc \notin {"idle", "read", "done"}, Go(pc),
         job.mutated \/ debt' = debt
  PROVE  Tracked'
<1>1. /\ job'.pc = pc
      /\ UNCHANGED <<job.req, job.pending, job.mutated>>
  BY GoEffect DEF IInv, TypeOK
<1> QED  BY <1>1, GoesOnTracked

\* An answer is followed when it is one of the outcomes.
LEMMA FinishTracked ==
  ASSUME IInv, Tracked, ~Over, Note, NEW why, NEW security, Finish(why, security),
         NEW o, o = [denied |-> security, error |-> why, mutated |-> job.mutated,
                     confirmed |-> Confirmed, owing |-> debt'],
         Outcome(job.req, drawn, inherited, o)
  PROVE  Tracked'
<1>1. /\ job'.pc = "done" /\ job'.snap = "none"
      /\ job'.error = why /\ job'.denied = security
      /\ UNCHANGED <<job.req, job.mutated, job.pending>>
  BY DEF Finish, Jobs, IInv, TypeOK
<1>2. drawn' = drawn /\ inherited' = inherited
  BY <1>1, NoteRunning
<1>3. OutcomeOf' = o
  BY <1>1 DEF OutcomeOf, Confirmed
<1>4. Outcome(job'.req, drawn', inherited', OutcomeOf')
  BY <1>1, <1>2, <1>3
<1> QED  BY <1>1, <1>4 DEF Tracked, Over, CameTo

\* An exception is one more attempt or an outcome.
LEMMA RaiseTracked ==
  ASSUME IInv, AtHand, Tracked, Note, job.pc \notin {"idle", "decide", "done"},
         debt' = debt, NEW why, NEW security \in BOOLEAN, Raise(why, security),
         security => why = "denied" /\ ~(job.mutated /\ debt),
         ~security =>
           IF job.mutated /\ debt THEN why = "durability_unconfirmed"
           ELSE job.pending \/ why \in Failures
  PROVE  Tracked'
<1>0. job \in Jobs /\ ~Over
  BY DEF IInv, TypeOK, Over
<1>1. Followed /\ (job.pending => job.req.pending)
  BY <1>0 DEF Tracked
<1>2. job.mutated => ~job.pending
  BY DEF IInv, Ordered, ReplacedOnce, Remembered
<1>3. ~job.pending /\ (job.mutated \/ job.req.pending \/ job.pc \in Committing)
        => Wanted(job.req, drawn)
  <2>1. ~job.pending /\ ~job.mutated /\ job.pc \notin Committing => At("read")
    BY <1>0 DEF AtHand, At, Jobs, Steps, IInv, Ordered, ReplacedOnce, Committing,
                Temporary, Filled, Replaced
  <2> QED  BY <1>1, <2>1, CommitsWanted DEF Followed, Confirmed
<1>4. CASE Retry /\ MayRetry(why) /\ ~job.pending
  <2>1. /\ job'.pc = "read" /\ job'.snap = "none"
        /\ UNCHANGED <<job.req, job.pending, job.mutated>>
    BY <1>0, <1>4 DEF Retry, Jobs
  <2>2. drawn' = drawn /\ inherited' = inherited
    BY <1>0, <2>1, NoteRunning
  <2>3. Wanted(job.req, drawn) => Wanted(job'.req, drawn')
    BY <2>1, <2>2
  <2>4. Followed'
    BY <1>1, <1>3, <1>4, <2>1, <2>2, <2>3 DEF Followed, Confirmed
  <2> QED  BY <1>1, <2>1, <2>4 DEF Tracked, Over, CameTo, At
<1>5. ASSUME NEW e, NEW d, Finish(e, d),
             NEW o, o = [denied |-> d, error |-> e, mutated |-> job.mutated,
                         confirmed |-> Confirmed, owing |-> debt],
             \/ DeniedOutcome(o)
             \/ UnconfirmedOutcome(job.req, o)
             \/ UnavailableOutcome(job.req, drawn, o)
             \/ ReplacedOutcome(job.req, drawn, o)
             \/ UnsyncedOutcome(job.req, drawn, o)
      PROVE  Tracked'
  <2>1. Outcome(job.req, drawn, inherited, o)
    BY <1>1, <1>5 DEF Outcome, Followed, Confirmed
  <2> QED  BY <1>0, <1>5, <2>1, FinishTracked
<1>6. CASE KeepsPending(security) /\ Finish("durability_unconfirmed", FALSE)
  <2> DEFINE o == [denied |-> FALSE, error |-> "durability_unconfirmed",
                   mutated |-> job.mutated, confirmed |-> Confirmed, owing |-> debt]
  <2>1. UnconfirmedOutcome(job.req, o)
    BY <1>0, <1>1, <1>2, <1>6
    DEF KeepsPending, UnconfirmedOutcome, Answers, Confirmed, Jobs
  <2> QED  BY <1>5, <1>6, <2>1
<1>7. CASE ~KeepsPending(security) /\ Finish(why, security)
  <2> DEFINE o == [denied |-> security, error |-> why, mutated |-> job.mutated,
                   confirmed |-> Confirmed, owing |-> debt]
  <2>0. job.mutated \in BOOLEAN
    BY <1>0 DEF Jobs
  <2>1. CASE security /\ ~job.mutated
    <3>1. DeniedOutcome(o)
      BY <2>0, <2>1 DEF DeniedOutcome, Answers
    <3> QED  BY <1>5, <1>7, <3>1
  <2>2. CASE security /\ job.mutated
    <3>1. ReplacedOutcome(job.req, drawn, o)
      BY <1>2, <1>3, <2>0, <2>2
      DEF ReplacedOutcome, Answers, UpToDate, Confirmed
    <3> QED  BY <1>5, <1>7, <3>1
  <2>3. CASE ~security
    <3>0. ~job.pending /\ UpToDate(job.req, o)
      BY <1>7, <2>3 DEF KeepsPending, UpToDate, Confirmed
    <3>1. CASE job.mutated /\ debt
      <4>1. UnsyncedOutcome(job.req, drawn, o)
        BY <1>3, <2>0, <2>3, <3>0, <3>1 DEF UnsyncedOutcome, Answers
      <4> QED  BY <1>5, <1>7, <4>1
    <3>2. CASE job.mutated /\ ~debt
      <4>1. ReplacedOutcome(job.req, drawn, o)
        BY <1>3, <2>0, <2>3, <3>0, <3>2 DEF ReplacedOutcome, Answers
      <4> QED  BY <1>5, <1>7, <4>1
    <3>3. CASE ~job.mutated
      <4>1. UnavailableOutcome(job.req, drawn, o)
        BY <1>3, <2>0, <2>3, <3>0, <3>3 DEF UnavailableOutcome, Answers
      <4> QED  BY <1>5, <1>7, <4>1
    <3> QED  BY <3>1, <3>2, <3>3
  <2> QED  BY <2>1, <2>2, <2>3
<1> QED  BY <1>4, <1>6, <1>7 DEF Raise, KeepsPending, MayRetry

LEMMA FailsTracked ==
  ASSUME IInv, AtHand, Tracked, Note, job.pc \notin {"idle", "decide", "done"},
         debt' = debt, NEW why, Fails(why),
         IF job.mutated /\ debt THEN why = "durability_unconfirmed"
         ELSE job.pending \/ why \in Failures
  PROVE  Tracked'
BY RaiseTracked DEF Fails

LEMMA ReadRaisesTracked ==
  ASSUME IInv, AtHand, Tracked, Note, ReadRaises, debt' = debt,
         job.pc \notin {"idle", "decide", "done", "sync"}
  PROVE  Tracked'
<1>1. ~(job.mutated /\ debt)
  BY Unconfirmed
<1>2. "missing_target" \in Failures /\ "target_changed" \in Failures
  BY DEF Failures
<1> QED  BY <1>1, <1>2, RaiseTracked DEF ReadRaises

\* Steps up to the decision.
LEMMA DecideTracked ==
  ASSUME IInv, AtHand, Tracked, Note, ReadTarget \/ ConfirmDurability \/ Decide
  PROVE  Tracked'
<1> USE DEF At
<1>0. job \in Jobs
  BY DEF IInv, TypeOK
<1>1. CASE ReadTarget
  <2>1. CASE job' = [job EXCEPT !.pc = IF job.pending THEN "confirm" ELSE "decide",
                                !.snap = live]
    <3>1. /\ job'.pc \in {"confirm", "decide"}
          /\ UNCHANGED <<job.req, job.pending, job.mutated>>
      BY <1>0, <2>1 DEF Jobs
    <3> QED  BY <1>1, <3>1, GoesOnTracked DEF ReadTarget, Over, ghosts
  <2>2. CASE Raise("denied", TRUE)
    BY <1>1, <2>2, Unconfirmed, RaiseTracked DEF ReadTarget, ghosts
  <2> QED
    BY <1>1, <2>1, <2>2, ReadRaisesTracked DEF ReadTarget, ghosts
<1>2. CASE ConfirmDurability
  <2>1. CASE job' = [job EXCEPT !.pc = "decide", !.pending = FALSE] /\ debt' = FALSE
    <3>1. /\ job'.pc = "decide" /\ ~job'.pending
          /\ UNCHANGED <<job.req, job.mutated, job.snap>>
      BY <1>0, <2>1 DEF Jobs
    <3>2. job.req.pending /\ ~Over /\ ~job.mutated /\ Followed
      BY <1>2 DEF ConfirmDurability, Tracked, AtHand, Over, IInv, Ordered,
                  ReplacedOnce, Replaced
    <3>3. Followed'
      BY <2>1, <3>1, <3>2, NoteRunning DEF Followed, Confirmed
    <3> QED  BY <3>1, <3>3 DEF Tracked, Over, CameTo
  <2>2. CASE Fails("durability_unconfirmed") /\ UNCHANGED debt
    BY <1>2, <2>2, FailsTracked, Unconfirmed DEF ConfirmDurability, AtHand
  <2> QED  BY <1>2, <2>1, <2>2, ReadRaisesTracked DEF ConfirmDurability
<1>3. CASE Decide
  <2>1. CASE Go("verify")
    BY <1>3, <2>1, GoTracked DEF Decide, Over, ghosts
  <2>2. CASE /\ ~WantsOutput
             /\ Finish(IF job.req.act = "revert" /\ job.snap = "orig"
                         THEN "not_applied" ELSE Inspected(job.snap), FALSE)
    <3> DEFINE why == IF job.req.act = "revert" /\ job.snap = "orig"
                        THEN "not_applied" ELSE Inspected(job.snap)
               o == [denied |-> FALSE, error |-> why, mutated |-> job.mutated,
                     confirmed |-> Confirmed, owing |-> debt]
    <3>1. /\ ~Over /\ ~job.mutated /\ ~job.pending /\ job.snap \in Whole
          /\ job.mutated \in BOOLEAN
      BY <1>0, <1>3 DEF Decide, Over, IInv, Ordered, ReplacedOnce, Replaced, Decided,
                        Remembered, Jobs
    <3>2. Followed /\ drawn = job.snap
      BY <3>1 DEF Tracked, Followed, Whole
    <3>3. ~Wanted(job.req, drawn) /\ drawn \in Readable
      BY <2>2, <3>1, <3>2 DEF WantsOutput, Wanted, Readable, Whole
    <3>4. why = Verdict(job.req, drawn)
      BY <3>1, <3>2 DEF Verdict, Inspected, Whole
    <3>5. InspectedOutcome(job.req, drawn, o)
      <4>1. UpToDate(job.req, o)
        BY <3>1 DEF UpToDate, Confirmed
      <4>2. Answers(o, FALSE, Verdict(job.req, drawn), FALSE)
        BY <3>1, <3>4 DEF Answers
      <4> QED  BY <3>3, <4>1, <4>2 DEF InspectedOutcome
    <3>6. Outcome(job.req, drawn, inherited, o)
      BY <3>1, <3>2, <3>5 DEF Outcome, Followed, Confirmed
    <3>7. debt' = debt /\ Finish(why, FALSE)
      BY <1>3, <2>2 DEF Decide, ghosts
    <3> HIDE DEF why
    <3> QED  BY <3>1, <3>6, <3>7, FinishTracked
  <2> QED  BY <1>3, <2>1, <2>2 DEF Decide
<1> QED  BY <1>1, <1>2, <1>3

\* Steps that prepare the replacement.
LEMMA PrepareTracked ==
  ASSUME IInv, AtHand, Tracked, Note,
         \/ VerifySnapshot \/ WriteTemporary \/ BackupDirectory \/ FillBackup
         \/ SyncBackup \/ VerifyAgain \/ RecheckPolicy
  PROVE  Tracked'
<1> USE DEF At, ghosts
<1>0. job \in Jobs
  BY DEF IInv, TypeOK
<1>1. /\ job.pc \in Committing /\ ~Over /\ debt' = debt /\ ~(job.mutated /\ debt)
      /\ job.pc \notin {"idle", "decide", "done", "sync"}
  <2>1. job.pc \in Committing /\ debt' = debt
    BY DEF VerifySnapshot, WriteTemporary, BackupDirectory, FillBackup, SyncBackup,
           VerifyAgain, RecheckPolicy, Committing, Temporary, Filled
  <2> QED  BY <2>1, Unconfirmed DEF Committing, Temporary, Filled, Over
<1>2. "commit_failed" \in Failures /\ "backup_failed" \in Failures
  BY DEF Failures
<1>3. ASSUME NEW pc, job'.pc = pc, pc \notin {"idle", "read", "done"},
             UNCHANGED <<job.req, job.pending, job.mutated>>
      PROVE  Tracked'
  BY <1>1, <1>3, GoesOnTracked
<1>4. ASSUME NEW pc, Go(pc), pc \notin {"idle", "read", "done"}
      PROVE  Tracked'
  BY <1>1, <1>4, GoTracked
<1>5. ASSUME NEW why \in {"commit_failed", "backup_failed"},
             Raise(why, FALSE) \/ Fails(why)
      PROVE  Tracked'
  BY <1>1, <1>2, <1>5, RaiseTracked, FailsTracked
<1>6. CASE VerifySnapshot \/ VerifyAgain
  BY <1>1, <1>4, <1>6, ReadRaisesTracked
  DEF VerifySnapshot, VerifyAgain, VerifiedAgain, Verified
<1>7. CASE WriteTemporary
  <2>1. CASE job' = [job EXCEPT
               !.pc = IF BackupRequired THEN "backup_dir" ELSE "verify_again",
               !.temp = "flushed"]
    <3>1. /\ job'.pc \in {"backup_dir", "verify_again"}
          /\ UNCHANGED <<job.req, job.pending, job.mutated>>
      BY <1>0, <2>1 DEF Jobs
    <3> QED  BY <1>3, <3>1
  <2> QED  BY <1>5, <1>7, <2>1 DEF WriteTemporary, Flushed
<1>8. CASE BackupDirectory
  BY <1>4, <1>5, <1>8 DEF BackupDirectory
<1>9. CASE FillBackup
  <2>1. ASSUME NEW n, job' = [job EXCEPT !.pc = "backup_sync", !.slot = n]
        PROVE  Tracked'
    <3>1. /\ job'.pc = "backup_sync"
          /\ UNCHANGED <<job.req, job.pending, job.mutated>>
      BY <1>0, <2>1 DEF Jobs
    <3> QED  BY <1>3, <3>1
  <2>2. CASE Fails("backup_failed")
    BY <1>5, <2>2
  <2> QED  BY <1>9, <2>1, <2>2 DEF FillBackup
<1>10. CASE SyncBackup
  <2>1. CASE job' = [job EXCEPT !.pc = "verify_again", !.slot = 0]
    <3>1. /\ job'.pc = "verify_again"
          /\ UNCHANGED <<job.req, job.pending, job.mutated>>
      BY <1>0, <2>1 DEF Jobs
    <3> QED  BY <1>3, <3>1
  <2>2. CASE Fails("backup_failed")
    BY <1>5, <2>2
  <2> QED  BY <1>10, <2>1, <2>2 DEF SyncBackup
<1>11. CASE RecheckPolicy
  BY <1>1, <1>4, <1>11, RaiseTracked DEF RecheckPolicy
<1> QED  BY <1>6, <1>7, <1>8, <1>9, <1>10, <1>11

\* The replacement and what comes after it.
LEMMA ReplaceTracked ==
  ASSUME IInv, AtHand, Tracked, Note, Replace \/ SyncTarget \/ ReadBack \/ Prune
  PROVE  Tracked'
<1> USE DEF At
<1>0. job \in Jobs
  BY DEF IInv, TypeOK
<1>1. /\ ~Over /\ Followed /\ (job.mutated => ~job.pending)
      /\ job.pc \notin {"idle", "decide", "done"}
  BY DEF Replace, SyncTarget, ReadBack, Prune, Over, Tracked, IInv, Ordered,
         ReplacedOnce, Remembered
<1>2. CASE Replace
  <2>1. CASE job' = [job EXCEPT !.pc = "sync", !.mutated = TRUE, !.temp = "none"]
    <3>1. /\ job'.pc = "sync" /\ job'.mutated
          /\ UNCHANGED <<job.req, job.pending, job.snap>>
      BY <1>0, <2>1 DEF Jobs
    <3>2. job.pc \in Committing
      BY <1>2 DEF Replace, Committing, Temporary, Filled
    <3>3. ~job.mutated /\ job.snap # "none"
      BY <3>2 DEF IInv, Ordered, ReplacedOnce, Decided, Replaced, Committing, Temporary,
                  Filled
    <3>4. drawn' = drawn
      BY <1>1, <3>1, <3>3, NoteRunning DEF Followed
    <3>5. Wanted(job'.req, drawn')
      BY <3>1, <3>2, <3>4, CommitsWanted
    <3>6. Followed'
      BY <3>1, <3>5 DEF Followed
    <3> QED  BY <3>1, <3>6 DEF Tracked, Over, CameTo
  <2>2. CASE Fails("commit_failed") /\ UNCHANGED ghosts
    <3>1. ~(job.mutated /\ debt)
      BY <1>2, Unconfirmed DEF Replace
    <3> QED  BY <1>1, <2>2, <3>1, FailsTracked DEF Failures, ghosts
  <2> QED  BY <1>2, <2>1, <2>2 DEF Replace
<1>3. CASE SyncTarget \/ ReadBack \/ Prune
  <2>0. job.mutated /\ (job.pc \in {"read_back", "prune"} => ~debt)
    BY <1>3 DEF SyncTarget, ReadBack, Prune, IInv, Ordered, ReplacedOnce, Remembered,
                Replaced
  <2>1. CASE SyncTarget
    <3>1. debt
      BY <2>1 DEF SyncTarget, AtHand
    <3> QED
      BY <1>1, <2>0, <2>1, <3>1, GoTracked, FailsTracked DEF SyncTarget
  <2>2. CASE ReadBack
    <3>1. CASE job' = [job EXCEPT !.pc = "prune", !.snap = live]
      <4>1. /\ job'.pc = "prune"
            /\ UNCHANGED <<job.req, job.pending, job.mutated>>
        BY <1>0, <3>1 DEF Jobs
      <4> QED  BY <1>1, <2>0, <4>1, GoesOnTracked
    <3> QED  BY <2>2, <3>1, ReadRaisesTracked DEF ReadBack, ghosts
  <2>3. CASE Prune
    <3>1. CASE Finish(Inspected(job.snap), FALSE)
      <4> DEFINE why == Inspected(job.snap)
                 o == [denied |-> FALSE, error |-> why, mutated |-> job.mutated,
                       confirmed |-> Confirmed, owing |-> debt]
      <4>1. why \in Failures \cup {"none", "conflict"}
        BY DEF Inspected
      <4>2. Wanted(job.req, drawn) /\ job.mutated = TRUE /\ ~debt /\ debt' = debt
        BY <1>0, <1>1, <2>0, <2>3 DEF Followed, Jobs, Prune, ghosts
      <4> HIDE DEF why
      <4>3. ReplacedOutcome(job.req, drawn, o)
        BY <1>1, <4>1, <4>2
        DEF ReplacedOutcome, Answers, UpToDate, Confirmed
      <4>4. Outcome(job.req, drawn, inherited, o)
        BY <4>2, <4>3 DEF Outcome, Confirmed
      <4>5. Finish(why, FALSE)
        BY <3>1 DEF why
      <4> QED  BY <1>1, <4>2, <4>4, <4>5, FinishTracked
    <3>2. CASE Fails("backup_prune_failed")
      BY <1>1, <2>0, <2>3, <3>2, FailsTracked DEF Prune, Failures, ghosts
    <3> QED  BY <2>3, <3>1, <3>2 DEF Prune
  <2> QED  BY <1>3, <2>1, <2>2, <2>3
<1> QED  BY <1>2, <1>3

LEMMA NextTracked ==
  ASSUME IInv, AtHand, Tracked, [Next /\ Note]_<<vars, history>>
  PROVE  Tracked'
<1>0. job \in Jobs
  BY DEF IInv, TypeOK
<1>1. CASE Transaction /\ Note
  BY <1>1, DecideTracked, PrepareTracked, ReplaceTracked DEF Transaction
<1>2. CASE Start /\ Note
  <2>1. PICK r \in Requests : job' = Fresh(r)
    BY <1>2 DEF Start
  <2>2. /\ job'.pc = "read" /\ job'.req = r /\ job'.pending = r.pending
        /\ ~job'.mutated /\ job'.snap = "none" /\ r.pending \in BOOLEAN
    BY <2>1 DEF Fresh, Requests
  <2>3. drawn' = "none" /\ inherited' = debt /\ debt' = debt /\ debt \in BOOLEAN
    BY <1>2 DEF Note, Start, ghosts, IInv, TypeOK
  <2>4. Followed'
    BY <2>2, <2>3 DEF Followed, Confirmed
  <2> QED  BY <2>2, <2>4 DEF Tracked, CameTo, At
<1>3. CASE WriteOutside /\ Note
  <2>1. /\ UNCHANGED <<job.pc, job.req, job.pending, job.mutated, job.snap>>
        /\ debt' = debt /\ ~At("done")
    BY <1>0, <1>3 DEF WriteOutside, Jobs
  <2>2. CASE ~Over
    <3>1. Followed
      BY <2>2 DEF Tracked
    <3>2. drawn' = drawn /\ inherited' = inherited
      BY <1>3, <2>1, <2>2, <3>1, NoteRunning DEF Followed
    <3>3. Followed'
      BY <2>1, <3>1, <3>2 DEF Followed, Confirmed, At
    <3> QED  BY <2>1, <3>3 DEF Tracked, CameTo, At
  <2>3. CASE Over
    BY <2>1, <2>3 DEF Tracked, Over, CameTo, At
  <2> QED  BY <2>2, <2>3
<1>4. CASE (Killed \/ PowerLoss) /\ Note
  <2>1. job'.pc = "idle" /\ job'.pending = FALSE
    BY <1>4 DEF Killed, PowerLoss, IdleJob, Fresh
  <2> QED  BY <2>1 DEF Tracked, Over, CameTo, At
<1>5. CASE UNCHANGED <<vars, history>>
  BY <1>5 DEF vars, ghosts, history, Tracked, Followed, Confirmed, Over,
              CameTo, OutcomeOf, At
<1> QED  BY <1>1, <1>2, <1>3, <1>4, <1>5 DEF Next

\* Whatever fails on the way and whoever writes the target meanwhile, what a job
\* comes to is one of six outcomes: policy stopped it, an earlier replacement could
\* not be confirmed, it could not be done, there was nothing to write, it replaced
\* what it wanted to replace and flushed that, or could not flush it.  Which one it
\* is fits what was asked, the content it acted on and what is unconfirmed then
\* (Reconciler.run and _attempt, reconciler.py:63-150).
THEOREM JobsAnswer == HistorySpec => []JobsComeToOutcome
<1>1. Init => IInv
  BY InitInvariant
<1>2. Init => AtHand /\ Tracked
  BY DEF Init, IdleJob, Fresh, AtHand, Tracked, Over, CameTo, At
<1>3. IInv /\ [Next /\ Note]_<<vars, history>> => IInv'
  BY NextType, NextRoom, NextOrdered DEF IInv, vars, history
<1>4. IInv /\ AtHand /\ [Next /\ Note]_<<vars, history>> => AtHand'
  BY NextAtHand DEF vars, history
<1>5. IInv /\ AtHand /\ Tracked /\ [Next /\ Note]_<<vars, history>> => Tracked'
  BY NextTracked
<1>6. IInv /\ Tracked => JobsComeToOutcome
  <2> SUFFICES ASSUME IInv, Tracked, At("done")
               PROVE  OutcomeOf \in Outcomes
    BY DEF Tracked, CameTo, JobsComeToOutcome
  <2>1. /\ job.denied \in BOOLEAN /\ job.mutated \in BOOLEAN /\ debt \in BOOLEAN
        /\ Confirmed \in BOOLEAN /\ job.error \in Errors
    BY DEF IInv, TypeOK, Jobs, Confirmed
  <2> QED  BY <2>1 DEF OutcomeOf, Outcomes, Confirmed, Errors, Failures
<1> QED  BY <1>1, <1>2, <1>3, <1>4, <1>5, <1>6, PTL DEF HistorySpec
=============================================================================
