----------------------------- MODULE JobOutcome -----------------------------
(***************************************************************************)
(* What one executor job can come to: a relation between what the runtime  *)
(* asked (r), the content it acted on (content) and its outcome (o).  It   *)
(* joins the two models of a job.  In FileTransaction a job is many steps, *)
(* between which others write and anything fails, and each comes to one of *)
(* these outcomes.  In PatchRuntime a job is one step, and each of these   *)
(* is one of its Work actions (FileTransactionProofs, PatchRuntimeProofs). *)
(***************************************************************************)

Readable == {"orig", "patched", "other"}

\* Something could not be read or done.
Failures == {"missing_target", "target_changed", "commit_failed", "backup_failed",
             "backup_prune_failed"}

Outcomes ==
  [denied : BOOLEAN,
   error : Failures \cup {"none", "conflict", "not_applied", "denied",
                          "durability_unconfirmed"},
   mutated : BOOLEAN,
   confirmed : BOOLEAN,   \* an earlier replacement
   owing : BOOLEAN]       \* a replacement is unconfirmed now

\* The action has something to write in place of this content.
Wanted(r, content) ==
  \/ r.act = "revert" /\ content = "patched"
  \/ content = "orig" /\ (r.act = "apply" \/ (r.act = "reconcile" /\ r.auto))

\* What a content that is left as it is amounts to.
Verdict(r, content) ==
  CASE content = "other" -> "conflict"
    [] content = "orig" /\ r.act = "revert" -> "not_applied"
    [] OTHER -> "none"

Answers(o, denied, error, mutated) ==
  o.denied = denied /\ o.error = error /\ o.mutated = mutated

\* An unconfirmed replacement comes before everything else.
UpToDate(r, o) == r.pending => o.confirmed

DeniedOutcome(o) == Answers(o, TRUE, "denied", FALSE)

UnconfirmedOutcome(r, o) ==
  r.pending /\ ~o.confirmed /\ Answers(o, FALSE, "durability_unconfirmed", FALSE)

\* Before it began, or after it wanted to write.
UnavailableOutcome(r, content, o) ==
  /\ UpToDate(r, o) /\ (r.pending => Wanted(r, content))
  /\ \E e \in Failures : Answers(o, FALSE, e, FALSE)

InspectedOutcome(r, content, o) ==
  /\ UpToDate(r, o) /\ content \in Readable /\ ~Wanted(r, content)
  /\ Answers(o, FALSE, Verdict(r, content), FALSE)

\* Replaced and flushed; reading it back and pruning may still fail.
ReplacedOutcome(r, content, o) ==
  /\ UpToDate(r, o) /\ Wanted(r, content) /\ ~o.owing
  /\ \/ \E e \in Failures \cup {"none", "conflict"} : Answers(o, FALSE, e, TRUE)
     \/ Answers(o, TRUE, "denied", TRUE)

UnsyncedOutcome(r, content, o) ==
  /\ UpToDate(r, o) /\ Wanted(r, content) /\ o.owing
  /\ Answers(o, FALSE, "durability_unconfirmed", TRUE)

\* owed says whether a replacement was unconfirmed when the job began.
Outcome(r, content, owed, o) ==
  /\ o.confirmed => r.pending
  /\ ~o.mutated => o.owing = (owed /\ ~o.confirmed)
  /\ \/ DeniedOutcome(o)
     \/ UnconfirmedOutcome(r, o)
     \/ UnavailableOutcome(r, content, o)
     \/ InspectedOutcome(r, content, o)
     \/ ReplacedOutcome(r, content, o)
     \/ UnsyncedOutcome(r, content, o)
=============================================================================
