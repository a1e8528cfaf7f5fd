----------------------------- MODULE JobContract -----------------------------
(***************************************************************************)
(* What the runtime takes an executor job to be, whatever the job does in  *)
(* between: one use of a rule on its target, which looks at the target,    *)
(* may replace it once, as a whole and as it was seen, and answers.  The   *)
(* answers are those that PatchRuntime lets a job report (WorkDenied to    *)
(* WorkUnsynced).  There are no attempts, temporary files or backups here. *)
(* FileTransaction implements this specification.                          *)
(***************************************************************************)

Whole   == {"orig", "patched", "other"}
Outside == Whole \cup {"missing", "unsafe"}
Acts    == {"reconcile", "apply", "revert", "refresh_source"}

VARIABLES
  target,   \* what its name leads to
  settled,  \* what its name leads to after a power loss
  owing,    \* replaced, and its directory not flushed since
  asked,    \* what the runtime wants: an action or nothing, whether the rule is
            \* automatic, whether an earlier replacement is unconfirmed
  seen,     \* what the job saw of the target, before or after it wrote
  wrote,    \* it has replaced the target
  answer    \* what it reported

jobVars == <<target, settled, owing, asked, seen, wrote, answer>>

Asks == [act : Acts, auto : BOOLEAN, pending : BOOLEAN]
Nothing == [act |-> "nothing", auto |-> FALSE, pending |-> FALSE]
NoAnswer == [denied |-> FALSE, error |-> "none", mutated |-> FALSE]

Working == asked # Nothing

Wants(content) ==
  \/ asked.act = "revert" /\ content = "patched"
  \/ content = "orig" /\ (asked.act = "apply" \/ (asked.act = "reconcile" /\ asked.auto))

\* Something could not be read or done.
Failures == {"missing_target", "target_changed", "commit_failed", "backup_failed",
             "backup_prune_failed"}

\* What a content that was read amounts to.
Verdict(content) == IF content = "other" THEN "conflict" ELSE "none"

Init ==
  /\ target \in Outside /\ settled = target /\ owing = FALSE
  /\ asked = Nothing /\ seen = "none" /\ wrote = FALSE
  /\ answer = NoAnswer

Ask ==
  /\ ~Working
  /\ asked' \in Asks
  /\ seen' = "none" /\ wrote' = FALSE /\ answer' = NoAnswer
  /\ UNCHANGED <<target, settled, owing>>

\* It may look again, and what it saw before counts no more.
Look ==
  /\ Working
  /\ seen' \in {"none", target} /\ seen' # "missing" /\ seen' # "unsafe"
  /\ UNCHANGED <<target, settled, owing, asked, wrote, answer>>

\* An earlier replacement is confirmed before anything else.
Confirm ==
  /\ Working /\ asked.pending /\ ~wrote /\ seen = target
  /\ settled' = target /\ owing' = FALSE
  /\ asked' = [act |-> asked.act, auto |-> asked.auto, pending |-> FALSE]
  /\ UNCHANGED <<target, seen, wrote, answer>>

\* Until it is flushed a power loss may bring back what was there, and nothing
\* else.
Replace ==
  /\ Working /\ ~asked.pending /\ ~wrote
  /\ seen = target /\ Wants(seen)
  /\ target' = IF asked.act = "revert" THEN "orig" ELSE "patched"
  /\ owing' = TRUE /\ wrote' = TRUE /\ seen' = "none"
  /\ UNCHANGED <<settled, asked, answer>>

Flush ==
  /\ Working /\ wrote
  /\ settled' = target /\ owing' = FALSE
  /\ UNCHANGED <<target, asked, seen, wrote, answer>>

Report(denied, error) ==
  /\ Working
  /\ answer' = [denied |-> denied, error |-> error, mutated |-> wrote]
  /\ asked' = Nothing /\ seen' = "none" /\ wrote' = FALSE
  /\ UNCHANGED <<target, settled, owing>>

\* Policy stopped it, never between a replacement and its confirmation.
Denied == ~(wrote /\ owing) /\ Report(TRUE, "denied")

\* It could not be done; what was unconfirmed and is so still stays the answer.
Unavailable ==
  /\ ~wrote
  /\ IF asked.pending THEN Report(FALSE, "durability_unconfirmed")
                      ELSE \E e \in Failures : Report(FALSE, e)

\* There is nothing to write.
Inspected ==
  /\ ~wrote /\ ~asked.pending /\ seen # "none" /\ ~Wants(seen)
  /\ Report(FALSE, IF asked.act = "revert" /\ seen = "orig" THEN "not_applied"
                                                          ELSE Verdict(seen))

\* Replaced and flushed: what was read back, or what failed after it.
Replaced ==
  /\ wrote /\ ~owing
  /\ \/ seen # "none" /\ Report(FALSE, Verdict(seen))
     \/ \E e \in Failures : Report(FALSE, e)

Unsynced == wrote /\ owing /\ Report(FALSE, "durability_unconfirmed")

\* The process ends, or the machine does: what is unconfirmed may be undone.
Die ==
  /\ asked' = Nothing /\ seen' = "none" /\ wrote' = FALSE /\ answer' = NoAnswer
  /\ \/ UNCHANGED <<target, settled, owing>>
     \/ target' \in {target, settled} /\ settled' = target' /\ owing' = FALSE

\* Somebody else writes, removes or links the target.
WriteOutside ==
  /\ target' \in Outside /\ settled' = target'
  /\ UNCHANGED <<owing, asked, seen, wrote, answer>>

Next ==
  \/ Ask \/ Look \/ Confirm \/ Replace \/ Flush
  \/ Denied \/ Unavailable \/ Inspected \/ Replaced \/ Unsynced
  \/ Die \/ WriteOutside

Spec == Init /\ [][Next]_jobVars
=============================================================================
