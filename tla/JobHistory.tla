----------------------------- MODULE JobHistory -----------------------------
(***************************************************************************)
(* FileTransaction with a record of what a job began with and acted on, to *)
(* say what it came to.                                                    *)
(***************************************************************************)
EXTENDS FileTransaction, JobOutcome

VARIABLES
  drawn,    \* history: what the job last read before it replaced the target
  inherited \* history: a replacement was unconfirmed when it began

history == <<drawn, inherited>>

InitHistory == drawn = "none" /\ inherited = FALSE

Note ==
  IF Start THEN drawn' = "none" /\ inherited' = debt
  ELSE /\ drawn' = IF ~job.mutated /\ job'.snap # "none" THEN job'.snap ELSE drawn
       /\ inherited' = inherited

HistorySpec == Init /\ InitHistory /\ [][Next /\ Note]_<<vars, history>>

OutcomeOf ==
  [denied |-> job.denied, error |-> job.error, mutated |-> job.mutated,
   confirmed |-> job.req.pending /\ ~job.pending, owing |-> debt]

\* Whatever fails or interferes, a job comes to one of the outcomes of JobOutcome.
JobsComeToOutcome ==
  At("done") => OutcomeOf \in Outcomes /\ Outcome(job.req, drawn, inherited, OutcomeOf)
=============================================================================
