--------------------------- MODULE PatchRuntimeMC ---------------------------
(* Instances of PatchRuntime for TLC. *)
EXTENDS PatchRuntime, TLC

\* Action slots are interchangeable; used for safety only.
Symmetry == Permutations(Tasks)

\* Liveness does not depend on what the watcher reports or on who else writes
\* the target; leaving both out keeps the behaviour graph small.
QuietSpec ==
  Init /\ [][Actions \/ Configuration \/ Lifetime]_vars /\ Fairness
=============================================================================
