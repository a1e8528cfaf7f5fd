---------------------------- MODULE ConfigFlowMC ----------------------------
(* Three sources on two targets, for TLC.                                   *)
EXTENDS ConfigFlow, TLC

CONSTANTS m1, m2, l1, a, b

Headers == [s \in {m1, m2, l1} |-> IF s = m2 THEN b ELSE a]

Symmetry == Permutations(Flows) \cup Permutations(Rules)
=============================================================================
