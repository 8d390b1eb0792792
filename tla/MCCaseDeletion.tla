--------------------------- MODULE MCCaseDeletion ---------------------------
(* Finite instances of CaseDeletion. *)
EXTENDS CaseDeletion, TLC

\* AI jobs are interchangeable.
Symmetry == Permutations(AiJobs)
=============================================================================
