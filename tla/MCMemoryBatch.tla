---------------------------- MODULE MCMemoryBatch ----------------------------
(* Model-checking instances of MemoryBatch.                                *)
EXTENDS MemoryBatch, TLC

\* Requests are interchangeable, and so are workers.
Symmetry == Permutations(Api) \cup Permutations(Worker)

=============================================================================
