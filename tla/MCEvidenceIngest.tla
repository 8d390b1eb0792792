-------------------------- MODULE MCEvidenceIngest --------------------------
(* Finite instances of EvidenceIngest. *)
EXTENDS EvidenceIngest
=============================================================================
