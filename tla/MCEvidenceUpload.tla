--------------------------- MODULE MCEvidenceUpload ---------------------------
(* Model-checking instances of EvidenceUpload.                             *)
EXTENDS EvidenceUpload, TLC

\* Requests are interchangeable.
Symmetry == Permutations(Client)

=============================================================================
