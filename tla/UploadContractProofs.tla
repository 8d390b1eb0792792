------------------------ MODULE UploadContractProofs ------------------------
(* Proofs about what a chunked upload promises. *)
EXTENDS UploadContract, TLAPS

\* The registered bytes are in canonical storage unless the case has another
\* evidence of the image: Kept is inductive as it stands.  Every specification that
\* implements the contract, such as MemoryUpload, inherits it.
THEOREM ContractKeepsEvidence == Spec => []Kept
<1>1. Init => Kept
  BY DEF Init, Kept
<1>2. ASSUME Kept, [Next]_contract
      PROVE  Kept'
  <2>1. CASE UNCHANGED contract
    BY <1>2, <2>1 DEF Kept, contract
  <2>2. ASSUME NEW c \in Chunks, NEW b \in Bodies, Stage(c, b)
        PROVE  Kept'
    BY <1>2, <2>2 DEF Kept, Stage
  <2>3. CASE Discard
    BY <1>2, <2>3 DEF Kept, Discard
  <2>4. CASE Seal
    \* the file is rewritten with the bytes of the evidence, if there is one
    BY <1>2, <2>4 DEF Kept, Seal
  <2>5. CASE Withdraw
    \* only a rival's image is withdrawn
    BY <1>2, <2>5 DEF Kept, Withdraw
  <2>6. CASE RivalRegisters
    BY <1>2, <2>6 DEF Kept, RivalRegisters
  <2>7. CASE Register
    BY <1>2, <2>7 DEF Kept, Register
  <2> QED
    BY <1>2, <2>1, <2>2, <2>3, <2>4, <2>5, <2>6, <2>7 DEF Next
<1> QED
  BY <1>1, <1>2, PTL DEF Spec

\* An evidence is registered once and its file is never replaced by other bytes,
\* whatever is staged, sealed again or withdrawn afterwards.
THEOREM ContractNeverRewrites == Spec => EvidenceIsFinal
<1> DEFINE Final == evidence # NoBytes => /\ evidence' = evidence
                                          /\ sealed' \in {sealed, evidence, NoBytes}
<1>1. ASSUME [Next]_contract
      PROVE  [Final]_contract
  <2>1. CASE UNCHANGED contract
    BY <2>1
  <2>2. ASSUME NEW c \in Chunks, NEW b \in Bodies, Stage(c, b)
        PROVE  Final
    BY <2>2 DEF Stage
  <2>3. CASE Discard
    BY <2>3 DEF Discard
  <2>4. CASE Seal
    BY <2>4 DEF Seal
  <2>5. CASE Withdraw
    BY <2>5 DEF Withdraw
  <2>6. CASE RivalRegisters
    BY <2>6 DEF RivalRegisters
  <2>7. CASE Register
    BY <2>7 DEF Register
  <2> QED
    BY <1>1, <2>1, <2>2, <2>3, <2>4, <2>5, <2>6, <2>7 DEF Next
<1> QED
  BY <1>1, PTL DEF Spec, EvidenceIsFinal
=============================================================================
