--------------------------- MODULE UploadContract ---------------------------
(***************************************************************************)
(* What a chunked upload promises about bytes, with no requests, locks,     *)
(* rows or crashes in it: chunks are staged one at a time and never         *)
(* rewritten in place, the evidence file appears in one step as exactly the *)
(* staged chunks, and evidence is registered once, for the bytes of that    *)
(* file.  From then on those bytes never change, and they are thrown away   *)
(* only as a duplicate: while the case holds another evidence of the image. *)
(***************************************************************************)
CONSTANTS Chunks,   \* the chunk indices of the upload
          Bodies,   \* what a chunk can contain
          NoBytes   \* the absence of a chunk, a file or an evidence

VARIABLES staged,   \* the chunk files of the session
          sealed,   \* the evidence file in canonical storage
          evidence, \* the content the Evidence row was registered with
          rival     \* has the case another evidence of the same image

contract == <<staged, sealed, evidence, rival>>

Images == [Chunks -> Bodies]
Nothing == [c \in Chunks |-> NoBytes]

Init ==
  /\ staged = Nothing
  /\ sealed = NoBytes
  /\ evidence = NoBytes
  /\ rival = FALSE

Stage(c, b) ==
  /\ staged[c] = NoBytes
  /\ staged' = [staged EXCEPT ![c] = b]
  /\ UNCHANGED <<sealed, evidence, rival>>

\* Cancel, expiry and cleanup remove what was staged, all of it.
Discard ==
  /\ staged' = Nothing
  /\ UNCHANGED <<sealed, evidence, rival>>

\* Sealing again is allowed, but never with other bytes than the evidence's.
Seal ==
  /\ staged \in Images
  /\ evidence \in {NoBytes, staged}
  /\ sealed' = staged
  /\ UNCHANGED <<staged, evidence, rival>>

\* A duplicate of an image the case already has is thrown away.
Withdraw ==
  /\ rival
  /\ staged' = Nothing
  /\ sealed' = NoBytes
  /\ UNCHANGED <<evidence, rival>>

RivalRegisters ==
  /\ rival' = TRUE
  /\ UNCHANGED <<staged, sealed, evidence>>

\* Evidence is registered once, for the bytes of the file; a file withdrawn
\* as a duplicate may still be registered by a request that had checked it.
Register ==
  /\ evidence = NoBytes
  /\ evidence' \in Images
  /\ sealed = evidence' \/ rival
  /\ UNCHANGED <<staged, sealed, rival>>

Next ==
  \/ \E c \in Chunks, b \in Bodies : Stage(c, b)
  \/ Discard
  \/ Seal
  \/ Withdraw
  \/ RivalRegisters
  \/ Register

Spec == Init /\ [][Next]_contract

\* The bytes an evidence was registered with are in canonical storage, for as
\* long as the case has no other evidence of the same image.
Kept == evidence # NoBytes => sealed = evidence \/ rival

\* What was registered is never registered again as something else, and a file
\* that holds the bytes of the evidence is not replaced by other bytes.
EvidenceIsFinal ==
  [][evidence # NoBytes => /\ evidence' = evidence
                           /\ sealed' \in {sealed, evidence, NoBytes}]_contract
=============================================================================
