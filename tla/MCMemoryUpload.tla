--------------------------- MODULE MCMemoryUpload ---------------------------
(***************************************************************************)
(* Instances of MemoryUpload for TLC.                                       *)
(***************************************************************************)
EXTENDS MemoryUpload, TLC

CONSTANT whole  \* the content of every chunk of the image the client declared

DeclaredImage == [c \in Chunks |-> whole]

\* Chunk requests are interchangeable, and so are tasks.
Requests == Permutations(Putters) \cup Permutations(Tasks)
=============================================================================
