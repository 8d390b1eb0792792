---------------------------- MODULE MemoryUpload ----------------------------
(***************************************************************************)
(* One chunked memory upload session (services/memory/upload_sessions.py)   *)
(* from its creation to the registration of the evidence                    *)
(* (services/memory/upload_lifecycle.py): concurrent chunk requests, the    *)
(* finalize request, cancel, the expiry sweep, the administrative cleanup,  *)
(* and the retry, repair and reconcile paths, each in the steps between     *)
(* which another request can run.                                           *)
(*                                                                          *)
(* A request reads the row once and commits later; a commit writes only the *)
(* columns the request changed, but received_chunks and active_chunks are   *)
(* two keys of one JSON column, so a commit of one rewrites the other.      *)
(***************************************************************************)
EXTENDS Integers, FiniteSets

CONSTANTS Chunks,        \* chunk indices of the upload
          Bodies,        \* contents a chunk request may carry
          NoBytes,       \* no content: no chunk, no file, no evidence
          Declared,      \* the image whose SHA-256 the client declared, or NoBytes
          HashHeader,    \* do chunk requests declare the hash of their body
          Patient,       \* does the client finalize only when no chunk is missing
          Putters,       \* concurrent chunk requests
          Tasks,         \* concurrent finalize, retry, repair, reconcile requests
          Nobody,        \* a lock that is free
          Crashed,       \* a lock whose holder died; it lasts until its TTL
          Cancels,       \* may the operator cancel
          Sweeps,        \* may time pass and the periodic and admin cleanup run
          Twins,         \* may another upload register the same image
          Errors,        \* may storing or registering fail
          Recoveries,    \* may retry, repair and reconcile be called
          MaxCrashes     \* bound on server crashes

ASSUME UploadConstants ==
  /\ IsFiniteSet(Chunks) /\ Chunks # {}
  /\ NoBytes \notin Bodies \cup [Chunks -> Bodies]
  /\ Declared \in [Chunks -> Bodies] \cup {NoBytes}
  /\ {Nobody, Crashed} \cap (Putters \cup Tasks) = {}
  /\ Nobody # Crashed
  /\ MaxCrashes \in Nat

VARIABLES row,        \* the MemoryUpload row
          dir,        \* does the staging directory of the session exist
          file,       \* its chunk files
          temp,       \* chunk requests whose temporary file exists
          assembly,   \* the assembly file of each finalize
          canonical,  \* the evidence file
          evidence,   \* the content the Evidence row was registered with
          twin,       \* the other upload of the same image
          chunkLock, metaLock, finalLock,  \* Redis locks of the session
          put,        \* chunk requests
          task,       \* finalize, retry, repair and reconcile requests
          closing,    \* a cancel, or a reconcile until it closes or registers
          sweep,      \* the periodic cleanup
          crashes

disk == <<dir, file, temp, assembly, canonical>>
locks == <<chunkLock, metaLock, finalLock>>
vars == <<row, disk, evidence, twin, locks, put, task, closing, sweep, crashes>>

Images == [Chunks -> Bodies]
NoFiles == [c \in Chunks |-> NoBytes]

Active == {"created", "uploading", "verifying", "finalizing"}
Terminal == {"completed", "cancelled", "expired", "failed", "inconsistent"}
Statuses == Active \cup Terminal \cup {"registration_pending"}

\* No chunk is accepted in these.
ClosedToChunks == Terminal \cup {"verifying", "finalizing"}

\* How long since _touch_session: nothing, past the stale timeout, past expires_at.
Fresh == 0
Stale == 1
Expired == 2

Metas == [received : [Chunks -> Bodies \cup {NoBytes}], active : SUBSET Chunks]
NoMeta == [received |-> NoFiles, active |-> {}]

Recorded(received) == {c \in Chunks : received[c] # NoBytes}

IdlePut == [pc |-> "idle", chunk |-> CHOOSE c \in Chunks : TRUE, body |-> NoBytes,
            meta |-> NoMeta, was |-> "created", opens |-> FALSE]
IdleTask == [pc |-> "idle", kind |-> "finalize", was |-> "created",
             received |-> NoFiles, image |-> NoBytes]

\* create_memory_upload_session: the row is committed, then the directory made.
Init ==
  /\ row = [status |-> "created", meta |-> NoMeta, bytes |-> 0, sha |-> NoBytes,
            preserved |-> FALSE, retryable |-> FALSE, age |-> Fresh]
  /\ dir = TRUE
  /\ file = NoFiles
  /\ temp = {}
  /\ assembly = [t \in Tasks |-> NoBytes]
  /\ canonical = NoBytes
  /\ evidence = NoBytes
  /\ twin = "unknown"
  /\ chunkLock = [c \in Chunks |-> Nobody]
  /\ metaLock = Nobody
  /\ finalLock = Nobody
  /\ put = [p \in Putters |-> IdlePut]
  /\ task = [t \in Tasks |-> IdleTask]
  /\ closing = "idle"
  /\ sweep = "idle"
  /\ crashes = 0

-----------------------------------------------------------------------------
(* The staging area.                                                         *)

\* classify_chunk_staging: the records of the row against the files on disk.
\* A chunk's record holds its hash, a stored chunk has the recorded size.
Integrity(received, verifyHashes) ==
  LET missing == {c \in Recorded(received) : file[c] = NoBytes}
      differ == {c \in Recorded(received) : file[c] # received[c]}
      extra == {c \in Chunks : file[c] # NoBytes} \ Recorded(received)
  IN CASE ~dir -> "staging_missing"
       [] dir /\ missing # {} -> "missing_chunks_on_disk"
       [] dir /\ missing = {} /\ verifyHashes /\ differ # {} -> "hash_mismatch"
       [] dir /\ missing = {} /\ ~(verifyHashes /\ differ # {}) /\ extra # {} -> "extra_chunks_on_disk"
       [] OTHER -> "healthy"

\* _cleanup_session_storage: the directory goes with all it contains.
RemoveStaging ==
  /\ dir' = FALSE
  /\ file' = NoFiles
  /\ temp' = {}
  /\ assembly' = [t \in Tasks |-> NoBytes]

\* The record and the file of the chunk are there already; only a declared hash is compared.
AlreadyStored(received, c, b) ==
  /\ file[c] # NoBytes
  /\ received[c] # NoBytes
  /\ HashHeader => received[c] = b

-----------------------------------------------------------------------------
(* store_memory_upload_chunk_stream: one request for one chunk.              *)

PutAt(p, pc) == put[p].pc = pc
PutGoes(p, pc) == put' = [put EXCEPT ![p].pc = pc]
PutEnds(p) == put' = [put EXCEPT ![p] = IdlePut]

\* A commit rewrites the whole JSON column, if the request changed it.
MetaWritten(p, meta) == IF meta = put[p].meta THEN row.meta ELSE meta

\* The row is read; a request for a closed session ends here.
PutStart(p, c, b) ==
  /\ PutAt(p, "idle")
  /\ row.status \notin ClosedToChunks
  /\ put' = [put EXCEPT ![p] = [IdlePut EXCEPT
                                  !.pc = IF row.age = Expired THEN "expired" ELSE "inspect",
                                  !.chunk = c, !.body = b, !.meta = row.meta]]
  /\ UNCHANGED <<row, disk, evidence, twin, locks, task, closing, sweep, crashes>>

\* The files are compared with the records that were read; a chunk that is stored
\* needs no more.
PutInspect(p) ==
  LET received == put[p].meta.received IN
  /\ PutAt(p, "inspect")
  /\ IF Integrity(received, FALSE) \notin {"healthy", "extra_chunks_on_disk"}
     THEN PutGoes(p, "damaged")
     ELSE IF AlreadyStored(received, put[p].chunk, put[p].body)
     THEN PutEnds(p)
     ELSE put' = [put EXCEPT ![p].pc = "lock", ![p].meta = NoMeta]
  /\ UNCHANGED <<row, disk, evidence, twin, locks, task, closing, sweep, crashes>>

\* The request found the session expired, ...
PutFindsExpired(p) ==
  /\ PutAt(p, "expired")
  /\ row' = [row EXCEPT !.status = "expired"]
  /\ PutEnds(p)
  /\ UNCHANGED <<disk, evidence, twin, locks, task, closing, sweep, crashes>>

\* ... or the records without their files: it commits that, whatever the row is by now.
PutFindsDamage(p) ==
  /\ PutAt(p, "damaged")
  /\ row' = [row EXCEPT !.status = "failed", !.retryable = TRUE]
  /\ PutEnds(p)
  /\ UNCHANGED <<disk, evidence, twin, locks, task, closing, sweep, crashes>>

\* The lock of the chunk is busy, or what is read under it refuses the chunk.
PutRefused(p) ==
  /\ PutAt(p, "lock")
  /\ \/ chunkLock[put[p].chunk] # Nobody
     \/ row.status \in ClosedToChunks
     \/ AlreadyStored(row.meta.received, put[p].chunk, put[p].body)
  /\ PutEnds(p)
  /\ UNCHANGED <<row, disk, evidence, twin, locks, task, closing, sweep, crashes>>

PutLock(p) ==
  LET c == put[p].chunk IN
  /\ PutAt(p, "lock")
  /\ chunkLock[c] = Nobody
  /\ row.status \notin ClosedToChunks
  /\ ~AlreadyStored(row.meta.received, c, put[p].body)
  /\ chunkLock' = [chunkLock EXCEPT ![c] = p]
  /\ put' = [put EXCEPT ![p].pc = "mark", ![p].meta = row.meta]
  /\ UNCHANGED <<row, disk, evidence, twin, metaLock, finalLock, task, closing, sweep, crashes>>

\* _set_active_chunk(True) and its commit, from the row as PutLock read it.
PutMark(p) ==
  /\ PutAt(p, "mark")
  /\ row' = [row EXCEPT !.meta =
               MetaWritten(p, [put[p].meta EXCEPT !.active = @ \cup {put[p].chunk}])]
  /\ PutGoes(p, "write")
  /\ UNCHANGED <<disk, evidence, twin, locks, task, closing, sweep, crashes>>

\* The directory is made again if it has gone, and the body streamed to a file.
PutWrite(p) ==
  /\ PutAt(p, "write")
  /\ dir' = TRUE
  /\ temp' = temp \cup {p}
  /\ PutGoes(p, "place")
  /\ UNCHANGED <<row, file, assembly, canonical, evidence, twin, locks, task, closing, sweep, crashes>>

\* The body is short, too long, not what was declared, or the client left.
PutWriteFails(p) ==
  /\ Errors
  /\ PutAt(p, "place")
  /\ temp' = temp \ {p}
  /\ put' = [put EXCEPT ![p].pc = "clear", ![p].meta = NoMeta]
  /\ UNCHANGED <<row, dir, file, assembly, canonical, evidence, twin, locks, task, closing, sweep, crashes>>

PutPlace(p) ==
  /\ PutAt(p, "place")
  /\ file[put[p].chunk] = NoBytes
  /\ p \in temp
  /\ file' = [file EXCEPT ![put[p].chunk] = put[p].body]
  /\ temp' = temp \ {p}
  /\ put' = [put EXCEPT ![p].pc = "record", ![p].opens = TRUE, ![p].meta = NoMeta]
  /\ UNCHANGED <<row, dir, assembly, canonical, evidence, twin, locks, task, closing, sweep, crashes>>

PutFindsFileMut(p) ==
  /\ PutAt(p, "place")
  /\ file[put[p].chunk] # NoBytes
  /\ file' = [file EXCEPT ![put[p].chunk] = put[p].body]
  /\ temp' = temp \ {p}
  /\ put' = [put EXCEPT ![p].pc = "record", ![p].meta = NoMeta]
  /\ UNCHANGED <<row, dir, assembly, canonical, evidence, twin, locks, task, closing, sweep, crashes>>

\* A file of this chunk that has no record is recorded if it has the same
\* bytes; in every other case it is kept and the request is refused.
PutFindsFile(p) ==
  LET c == put[p].chunk
      adopt == put[p].meta.received[c] = NoBytes /\ file[c] = put[p].body
  IN
  /\ PutAt(p, "place")
  /\ file[c] # NoBytes
  /\ temp' = temp \ {p}
  /\ put' = [put EXCEPT ![p].pc = IF adopt THEN "record" ELSE "clear", ![p].meta = NoMeta]
  /\ UNCHANGED <<row, dir, file, assembly, canonical, evidence, twin, locks, task, closing, sweep, crashes>>

\* The temporary file went with the directory: os.replace finds nothing.
PutLosesFile(p) ==
  /\ PutAt(p, "place")
  /\ file[put[p].chunk] = NoBytes
  /\ p \notin temp
  /\ put' = [put EXCEPT ![p].pc = "clear", ![p].meta = NoMeta]
  /\ UNCHANGED <<row, disk, evidence, twin, locks, task, closing, sweep, crashes>>

\* _record_chunk_received: the bytes are in place, but the lock is busy
\* or Redis does not answer.
PutRecordRefused(p) ==
  /\ PutAt(p, "record")
  /\ metaLock # Nobody \/ Errors
  /\ put' = [put EXCEPT ![p].pc = "clear", ![p].opens = FALSE]
  /\ UNCHANGED <<row, disk, evidence, twin, locks, task, closing, sweep, crashes>>

PutRecord(p) ==
  /\ PutAt(p, "record")
  /\ metaLock = Nobody
  /\ metaLock' = p
  /\ put' = [put EXCEPT ![p].pc = "merge", ![p].meta = row.meta, ![p].was = row.status]
  /\ UNCHANGED <<row, disk, evidence, twin, chunkLock, finalLock, task, closing, sweep, crashes>>

PutMergeMut(p) ==
  LET meta == [put[p].meta EXCEPT !.received[put[p].chunk] = put[p].body]
      reopens == put[p].opens /\ put[p].was # "uploading"
  IN
  /\ PutAt(p, "merge")
  /\ row' = [row EXCEPT !.meta = MetaWritten(p, meta),
                        !.bytes = @ + 1,
                        !.status = IF reopens THEN "uploading" ELSE @,
                        !.age = Fresh]
  /\ metaLock' = Nobody
  /\ put' = [put EXCEPT ![p].pc = "clear", ![p].meta = NoMeta, ![p].was = "created",
                        ![p].opens = FALSE]
  /\ UNCHANGED <<disk, evidence, twin, chunkLock, finalLock, task, closing, sweep, crashes>>

\* The commit of the merge: the status is written if the request changed it.
PutMerge(p) ==
  LET meta == [put[p].meta EXCEPT !.received[put[p].chunk] = put[p].body]
      reopens == put[p].opens /\ put[p].was # "uploading"
  IN
  /\ PutAt(p, "merge")
  /\ row' = [row EXCEPT !.meta = MetaWritten(p, meta),
                        !.bytes = Cardinality(Recorded(meta.received)),
                        !.status = IF reopens THEN "uploading" ELSE @,
                        !.age = Fresh]
  /\ metaLock' = Nobody
  /\ put' = [put EXCEPT ![p].pc = "clear", ![p].meta = NoMeta, ![p].was = "created",
                        ![p].opens = FALSE]
  /\ UNCHANGED <<disk, evidence, twin, chunkLock, finalLock, task, closing, sweep, crashes>>

\* The finally block: the row is read again ...
PutClear(p) ==
  /\ PutAt(p, "clear")
  /\ put' = [put EXCEPT ![p].pc = "unmark", ![p].meta = row.meta]
  /\ UNCHANGED <<row, disk, evidence, twin, locks, task, closing, sweep, crashes>>

UnmarkedMut(p) == put[p].meta

Unmarked(p) == [put[p].meta EXCEPT !.active = @ \ {put[p].chunk}]

\* ... and committed without the mark; the lock of the chunk is released.
PutUnmark(p) ==
  /\ PutAt(p, "unmark")
  /\ row' = [row EXCEPT !.meta = MetaWritten(p, Unmarked(p))]
  /\ chunkLock' = [chunkLock EXCEPT ![put[p].chunk] = Nobody]
  /\ PutEnds(p)
  /\ UNCHANGED <<disk, evidence, twin, metaLock, finalLock, task, closing, sweep, crashes>>
-----------------------------------------------------------------------------
(* finalize_memory_upload_session and run_chunked_finalize.                  *)

TaskAt(t, pc) == task[t].pc = pc
TaskGoes(t, pc) == task' = [task EXCEPT ![t].pc = pc]
Unlocked(t) == IF finalLock = t THEN Nobody ELSE finalLock

\* A request ends; a finalize releases its lock.
TaskEnds(t) ==
  /\ task' = [task EXCEPT ![t] = IdleTask]
  /\ finalLock' = Unlocked(t)

\* runResumableUpload.ts awaits its chunk requests and asks which are missing.
ClientIsDone ==
  /\ Recorded(row.meta.received) = Chunks
  /\ \A p \in Putters : PutAt(p, "idle")

\* The statuses in which finalize returns what is there and does nothing.
FinalizeReturns == {"completed", "cancelled", "expired", "inconsistent"}

FinalizeStart(t) ==
  /\ TaskAt(t, "idle")
  /\ finalLock = Nobody
  /\ Patient => ClientIsDone
  /\ row.status \notin FinalizeReturns
  /\ row.meta.active = {}
  /\ finalLock' = t
  /\ task' = [task EXCEPT ![t] = [IdleTask EXCEPT !.pc = "check", !.was = row.status,
                                                  !.received = row.meta.received]]
  /\ UNCHANGED <<row, disk, evidence, twin, chunkLock, metaLock, put, closing, sweep, crashes>>

\* Files are hashed and compared with the records as FinalizeStart read them.
FinalizeFindsDamage(t) ==
  /\ TaskAt(t, "check")
  /\ Integrity(task[t].received, TRUE) # "healthy"
  /\ row' = [row EXCEPT !.status = "failed", !.retryable = TRUE]
  /\ TaskEnds(t)
  /\ UNCHANGED <<disk, evidence, twin, chunkLock, metaLock, put, closing, sweep, crashes>>

FinalizeFindsMissing(t) ==
  /\ TaskAt(t, "check")
  /\ Integrity(task[t].received, TRUE) = "healthy"
  /\ Recorded(task[t].received) # Chunks
  /\ TaskEnds(t)
  /\ UNCHANGED <<row, disk, evidence, twin, chunkLock, metaLock, put, closing, sweep, crashes>>

FinalizeCheck(t) ==
  /\ TaskAt(t, "check")
  /\ Integrity(task[t].received, TRUE) = "healthy"
  /\ Recorded(task[t].received) = Chunks
  /\ task' = [task EXCEPT ![t].pc = "verify", ![t].received = NoFiles]
  /\ UNCHANGED <<row, disk, evidence, twin, locks, put, closing, sweep, crashes>>

\* The commit leaves the column alone when the row was read as verifying.
FinalizeVerify(t) ==
  /\ TaskAt(t, "verify")
  /\ row' = [row EXCEPT !.status = IF task[t].was = "verifying" THEN @ ELSE "verifying",
                        !.age = Fresh]
  /\ task' = [task EXCEPT ![t].pc = "assemble", ![t].was = "created"]
  /\ UNCHANGED <<disk, evidence, twin, locks, put, closing, sweep, crashes>>

IsDuplicateMut(image) == \/ twin = "registered" /\ image = Declared
                         \/ evidence = image

\* _find_duplicate_memory_evidence: another evidence of the case has this image;
\* the session's own evidence does not count.
IsDuplicate(image) == twin = "registered" /\ image = Declared

\* concat_and_hash, the size and hash checks and the search for a duplicate.
FinalizeAssemble(t) ==
  /\ TaskAt(t, "assemble")
  /\ file \in Images
  /\ Declared \in {NoBytes, file}
  /\ assembly' = [assembly EXCEPT ![t] = file]
  /\ task' = [task EXCEPT ![t].pc = IF IsDuplicate(file) THEN "duplicate" ELSE "finalizing",
                          ![t].image = file]
  /\ UNCHANGED <<row, dir, file, temp, canonical, evidence, twin, locks, put, closing, sweep, crashes>>

\* A chunk file has gone, or the whole is not what the client declared.
FinalizeAssembleFails(t) ==
  /\ TaskAt(t, "assemble")
  /\ ~(file \in Images /\ Declared \in {NoBytes, file})
  /\ TaskGoes(t, "fail")
  /\ UNCHANGED <<row, disk, evidence, twin, locks, put, closing, sweep, crashes>>

\* _on_duplicate: staging and evidence directory are removed, the session fails.
FinalizeDuplicate(t) ==
  /\ TaskAt(t, "duplicate")
  /\ RemoveStaging
  /\ canonical' = NoBytes
  /\ row' = [row EXCEPT !.status = "failed", !.retryable = TRUE, !.sha = task[t].image,
                        !.age = Fresh]
  /\ TaskEnds(t)
  /\ UNCHANGED <<evidence, twin, chunkLock, metaLock, put, closing, sweep, crashes>>

FinalizeFinalizingMut(t) ==
  /\ TaskAt(t, "finalizing")
  /\ row' = [row EXCEPT !.status = "completed", !.bytes = Cardinality(Chunks),
                        !.sha = task[t].image, !.age = Fresh]
  /\ task' = [task EXCEPT ![t].pc = "promote", ![t].image = NoBytes]
  /\ UNCHANGED <<disk, evidence, twin, locks, put, closing, sweep, crashes>>

FinalizeFinalizing(t) ==
  /\ TaskAt(t, "finalizing")
  /\ row' = [row EXCEPT !.status = "finalizing", !.bytes = Cardinality(Chunks),
                        !.sha = task[t].image, !.age = Fresh]
  /\ task' = [task EXCEPT ![t].pc = "promote", ![t].image = NoBytes]
  /\ UNCHANGED <<disk, evidence, twin, locks, put, closing, sweep, crashes>>

\* atomic_promote
FinalizePromote(t) ==
  /\ TaskAt(t, "promote")
  /\ assembly[t] # NoBytes
  /\ canonical' = assembly[t]
  /\ assembly' = [assembly EXCEPT ![t] = NoBytes]
  /\ TaskGoes(t, "register")
  /\ UNCHANGED <<row, dir, file, temp, evidence, twin, locks, put, closing, sweep, crashes>>

\* secure_uploaded_memory_permissions or the fsync after the promote fails.
PostPromoteFails(t) ==
  /\ Errors
  /\ TaskAt(t, "register")
  /\ task[t].kind = "finalize"
  /\ TaskGoes(t, "fail")
  /\ UNCHANGED <<row, disk, evidence, twin, locks, put, closing, sweep, crashes>>

\* The assembly file went with the staging directory, or the move failed.
FinalizePromoteFails(t) ==
  /\ TaskAt(t, "promote")
  /\ assembly[t] = NoBytes \/ Errors
  /\ TaskGoes(t, "fail")
  /\ UNCHANGED <<row, disk, evidence, twin, locks, put, closing, sweep, crashes>>

FinalizeFailsMut(t) ==
  /\ TaskAt(t, "fail")
  /\ assembly' = [assembly EXCEPT ![t] = NoBytes]
  /\ canonical' = NoBytes
  /\ row' = [row EXCEPT !.status = "failed", !.retryable = TRUE, !.age = Fresh]
  /\ TaskEnds(t)
  /\ UNCHANGED <<dir, file, temp, evidence, twin, chunkLock, metaLock, put, closing, sweep, crashes>>

\* The handler of every other exception.
FinalizeFails(t) ==
  /\ TaskAt(t, "fail")
  /\ assembly' = [assembly EXCEPT ![t] = NoBytes]
  /\ row' = [row EXCEPT !.status = "failed", !.retryable = TRUE, !.age = Fresh]
  /\ TaskEnds(t)
  /\ UNCHANGED <<dir, file, temp, canonical, evidence, twin, chunkLock, metaLock, put, closing,
                 sweep, crashes>>

FinalizeCleanup(t) ==
  /\ TaskAt(t, "cleanup")
  /\ RemoveStaging
  /\ TaskEnds(t)
  /\ UNCHANGED <<row, canonical, evidence, twin, chunkLock, metaLock, put, closing, sweep, crashes>>

-----------------------------------------------------------------------------
(* Registration: register_memory_evidence_from_upload for finalize, repair   *)
(* and reconcile, register_preserved_memory_upload for retry.                *)

\* After a registration that succeeded, a finalize still removes its staging.
TaskRegistered(t) ==
  IF task[t].kind = "finalize"
  THEN TaskGoes(t, "cleanup") /\ UNCHANGED finalLock
  ELSE TaskEnds(t)

Completed(r) == [r EXCEPT !.status = "completed", !.preserved = TRUE, !.retryable = FALSE]

RegisterFindsEvidence(t) ==
  /\ TaskAt(t, "register")
  /\ evidence # NoBytes
  /\ canonical # NoBytes
  /\ row' = Completed(row)
  /\ TaskRegistered(t)
  /\ UNCHANGED <<disk, evidence, twin, chunkLock, metaLock, put, closing, sweep, crashes>>

RegisterFindsNoFile(t) ==
  /\ TaskAt(t, "register")
  /\ evidence # NoBytes
  /\ canonical = NoBytes
  /\ row' = [row EXCEPT !.status = "inconsistent", !.preserved = FALSE, !.retryable = FALSE]
  /\ TaskEnds(t)
  /\ UNCHANGED <<disk, evidence, twin, chunkLock, metaLock, put, closing, sweep, crashes>>

\* Only the retry path skips the byte count and the hash of the file.
Registrable(t) ==
  /\ row.sha # NoBytes
  /\ canonical # NoBytes
  /\ task[t].kind # "retry" => row.bytes = Cardinality(Chunks) /\ canonical = row.sha

\* The retry path fails the session; the others leave the row as it is.
RegisterRefused(t) ==
  /\ TaskAt(t, "register")
  /\ evidence = NoBytes
  /\ ~Registrable(t)
  /\ row' = IF task[t].kind = "retry"
            THEN [row EXCEPT !.status = "failed", !.preserved = FALSE, !.retryable = FALSE]
            ELSE row
  /\ TaskEnds(t)
  /\ UNCHANGED <<disk, evidence, twin, chunkLock, metaLock, put, closing, sweep, crashes>>

RegisterDuplicate(t) ==
  /\ TaskAt(t, "register")
  /\ evidence = NoBytes
  /\ Registrable(t)
  /\ IsDuplicate(row.sha)
  /\ row' = [row EXCEPT !.status = "failed", !.preserved = TRUE, !.retryable = FALSE]
  /\ TaskEnds(t)
  /\ UNCHANGED <<disk, evidence, twin, chunkLock, metaLock, put, closing, sweep, crashes>>

RegisterMark(t) ==
  /\ TaskAt(t, "register")
  /\ evidence = NoBytes
  /\ Registrable(t)
  /\ ~IsDuplicate(row.sha)
  /\ row' = [row EXCEPT !.preserved = TRUE]
  /\ TaskGoes(t, "insert")
  /\ UNCHANGED <<disk, evidence, twin, locks, put, closing, sweep, crashes>>

\* _persist_evidence_minimal: the id of the evidence is the row's, and unique.
RegisterInsert(t) ==
  /\ TaskAt(t, "insert")
  /\ evidence = NoBytes
  /\ evidence' = row.sha
  /\ TaskGoes(t, "complete")
  /\ UNCHANGED <<row, disk, twin, locks, put, closing, sweep, crashes>>

\* IntegrityError: a parallel request won the race.
RegisterRaced(t) ==
  /\ TaskAt(t, "insert")
  /\ evidence # NoBytes
  /\ row' = [row EXCEPT !.status = "completed", !.preserved = TRUE]
  /\ TaskRegistered(t)
  /\ UNCHANGED <<disk, evidence, twin, chunkLock, metaLock, put, closing, sweep, crashes>>

\* Any other error, before the commit of the insert or after it.
RegisterFails(t) ==
  /\ Errors
  /\ TaskAt(t, "insert")
  /\ evidence = NoBytes
  /\ evidence' \in {NoBytes, row.sha}
  /\ row' = [row EXCEPT !.status = "failed", !.preserved = TRUE, !.retryable = TRUE]
  /\ TaskEnds(t)
  /\ UNCHANGED <<disk, twin, chunkLock, metaLock, put, closing, sweep, crashes>>

\* The retry path commits registration_pending while the automation runs.
RegisterPending(t) ==
  /\ TaskAt(t, "complete")
  /\ task[t].kind = "retry"
  /\ row' = [row EXCEPT !.status = "registration_pending", !.retryable = FALSE]
  /\ TaskGoes(t, "automate")
  /\ UNCHANGED <<disk, evidence, twin, locks, put, closing, sweep, crashes>>

RegisterComplete(t) ==
  /\ IF task[t].kind = "retry" THEN TaskAt(t, "automate") ELSE TaskAt(t, "complete")
  /\ row' = [row EXCEPT !.status = "completed", !.retryable = FALSE]
  /\ TaskRegistered(t)
  /\ UNCHANGED <<disk, evidence, twin, chunkLock, metaLock, put, closing, sweep, crashes>>

TaskRegisters(t, kind) ==
  task' = [task EXCEPT ![t] = [IdleTask EXCEPT !.pc = "register", !.kind = kind]]

\* retry_memory_upload_registration_endpoint
Retry(t) ==
  /\ Recoveries
  /\ TaskAt(t, "idle")
  /\ row.status # "completed"
  /\ row.preserved
  /\ TaskRegisters(t, "retry")
  /\ UNCHANGED <<row, disk, evidence, twin, locks, put, closing, sweep, crashes>>

\* repair_preserved_memory_uploads
Repair(t) ==
  /\ Recoveries
  /\ TaskAt(t, "idle")
  /\ row.status \in {"failed", "inconsistent", "cancelled"}
  /\ canonical # NoBytes
  /\ row.sha \in {NoBytes, canonical}
  /\ evidence = NoBytes
  /\ TaskRegisters(t, "repair")
  /\ UNCHANGED <<row, disk, evidence, twin, locks, put, closing, sweep, crashes>>

\* The endpoint's guard, and reconcile_memory_upload's on an active session.
Reconcilable ==
  /\ row.status # "completed"
  /\ row.status \in {"failed", "inconsistent"} => row.retryable
  /\ row.status \in Active \cup {"registration_pending"} => row.age >= Stale

\* reconcile_memory_upload reads the row ...
ReconcileRead ==
  /\ Recoveries
  /\ closing = "idle"
  /\ row.status = "completed" \/ Reconcilable
  /\ closing' = IF row.status = "completed" THEN "completed" ELSE "open"
  /\ UNCHANGED <<row, disk, evidence, twin, locks, put, task, sweep, crashes>>

\* ... and looks for the files and the evidence: a session without a whole evidence
\* file is closed, and a completed one without its evidence or file is inconsistent.
\* Staging is a directory, so it never passes for a staged file.
ReconcileInspect ==
  /\ \/ /\ closing = "completed"
        /\ closing' = IF NoBytes \in {canonical, evidence} THEN "inconsistent" ELSE "idle"
     \/ /\ closing = "open"
        /\ dir \/ canonical = NoBytes
        /\ closing' = IF canonical # NoBytes \/ evidence # NoBytes THEN "inconsistent" ELSE "failed"
  /\ UNCHANGED <<row, disk, evidence, twin, locks, put, task, sweep, crashes>>

ReconcileCloses ==
  /\ closing \in {"inconsistent", "failed"}
  /\ row' = [row EXCEPT !.status = closing, !.retryable = FALSE]
  /\ closing' = "idle"
  /\ UNCHANGED <<disk, evidence, twin, locks, put, task, sweep, crashes>>

\* One with nothing but its evidence file is registered.
Reconcile(t) ==
  /\ TaskAt(t, "idle")
  /\ closing = "open"
  /\ ~dir
  /\ canonical # NoBytes
  /\ row' = [row EXCEPT !.status = "finalizing",
                        !.sha = IF @ = NoBytes THEN canonical ELSE @]
  /\ TaskRegisters(t, "repair")
  /\ closing' = "idle"
  /\ UNCHANGED <<disk, evidence, twin, locks, put, sweep, crashes>>

\* reconcile_memory_upload_lifecycles, at start-up and from its endpoint.
ReconcileLifecycles ==
  /\ Recoveries
  /\ canonical # NoBytes
  /\ evidence = NoBytes
  /\ row' = [row EXCEPT !.preserved = TRUE]
  /\ UNCHANGED <<disk, evidence, twin, locks, put, task, closing, sweep, crashes>>

-----------------------------------------------------------------------------
(* Cancel, expiry and cleanup: none takes a lock.                            *)

\* cancel_memory_upload_session reads a session that is not terminal ...
CancelRead ==
  /\ Cancels
  /\ closing = "idle"
  /\ row.status \notin Terminal
  /\ closing' = "cancel"
  /\ UNCHANGED <<row, disk, evidence, twin, locks, put, task, sweep, crashes>>

CancelCommitMut ==
  /\ closing = "cancel"
  /\ row' = [row EXCEPT !.status = "cancelled", !.retryable = FALSE, !.preserved = FALSE,
                        !.age = Fresh]
  /\ closing' = "remove"
  /\ UNCHANGED <<disk, evidence, twin, locks, put, task, sweep, crashes>>

\* ... and cancels it, whatever it is by now.
CancelCommit ==
  /\ closing = "cancel"
  /\ row' = [row EXCEPT !.status = "cancelled", !.retryable = FALSE, !.age = Fresh]
  /\ closing' = "remove"
  /\ UNCHANGED <<disk, evidence, twin, locks, put, task, sweep, crashes>>

CancelRemove ==
  /\ closing = "remove"
  /\ RemoveStaging
  /\ closing' = "idle"
  /\ UNCHANGED <<row, canonical, evidence, twin, locks, put, task, sweep, crashes>>

TimePasses ==
  /\ Sweeps
  /\ row.age < Expired
  /\ row' = [row EXCEPT !.age = @ + 1]
  /\ UNCHANGED <<disk, evidence, twin, locks, put, task, closing, sweep, crashes>>

\* cleanup_expired_memory_upload_sessions reads the rows, commits, then removes.
SweepSelect ==
  /\ Sweeps
  /\ sweep = "idle"
  /\ row.age = Expired
  /\ \/ row.status \in Active /\ sweep' = "commit"
     \/ row.status \in {"cancelled", "failed", "expired"} /\ sweep' = "remove"
  /\ UNCHANGED <<row, disk, evidence, twin, locks, put, task, closing, crashes>>

SweepCommit ==
  /\ sweep = "commit"
  /\ row' = [row EXCEPT !.status = "expired", !.retryable = FALSE]
  /\ sweep' = "remove"
  /\ UNCHANGED <<disk, evidence, twin, locks, put, task, closing, crashes>>

SweepRemove ==
  /\ sweep = "remove"
  /\ RemoveStaging
  /\ sweep' = "idle"
  /\ UNCHANGED <<row, canonical, evidence, twin, locks, put, task, closing, crashes>>

\* cleanup_memory_upload_staging, from the maintenance command.
AdminCleanup ==
  /\ Sweeps
  /\ row.status \in Terminal
  /\ row.meta.active = {}
  /\ dir
  /\ RemoveStaging
  /\ UNCHANGED <<row, canonical, evidence, twin, locks, put, task, closing, sweep, crashes>>

-----------------------------------------------------------------------------
(* The other upload of the same image, and crashes.                          *)

\* It looks for a duplicate and inserts its own evidence in two steps too.
TwinCheck ==
  /\ Twins
  /\ twin = "unknown"
  /\ evidence = NoBytes
  /\ twin' = "checked"
  /\ UNCHANGED <<row, disk, evidence, locks, put, task, closing, sweep, crashes>>

TwinRegister ==
  /\ twin = "checked"
  /\ twin' = "registered"
  /\ UNCHANGED <<row, disk, evidence, locks, put, task, closing, sweep, crashes>>

Orphaned(holder) == IF holder = Nobody THEN Nobody ELSE Crashed

\* Requests die where they are; Redis keeps their locks until the TTL.
Crash ==
  /\ crashes < MaxCrashes
  /\ crashes' = crashes + 1
  /\ put' = [p \in Putters |-> IdlePut]
  /\ task' = [t \in Tasks |-> IdleTask]
  /\ closing' = "idle"
  /\ sweep' = "idle"
  /\ chunkLock' = [c \in Chunks |-> Orphaned(chunkLock[c])]
  /\ metaLock' = Orphaned(metaLock)
  /\ finalLock' = Orphaned(finalLock)
  /\ UNCHANGED <<row, disk, evidence, twin>>

Released(holder) == IF holder = Crashed THEN Nobody ELSE holder

LocksExpire ==
  /\ Crashed \in {chunkLock[c] : c \in Chunks} \cup {metaLock, finalLock}
  /\ chunkLock' = [c \in Chunks |-> Released(chunkLock[c])]
  /\ metaLock' = Released(metaLock)
  /\ finalLock' = Released(finalLock)
  /\ UNCHANGED <<row, disk, evidence, twin, put, task, closing, sweep, crashes>>

-----------------------------------------------------------------------------
PutSteps(p) ==
  \/ PutInspect(p) \/ PutFindsExpired(p) \/ PutFindsDamage(p) \/ PutRefused(p)
  \/ PutLock(p) \/ PutMark(p) \/ PutWrite(p) \/ PutWriteFails(p)
  \/ PutPlace(p) \/ PutFindsFile(p) \/ PutLosesFile(p) \/ PutRecordRefused(p)
  \/ PutRecord(p) \/ PutMerge(p) \/ PutClear(p) \/ PutUnmark(p)

TaskSteps(t) ==
  \/ FinalizeFindsDamage(t) \/ FinalizeFindsMissing(t) \/ FinalizeCheck(t)
  \/ FinalizeVerify(t) \/ FinalizeAssemble(t) \/ FinalizeAssembleFails(t)
  \/ FinalizeDuplicate(t) \/ FinalizeFinalizing(t) \/ FinalizePromote(t)
  \/ FinalizePromoteFails(t) \/ PostPromoteFails(t) \/ FinalizeFails(t) \/ FinalizeCleanup(t)
  \/ RegisterFindsEvidence(t) \/ RegisterFindsNoFile(t) \/ RegisterRefused(t)
  \/ RegisterDuplicate(t) \/ RegisterMark(t) \/ RegisterInsert(t) \/ RegisterRaced(t)
  \/ RegisterFails(t) \/ RegisterPending(t) \/ RegisterComplete(t)

Recover(t) == Retry(t) \/ Repair(t) \/ Reconcile(t)

Next ==
  \/ \E p \in Putters, c \in Chunks, b \in Bodies : PutStart(p, c, b)
  \/ \E p \in Putters : PutSteps(p)
  \/ \E t \in Tasks : FinalizeStart(t) \/ TaskSteps(t) \/ Recover(t)
  \/ ReconcileRead \/ ReconcileInspect \/ ReconcileCloses \/ ReconcileLifecycles
  \/ CancelRead \/ CancelCommit \/ CancelRemove
  \/ TimePasses \/ SweepSelect \/ SweepCommit \/ SweepRemove \/ AdminCleanup
  \/ TwinCheck \/ TwinRegister
  \/ Crash \/ LocksExpire

Spec == Init /\ [][Next]_vars

\* Requests that were started run to their end, unless the server crashes; the
\* client sends a chunk that is not recorded again and again, and asks for the
\* finalize while nothing is missing.
ClientSends(c) == \E p \in Putters, b \in Bodies :
  row.meta.received[c] = NoBytes /\ PutStart(p, c, b)

Fairness ==
  /\ \A p \in Putters : WF_vars(PutSteps(p))
  /\ \A t \in Tasks : WF_vars(TaskSteps(t))
  /\ \A c \in Chunks : SF_vars(ClientSends(c))
  /\ SF_vars(\E t \in Tasks : FinalizeStart(t))
  /\ WF_vars(LocksExpire)

FairSpec == Spec /\ Fairness
-----------------------------------------------------------------------------
(* Properties.                                                               *)

PutPcs == {"idle", "inspect", "expired", "damaged", "lock", "mark", "write", "place", "record",
           "merge", "clear", "unmark"}
TaskPcs == {"idle", "check", "verify", "assemble", "duplicate", "finalizing", "promote",
            "register", "insert", "complete", "automate", "cleanup", "fail"}

\* Type invariant: the row, the files, the locks and the requests in flight
\* have the shapes the code gives them.
TypeOK ==
  /\ row \in [status : Statuses, meta : Metas, bytes : 0 .. Cardinality(Chunks),
              sha : Images \cup {NoBytes}, preserved : BOOLEAN, retryable : BOOLEAN,
              age : Fresh .. Expired]
  /\ dir \in BOOLEAN
  /\ file \in [Chunks -> Bodies \cup {NoBytes}]
  /\ temp \subseteq Putters
  /\ assembly \in [Tasks -> Images \cup {NoBytes}]
  /\ canonical \in Images \cup {NoBytes}
  /\ evidence \in Images \cup {NoBytes}
  /\ twin \in {"unknown", "checked", "registered"}
  /\ chunkLock \in [Chunks -> Putters \cup {Nobody, Crashed}]
  /\ metaLock \in Putters \cup {Nobody, Crashed}
  /\ finalLock \in Tasks \cup {Nobody, Crashed}
  /\ put \in [Putters -> [pc : PutPcs, chunk : Chunks, body : Bodies \cup {NoBytes},
                          meta : Metas, was : Statuses, opens : BOOLEAN]]
  /\ task \in [Tasks -> [pc : TaskPcs, kind : {"finalize", "retry", "repair"},
                         was : Statuses, received : [Chunks -> Bodies \cup {NoBytes}],
                         image : Images \cup {NoBytes}]]
  /\ closing \in {"idle", "cancel", "remove", "completed", "open", "inconsistent", "failed"}
  /\ sweep \in {"idle", "commit", "remove"}
  /\ crashes \in 0 .. MaxCrashes

\* The bytes an Evidence row was registered with are the bytes in canonical
\* storage: no later finalize, cancel, sweep or retry replaces or removes the
\* file under it, unless the case has another evidence of the same image, as
\* which _on_duplicate may throw these bytes away.
ImageIsKept == evidence # NoBytes => canonical = evidence \/ twin = "registered"

\* A session says completed only when its Evidence row exists, whichever of
\* finalize, retry, repair and reconcile completed it.
CompletedIsRegistered == row.status = "completed" => evidence # NoBytes

\* A registered image can always be brought back to completed: late commits of a cancel, a
\* chunk request or a reconcile may write their status over it, but the row still says
\* canonical_preserved, without which the retry endpoint asks for the bytes to be sent
\* again (routes_memory.py retry_memory_upload_registration_endpoint).
RegisteredIsRecoverable ==
  evidence # NoBytes => row.preserved \/ twin = "registered"

\* An upload whose client keeps sending what is missing is completed.
UploadCompletes == <>(row.status = "completed")

\* What the session does to bytes is what UploadContract allows.
Contract == INSTANCE UploadContract WITH
  staged <- file, sealed <- canonical, rival <- twin = "registered"
ImplementsContract == Contract!Spec
=============================================================================
