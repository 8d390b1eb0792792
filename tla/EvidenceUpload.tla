---------------------------- MODULE EvidenceUpload ----------------------------
(***************************************************************************)
(* One upload session of the ingestion wizard: the row of                  *)
(* evidence_upload_sessions, the staged file, the evidence operation shown *)
(* in the Activity Center, and the processes that touch them:              *)
(*   - requests (append, finalize, promote, cancel, retry),                *)
(*   - the RQ worker that runs the background preflight,                   *)
(*   - the reconciliation that expires abandoned sessions.                 *)
(* Two Redis locks serialise appends and finalizations; nothing else is    *)
(* locked.  A session commit and the sync_upload_operation that follows it *)
(* are one step.                                                           *)
(***************************************************************************)
EXTENDS Integers, Sequences

CONSTANTS
  Size,         \* blocks of the client's file (expected_size_bytes)
  Client,       \* concurrent requests
  Worker,       \* the RQ worker
  MaxFaults,    \* disk, preflight, registration and Redis errors
  MaxCrashes,   \* backend or worker crashes
  MaxCancels,   \* cancel requests
  MaxRetries,   \* retry requests
  MaxExpiries,  \* times the session outlives expires_at
  MaxOverruns   \* times a lock outlives its TTL while held

Proc   == Client \cup {Worker}
Free   == "free"
Orphan == "orphan"                     \* held by a process that died

ASSUME UploadAssumption ==
  /\ Size \in Nat \ {0}
  /\ Worker \notin Client
  /\ Free \notin Proc /\ Orphan \notin Proc
  /\ {MaxFaults, MaxCrashes, MaxCancels, MaxRetries, MaxExpiries, MaxOverruns} \subseteq Nat

Whole  == [i \in 1 .. Size |-> i]      \* the client's file, block by block
NoData == << >>

Uploadable == {"created", "uploading", "interrupted"}
Expirable  == Uploadable \cup {"staged"}
SessionStatus ==
  Uploadable \cup {"preflight_running", "staged", "promoted", "cancelled", "expired"}

\* Every fine-grained preflight checkpoint is one stage, "substage"; a streamed
\* session shows its status as the stage until it has a report.
Stages == {"upload", "session_status", "queued_preflight", "finalizing_upload", "preflight_failed",
           "substage", "promoting", "processing_queued"}
RetryableStages == {"queued_preflight", "finalizing_upload", "preflight_failed", "upload"}

OperationStatus ==
  {"waiting_upload", "uploading", "paused", "finalizing", "preflight", "waiting_user",
   "promoting", "queued", "completed", "failed", "cancelled", "expired"}

VARIABLES
  row,        \* the committed session row
  file,       \* the staged file
  operation,  \* the committed evidence operation
  lock,       \* holders of the append and the finalize lock
  proc,       \* requests and the worker
  job,        \* the RQ preflight job of the session
  recon,      \* the reconciliation
  evidence,   \* Evidence rows registered from this session
  expired,    \* expires_at lies in the past
  used        \* how often each bounded event has happened

vars == <<row, file, operation, lock, proc, job, recon, evidence, expired, used>>

NoFile == [exists |-> FALSE, data |-> NoData]
\* seen and got are the status and bytes_received the process has loaded.
Idle   == [pc |-> "idle", seen |-> "created", got |-> 0, off |-> 0,
           data |-> NoData, sha |-> NoData, first |-> FALSE]

Bounds == [fault |-> MaxFaults, crash |-> MaxCrashes, cancel |-> MaxCancels,
           retry |-> MaxRetries, expiry |-> MaxExpiries, overrun |-> MaxOverruns]

\* A bounded event happens.
Use(kind) == used[kind] < Bounds[kind] /\ used' = [used EXCEPT ![kind] = @ + 1]

\* create_resumable_upload_session, or create_streamed_upload_session whose
\* bytes are on disk and hashed before the row exists.
Init ==
  /\ \/ /\ row = [status |-> "created", received |-> 0, sha |-> NoData, report |-> FALSE,
                  resumable |-> TRUE]
        /\ file = NoFile
        /\ operation = [status |-> "waiting_upload", stage |-> "upload"]
     \/ /\ row = [status |-> "staged", received |-> 0, sha |-> Whole, report |-> FALSE,
                  resumable |-> FALSE]
        /\ file = [exists |-> TRUE, data |-> Whole]
        /\ operation = [status |-> "waiting_user", stage |-> "session_status"]
  /\ lock = [append |-> Free, finalize |-> Free]
  /\ proc = [p \in Proc |-> Idle]
  /\ job = "none"
  /\ recon = "idle"
  /\ evidence = << >>
  /\ expired = FALSE
  /\ used = [k \in DOMAIN Bounds |-> 0]

-----------------------------------------------------------------------------
(* evidence_operations: the operation is a projection of the session row.  *)

operation_statusMut(status) ==  \* "interrupted" is not translated
  CASE status = "created" -> "waiting_upload"
    [] status = "preflight_running" -> "preflight"
    [] status = "staged" -> "waiting_user"
    [] status = "promoted" -> "completed"
    [] OTHER -> status

operation_status(status) ==
  CASE status = "created" -> "waiting_upload"
    [] status = "interrupted" -> "paused"
    [] status = "preflight_running" -> "preflight"
    [] status = "staged" -> "waiting_user"
    [] status = "promoted" -> "completed"
    [] OTHER -> status

derive_operation_stage(r, stage) ==
  IF r.report \/ (stage = "substage" /\ r.status \in {"preflight_running", "staged"})
  THEN "substage"
  ELSE IF r.resumable THEN "upload" ELSE "session_status"

sync_upload_operation(r) ==
  [status |-> operation_status(r.status), stage |-> derive_operation_stage(r, operation.stage)]

\* A commit of the session, the touch of its expiry, and the sync.
CommitTouched(r) ==
  /\ row' = r
  /\ expired' = FALSE
  /\ operation' = sync_upload_operation(r)

\* The ORM writes a column only when it differs from the value it loaded.
Column(current, loaded, new) == IF new = loaded THEN current ELSE new

Goto(p, next) == proc' = [proc EXCEPT ![p] = next]

ReleaseMut(l, p) == lock' = [lock EXCEPT ![l] = Free]  \* whoever holds it

\* The release deletes the lock only if it still holds the caller's token.
Release(l, p) == lock' = [lock EXCEPT ![l] = IF @ = p THEN Free ELSE @]

\* enqueue_evidence_upload_preflight: a queued or started job is reused.
EnqueuePreflight == job' = IF job = "none" THEN "queued" ELSE job

-----------------------------------------------------------------------------
(* Append: the offset must match the file and the row; the body goes to a  *)
(* temporary file first and is then copied to the end of the staged file.  *)

OffsetMatchesMut == TRUE  \* the offset is trusted

OffsetMatches == row.received = Len(file.data)

AppendBegin(c) ==
  /\ proc[c].pc = "idle"
  /\ lock.append = Free
  /\ row.status \in Uploadable
  /\ OffsetMatches
  /\ lock' = [lock EXCEPT !.append = c]
  /\ Goto(c, [Idle EXCEPT !.pc = "receive", !.seen = row.status, !.got = row.received,
                          !.off = row.received])
  /\ UNCHANGED <<row, file, operation, job, recon, evidence, expired, used>>

Blocks(off, n) == [i \in 1 .. n |-> off + i]

Extended(off, n) == [exists |-> TRUE, data |-> file.data \o Blocks(off, n)]

AppendWriteMut(c) ==  \* no temporary file: a disconnect leaves its bytes
  /\ proc[c].pc = "receive"
  /\ \E n \in 0 .. (Size - proc[c].off) :
       /\ file' = Extended(proc[c].off, n)
       /\ \/ Goto(c, [proc[c] EXCEPT !.pc = "commit", !.off = @ + n])
          \/ Goto(c, [proc[c] EXCEPT !.pc = "interrupt"])
  /\ UNCHANGED <<row, operation, lock, job, recon, evidence, expired, used>>

\* An empty body adds nothing, and its request still commits a status.
AppendWrite(c) ==
  /\ proc[c].pc = "receive"
  /\ \E n \in 0 .. (Size - proc[c].off) :
       /\ file' = Extended(proc[c].off, n)
       /\ Goto(c, [proc[c] EXCEPT !.pc = "commit", !.off = @ + n])
  /\ UNCHANGED <<row, operation, lock, job, recon, evidence, expired, used>>

\* The copy stops part of the way, or its fsync fails.
AppendWriteFails(c) ==
  /\ proc[c].pc = "receive"
  /\ Use("fault")
  /\ \E n \in 0 .. (Size - proc[c].off) : file' = Extended(proc[c].off, n)
  /\ Goto(c, [proc[c] EXCEPT !.pc = "interrupt"])
  /\ UNCHANGED <<row, operation, lock, job, recon, evidence, expired>>

\* The client disconnects, the temporary file is gone, or the copy failed:
\* bytes_received stays at the offset at which the append began.
AppendInterrupt(c) ==
  /\ proc[c].pc \in {"receive", "interrupt"}
  /\ CommitTouched([row EXCEPT !.status = Column(@, proc[c].seen, "interrupted")])
  /\ Release("append", c)
  /\ Goto(c, Idle)
  /\ UNCHANGED <<file, job, recon, evidence, used>>

AppendCommit(c) ==
  /\ proc[c].pc = "commit"
  /\ CommitTouched([row EXCEPT !.status = Column(@, proc[c].seen, "uploading"),
                               !.received = Column(@, proc[c].got, proc[c].off)])
  /\ Release("append", c)
  /\ Goto(c, IF proc[c].off >= Size THEN [Idle EXCEPT !.pc = "queue"] ELSE Idle)
  /\ UNCHANGED <<file, job, recon, evidence, used>>

\* append_resumable_evidence_upload: the last byte queues the preflight.
AppendQueueMut(c) ==  \* left to the client's finalize
  /\ proc[c].pc = "queue"
  /\ Goto(c, Idle)
  /\ UNCHANGED <<row, file, operation, job, lock, recon, evidence, expired, used>>

AppendQueue(c) ==
  /\ proc[c].pc = "queue"
  /\ operation' = [status |-> "finalizing", stage |-> "queued_preflight"]
  /\ EnqueuePreflight
  /\ Goto(c, Idle)
  /\ UNCHANGED <<row, file, lock, recon, evidence, expired, used>>

\* The operation is committed before Redis refuses the job.
AppendQueueFails(c) ==
  /\ proc[c].pc = "queue"
  /\ Use("fault")
  /\ operation' = [status |-> "finalizing", stage |-> "queued_preflight"]
  /\ Goto(c, Idle)
  /\ UNCHANGED <<row, file, lock, job, recon, evidence, expired>>

-----------------------------------------------------------------------------
(* Finalize, by a request (which waits for the lock) or by the worker.     *)

\* Where a process stands when it is about to take the finalize lock.
AtFinalize(p) == proc[p].pc = IF p = Worker THEN "lock" ELSE "idle"

\* The worker's RQ job ends with its handler.
HandlerEnds(p) ==
  /\ Goto(p, Idle)
  /\ job' = IF p = Worker THEN "none" ELSE job

\* The row is refreshed under the lock and the size of the file is taken.
\* A request returns the stored report of a staged session; the worker
\* inspects again.
FinalizeRead(p) ==
  /\ AtFinalize(p)
  /\ lock.finalize = Free
  /\ \/ /\ row.status = "staged" /\ (p = Worker \/ ~ row.report)
        /\ Goto(p, [Idle EXCEPT !.pc = "inspect"])
     \/ /\ row.status \in Uploadable
        /\ Goto(p, [Idle EXCEPT !.pc = "mark", !.seen = row.status, !.got = row.received,
                                !.off = Len(file.data), !.first = TRUE])
  /\ lock' = [lock EXCEPT !.finalize = p]
  /\ UNCHANGED <<row, file, operation, job, recon, evidence, expired, used>>

SizeAcceptedMut(n) == TRUE  \* the size of the staged file is not checked

SizeAccepted(n) == n = Size

\* upload_incomplete: the row is set back to what is on disk.
FinalizeIncomplete(p) ==
  /\ proc[p].pc = "mark" /\ ~ SizeAccepted(proc[p].off)
  /\ row' = [row EXCEPT !.status = Column(@, proc[p].seen, "interrupted"),
                         !.received = Column(@, proc[p].got, proc[p].off)]
  /\ expired' = FALSE
  /\ operation' = IF p = Worker THEN [status |-> "failed", stage |-> "preflight_failed"]
                                ELSE sync_upload_operation(row')
  /\ Release("finalize", p)
  /\ HandlerEnds(p)
  /\ UNCHANGED <<file, recon, evidence, used>>

FinalizeMark(p) ==
  /\ proc[p].pc = "mark" /\ SizeAccepted(proc[p].off)
  /\ row' = [row EXCEPT !.status = "preflight_running",
                         !.received = Column(@, proc[p].got, proc[p].off)]
  /\ expired' = FALSE
  /\ operation' = [operation EXCEPT !.stage = "substage"]
  /\ Goto(p, [proc[p] EXCEPT !.pc = "inspect"])
  /\ UNCHANGED <<file, lock, job, recon, evidence, used>>

\* Hash and preflight; the hash is committed with the next checkpoint.
FinalizeInspect(p) ==
  /\ proc[p].pc = "inspect"
  /\ file.exists
  /\ row' = [row EXCEPT !.sha = IF proc[p].first THEN file.data ELSE @]
  /\ operation' = [operation EXCEPT !.stage = "substage"]
  /\ Goto(p, [proc[p] EXCEPT !.pc = "stage"])
  /\ UNCHANGED <<file, lock, job, recon, evidence, expired, used>>

\* The preflight raises: the commit that marks the operation also writes the
\* hash; the session keeps its status.
InspectionFailed(p) ==
  /\ proc[p].pc = "inspect"
  /\ row' = [row EXCEPT !.sha = IF proc[p].first THEN file.data ELSE @]
  /\ operation' = [status |-> "failed",
                   stage |-> IF p = Worker THEN "preflight_failed"
                             ELSE derive_operation_stage(row, operation.stage)]
  /\ Release("finalize", p)
  /\ HandlerEnds(p)
  /\ UNCHANGED <<file, recon, evidence, expired>>

FinalizeMissing(p) == ~ file.exists /\ InspectionFailed(p) /\ UNCHANGED used

FinalizeFails(p) == Use("fault") /\ InspectionFailed(p)

FinalizeStage(p) ==
  /\ proc[p].pc = "stage"
  /\ row' = [row EXCEPT !.status = IF proc[p].first THEN "staged" ELSE @, !.report = TRUE]
  /\ expired' = FALSE
  /\ operation' = IF p = Worker THEN [status |-> "waiting_user", stage |-> "substage"]
                                ELSE sync_upload_operation(row')
  /\ Release("finalize", p)
  /\ HandlerEnds(p)
  /\ UNCHANGED <<file, recon, evidence, used>>

-----------------------------------------------------------------------------
(* run_evidence_upload_preflight.                                          *)

\* The status is read before the lock is taken.
WorkerTake ==
  /\ job = "queued"
  /\ IF row.status \in Uploadable
       THEN /\ job' = "started"
            /\ operation' = [status |-> "finalizing", stage |-> "finalizing_upload"]
            /\ Goto(Worker, [Idle EXCEPT !.pc = "lock"])
       ELSE /\ job' = "none"
            /\ UNCHANGED <<operation, proc>>
  /\ UNCHANGED <<row, file, lock, recon, evidence, expired, used>>

\* session_busy or session_not_uploading: the client's result stands.
WorkerStepsAside ==
  /\ proc[Worker].pc = "lock"
  /\ lock.finalize # Free \/ row.status \notin Expirable
  /\ HandlerEnds(Worker)
  /\ UNCHANGED <<row, file, operation, lock, recon, evidence, expired, used>>

-----------------------------------------------------------------------------
(* Promote: staged bytes become an Evidence row.                           *)

\* _cleanup_storage removes the directory, with the temporary file of an append
\* that is still receiving: its copy can no longer succeed.
Cleanup == file' = NoFile

Interrupted(procs) ==
  [p \in Proc |-> IF procs[p].pc = "receive" THEN [procs[p] EXCEPT !.pc = "interrupt"]
                                             ELSE procs[p]]

\* get_active_session, and the operation is marked promoting.
PromoteBegin(c) ==
  /\ proc[c].pc = "idle"
  /\ row.status = "staged"
  /\ operation' = [status |-> "promoting", stage |-> "promoting"]
  /\ Goto(c, [Idle EXCEPT !.pc = "open"])
  /\ UNCHANGED <<row, file, lock, job, recon, evidence, expired, used>>

PromoteOpen(c) ==
  /\ proc[c].pc = "open"
  /\ Goto(c, IF file.exists THEN [proc[c] EXCEPT !.pc = "save", !.data = file.data,
                                                 !.sha = row.sha]
                            ELSE Idle)
  /\ UNCHANGED <<row, file, operation, lock, job, recon, evidence, expired, used>>

IsDuplicate(sha) == \E i \in 1 .. Len(evidence) : evidence[i].sha = sha

\* save_upload moves the staged file; when it is gone it copies from the open
\* handle.  A duplicate is refused after the move.
PromoteSave(c) ==
  LET move   == file.exists /\ proc[c].sha # NoData
      stored == IF move THEN file.data ELSE proc[c].data
      sha    == IF move THEN proc[c].sha ELSE proc[c].data
  IN
  /\ proc[c].pc = "save"
  /\ file' = IF move THEN NoFile ELSE file
  /\ Goto(c, IF IsDuplicate(sha)
             THEN Idle
             ELSE [proc[c] EXCEPT !.pc = "register", !.data = stored, !.sha = sha])
  /\ UNCHANGED <<row, operation, lock, job, recon, evidence, expired, used>>

PromoteRegister(c) ==
  /\ proc[c].pc = "register"
  /\ evidence' = Append(evidence, [data |-> proc[c].data, sha |-> proc[c].sha])
  /\ Goto(c, [Idle EXCEPT !.pc = "finish"])
  /\ UNCHANGED <<row, file, operation, lock, job, recon, expired, used>>

\* Any error between the move and the commit of the Evidence row.
PromoteRegisterFails(c) ==
  /\ proc[c].pc = "register"
  /\ Use("fault")
  /\ Goto(c, Idle)
  /\ UNCHANGED <<row, file, operation, lock, job, recon, evidence, expired>>

PromoteFinish(c) ==
  /\ proc[c].pc = "finish"
  /\ row' = [row EXCEPT !.status = "promoted"]
  /\ operation' = sync_upload_operation(row')
  /\ Goto(c, [Idle EXCEPT !.pc = "announce"])
  /\ UNCHANGED <<file, lock, job, recon, evidence, expired, used>>

PromoteAnnounce(c) ==
  /\ proc[c].pc = "announce"
  /\ Cleanup
  /\ operation' = [status |-> "queued", stage |-> "processing_queued"]
  /\ proc' = Interrupted([proc EXCEPT ![c] = Idle])
  /\ UNCHANGED <<row, lock, job, recon, evidence, expired, used>>

-----------------------------------------------------------------------------
(* Cancel takes no lock and looks at no status: it deletes the bytes, then *)
(* commits the row.                                                        *)

CancelCleanup(c) ==
  /\ proc[c].pc = "idle"
  /\ Use("cancel")
  /\ Cleanup
  /\ proc' = Interrupted([proc EXCEPT ![c] = [Idle EXCEPT !.pc = "cancel"]])
  /\ UNCHANGED <<row, operation, lock, job, recon, evidence, expired>>

CancelCommit(c) ==
  /\ proc[c].pc = "cancel"
  /\ row' = [row EXCEPT !.status = "cancelled"]
  /\ operation' = sync_upload_operation(row')
  /\ Goto(c, Idle)
  /\ UNCHANGED <<file, lock, job, recon, evidence, expired, used>>

\* retry_evidence_operation.
Retry(c) ==
  /\ proc[c].pc = "idle"
  /\ operation.stage \in RetryableStages
  /\ Use("retry")
  /\ operation' = [status |-> "finalizing", stage |-> "queued_preflight"]
  /\ EnqueuePreflight
  /\ UNCHANGED <<row, file, lock, proc, recon, evidence, expired>>

-----------------------------------------------------------------------------
(* reconcile_evidence_operations, run by every Activity Center request and *)
(* at startup.  It reads all sessions, and commits after the last one.     *)

ExpirableNowMut == expired /\ row.status = "staged"  \* only staged sessions expire

ExpirableNow == expired /\ row.status \in Expirable

ReconcileSync ==
  /\ recon = "idle"
  /\ ~ ExpirableNow
  /\ operation' = sync_upload_operation(row)
  /\ UNCHANGED <<row, file, lock, proc, job, recon, evidence, expired, used>>

ReconcileRead ==
  /\ recon = "idle"
  /\ ExpirableNow
  /\ recon' = "cleanup"
  /\ UNCHANGED <<row, file, operation, lock, proc, job, evidence, expired, used>>

ReconcileCleanup ==
  /\ recon = "cleanup"
  /\ Cleanup
  /\ proc' = Interrupted(proc)
  /\ recon' = "commit"
  /\ UNCHANGED <<row, operation, lock, job, evidence, expired, used>>

ReconcileCommit ==
  /\ recon = "commit"
  /\ row' = [row EXCEPT !.status = "expired"]
  /\ operation' = sync_upload_operation(row')
  /\ recon' = "idle"
  /\ UNCHANGED <<file, lock, proc, job, evidence, expired, used>>

-----------------------------------------------------------------------------
(* Time and crashes.                                                       *)

Expire ==
  /\ ~ expired
  /\ Use("expiry")
  /\ expired' = TRUE
  /\ UNCHANGED <<row, file, operation, lock, proc, job, recon, evidence>>

\* The TTL of a lock ends: always for a dead holder, and for a live one that
\* takes longer than DEFAULT_LOCK_TTL_SECONDS.
LockExpires(l) ==
  /\ lock[l] = Orphan
  /\ lock' = [lock EXCEPT ![l] = Free]
  /\ UNCHANGED <<row, file, operation, proc, job, recon, evidence, expired, used>>

LockOverruns(l) ==
  /\ lock[l] \in Proc
  /\ Use("overrun")
  /\ lock' = [lock EXCEPT ![l] = Free]
  /\ UNCHANGED <<row, file, operation, proc, job, recon, evidence, expired>>

OrphanLocks(dead) ==
  lock' = [l \in DOMAIN lock |-> IF lock[l] \in dead THEN Orphan ELSE lock[l]]

BackendCrash ==
  /\ Use("crash")
  /\ proc' = [p \in Proc |-> IF p = Worker THEN proc[p] ELSE Idle]
  /\ recon' = "idle"
  /\ OrphanLocks(Client)
  /\ UNCHANGED <<row, file, operation, job, evidence, expired>>

\* The job stays in the started registry until RQ cleans it up.
WorkerCrash ==
  /\ proc[Worker].pc # "idle"
  /\ Use("crash")
  /\ Goto(Worker, Idle)
  /\ job' = "lost"
  /\ OrphanLocks({Worker})
  /\ UNCHANGED <<row, file, operation, recon, evidence, expired>>

RqCleanup ==
  /\ job = "lost"
  /\ job' = "none"
  /\ UNCHANGED <<row, file, operation, lock, proc, recon, evidence, expired, used>>

-----------------------------------------------------------------------------
FinalizeStep(p) ==
  FinalizeIncomplete(p) \/ FinalizeMark(p) \/ FinalizeInspect(p)
    \/ FinalizeMissing(p) \/ FinalizeStage(p)

RequestStep(c) ==
  \/ AppendWrite(c) \/ AppendInterrupt(c) \/ AppendCommit(c) \/ AppendQueue(c)
  \/ FinalizeStep(c)
  \/ PromoteOpen(c) \/ PromoteSave(c) \/ PromoteRegister(c)
  \/ PromoteFinish(c) \/ PromoteAnnounce(c)
  \/ CancelCommit(c)

RequestBegin(c) ==
  AppendBegin(c) \/ FinalizeRead(c) \/ PromoteBegin(c) \/ CancelCleanup(c) \/ Retry(c)

RequestError(c) ==
  AppendWriteFails(c) \/ AppendQueueFails(c) \/ FinalizeFails(c) \/ PromoteRegisterFails(c)

WorkerStep == WorkerTake \/ WorkerStepsAside \/ FinalizeRead(Worker) \/ FinalizeStep(Worker)

Reconcile == ReconcileRead \/ ReconcileCleanup \/ ReconcileCommit

Next ==
  \/ \E c \in Client : RequestBegin(c) \/ RequestStep(c) \/ RequestError(c)
  \/ WorkerStep \/ FinalizeFails(Worker)
  \/ Reconcile \/ ReconcileSync
  \/ Expire
  \/ \E l \in {"append", "finalize"} : LockExpires(l) \/ LockOverruns(l)
  \/ BackendCrash \/ WorkerCrash \/ RqCleanup

Spec == Init /\ [][Next]_vars

(* A request in progress ends, the worker drains its queue, RQ and Redis   *)
(* forget dead holders, and somebody opens the Activity Center now and     *)
(* then.  No request has to be made.                                       *)
Fairness ==
  /\ \A c \in Client : WF_vars(RequestStep(c))
  /\ WF_vars(WorkerStep)
  /\ WF_vars(Reconcile)
  /\ WF_vars(RqCleanup)
  /\ \A l \in {"append", "finalize"} : WF_vars(LockExpires(l))

FairSpec == Spec /\ Fairness

-----------------------------------------------------------------------------
(* Properties.                                                             *)

ProcPc == {"idle", "receive", "interrupt", "commit", "queue", "lock", "mark", "inspect",
           "stage", "open", "save", "register", "finish", "announce", "cancel"}

\* Every row, file and process has its declared type.
TypeOK ==
  /\ row \in [status : SessionStatus, received : Nat, sha : Seq(Nat), report : BOOLEAN,
             resumable : BOOLEAN]
  /\ file \in [exists : BOOLEAN, data : Seq(Nat)]
  /\ expired \in BOOLEAN
  /\ operation \in [status : OperationStatus, stage : Stages]
  /\ lock \in [{"append", "finalize"} -> Proc \cup {Free, Orphan}]
  /\ proc \in [Proc -> [pc : ProcPc, seen : SessionStatus, got : Nat, off : Nat,
                        data : Seq(Nat), sha : Seq(Nat), first : BOOLEAN]]
  /\ job \in {"none", "queued", "started", "lost"}
  /\ recon \in {"idle", "cleanup", "commit"}
  /\ evidence \in Seq([data : Seq(Nat), sha : Seq(Nat)])
  /\ used \in [DOMAIN Bounds -> Nat]

\* The staged file is always the beginning of the client's file, whatever
\* crashes, disconnects and partial writes came before.
StagedBytesArePrefix == file.data = Blocks(0, Len(file.data)) /\ Len(file.data) <= Size

\* What promote_upload_session registers is the client's whole file under its
\* own hash, however often appends, inspections and promotions failed or were
\* cut off by a crash and then resumed or retried.
EvidenceIsWhole == \A i \in 1 .. Len(evidence) : evidence[i] = [data |-> Whole, sha |-> Whole]

\* Between appends the offset the row confirms is the one an append needs, until
\* the expiry sweep removes the file.
ConfirmedOffsetIsUsable ==
  used.expiry = 0 /\ row.status \in Uploadable /\ (\A c \in Client : proc[c].pc = "idle")
    /\ proc[Worker].pc = "idle" /\ recon = "idle" => OffsetMatches

\* Where a request stands while it holds each lock.
Section == [append |-> {"receive", "interrupt", "commit"},
            finalize |-> {"mark", "inspect", "stage"}]

\* While a request is inside its section nobody else gives its lock away: not
\* another request's release, even after a TTL has let two of them in.
LockIsKept ==
  [][\A l \in DOMAIN lock : \A p \in Proc :
       lock[l] = p /\ lock'[l] # p =>
         proc'[p].pc \notin Section[l] \/ used'.overrun > used.overrun]_vars

\* A completely received upload is inspected even if the client never calls
\* finalize: the last append queues the background preflight.  Only the expiry of
\* the session can forestall it.
CompleteUploadIsInspected ==
  row.status = "uploading" /\ row.received = Size
    ~> row.status \notin Uploadable \/ used.expiry > 0

\* The bytes of a session that outlived its expiry are removed.
ExpiredIsCleaned == expired ~> ~ expired \/ ~ file.exists

=============================================================================
