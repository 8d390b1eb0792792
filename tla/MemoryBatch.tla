----------------------------- MODULE MemoryBatch -----------------------------
(***************************************************************************)
(* The run-all batch of memory analysis and the runs it owns, for one      *)
(* memory evidence.                                                        *)
(*                                                                         *)
(* Three kinds of process share PostgreSQL and the RQ queue:               *)
(*   - API requests (run-all, start scan, cancel),                         *)
(*   - RQ workers that execute runs and then advance the owning batch,     *)
(*   - the backend's startup hook, which reconciles active batches.        *)
(* A database session reads a row, computes, and commits later: every      *)
(* commit is one action, so what is read before it may be stale.  An       *)
(* UPDATE writes only the columns whose value the session changed.         *)
(***************************************************************************)
EXTENDS Integers, Sequences, FiniteSets

CONSTANTS
  N,            \* number of run-all profiles; profile 1 is metadata_only
  Outcomes,     \* terminal statuses a scan may end with
  Gated,        \* profiles the platform, symbol or plugin gates exclude
  MaxBatches,   \* run-all batches that may be created
  MaxScans,     \* single-profile scans that may be created
  Api,          \* concurrent API requests
  Worker,       \* RQ worker processes
  MaxFaults,    \* worker crashes, Redis and validation errors
  MaxRestarts   \* backend crashes

Profile == 1 .. N
Batch   == 1 .. MaxBatches
Scan    == 1 .. MaxScans
None    == 0
MetadataOnly == 1

\* A batch has at most one run per profile; a scan run belongs to no batch.
Run  == (Batch \X Profile) \cup ({None} \X Scan)
NoId == <<None, None>>

SUCCESS_RUN_STATUSES == {"completed", "completed_with_errors"}
FAILED_RUN_STATUSES  ==
  {"failed", "timed_out", "cancelled", "backend_unavailable", "invalid_evidence"}
ACTIVE_RUN_STATUSES  == {"pending", "queued", "running"}
TERMINAL_STATUSES    == SUCCESS_RUN_STATUSES \cup FAILED_RUN_STATUSES

ASSUME ConstantsAssumption ==
  /\ N \in Nat \ {0}
  /\ Outcomes \subseteq TERMINAL_STATUSES
  /\ Gated \subseteq Profile
  /\ MaxBatches \in Nat /\ MaxScans \in Nat
  /\ MaxFaults \in Nat /\ MaxRestarts \in Nat

Modes == {"missing_or_failed", "rerun_all", "runtime_validation"}

\* "queued" is never committed: the INSERT and the change to "running" share
\* one commit.  "cancelled" is written by the startup hook only.
BatchStatus ==
  {"absent", "running", "completed", "completed_with_errors", "failed", "cancelled"}

RunRec ==
  [profile : Profile \cup {None}, batch : Batch \cup {None},
   status  : TERMINAL_STATUSES \cup ACTIVE_RUN_STATUSES \cup {"absent"},
   task    : BOOLEAN]                   \* worker_task_id is set

BatchRec ==
  [status : BatchStatus, requested : SUBSET Profile,
   current : Profile \cup {None}, completed : SUBSET Profile,
   failed : SUBSET Profile, cancel : BOOLEAN,
   last : Run \cup {NoId}]              \* last_advanced_run_id

NoRun   == [profile |-> None, batch |-> None, status |-> "absent", task |-> FALSE]
NoBatch == [status |-> "absent", requested |-> {}, current |-> None,
            completed |-> {}, failed |-> {}, cancel |-> FALSE, last |-> NoId]

VARIABLES
  batches,   \* memory_analysis_batches, committed rows
  runs,      \* memory_scan_runs, committed rows
  job,       \* RQ job of a run
  queue,     \* the RQ list the workers pop
  api,       \* requests in progress
  worker,    \* workers and what they hold in memory
  recon,     \* the startup hook; "up" once the backend serves requests
  faults, restarts

vars == <<batches, runs, job, queue, api, worker, recon, faults, restarts>>

IdleApi    == [pc |-> "idle", batch |-> None, run |-> NoId, profile |-> None,
               todo |-> {}, seen |-> {}]
IdleWorker == [pc |-> "idle", run |-> NoId, batch |-> None, seen |-> {},
               snap |-> NoBatch, new |-> NoBatch]
Up         == [pc |-> "up", batch |-> None, snap |-> NoBatch, new |-> NoBatch]

ApiPc    == {"idle", "closeRunAll", "plan", "insert", "create", "enqueue", "mark",
             "closeScan", "createScan", "enqueueScan", "markScan", "cancel"}
WorkerPc == {"idle", "close", "start", "exec", "tail", "advance", "commit"}
ReconPc  == {"up", "read", "commit"}

Init ==
  /\ batches = [b \in Batch |-> NoBatch]
  /\ runs = [r \in Run |-> NoRun]
  /\ job = [r \in Run |-> "none"]
  /\ queue = << >>
  /\ api = [c \in Api |-> IdleApi]
  /\ worker = [w \in Worker |-> IdleWorker]
  /\ recon = Up
  /\ faults = 0
  /\ restarts = 0

-----------------------------------------------------------------------------
(* Shared helpers.                                                         *)

First(S) == CHOOSE p \in S : \A q \in S : p <= q

ActiveBatches(bs) == {b \in Batch : bs[b].status = "running"}

\* uq_memory_analysis_batches_one_active: the database refuses a commit that
\* would leave two batches of the evidence active.
IndexAllows(bs) == \A a, b \in ActiveBatches(bs) : a = b

HasRun(rs, p, statuses) == \E r \in Run : rs[r].profile = p /\ rs[r].status \in statuses

active_run_for_evidence(rs, p) == HasRun(rs, p, ACTIVE_RUN_STATUSES)

RowLockedMut(r) == FALSE  \* the run is committed before it is enqueued

\* A run already in the queue whose row the creating transaction still locks.
RowLocked(r) == \E c \in Api : api[c].pc = "mark" /\ api[c].run = r

Fault == faults < MaxFaults /\ faults' = faults + 1

-----------------------------------------------------------------------------
(* plan_run_all: outside rerun_all a profile is selected only when it has  *)
(* neither a successful, nor an active, nor a failed run.                  *)

AllowedProfiles(mode) ==
  IF mode = "runtime_validation" THEN Profile \cap {1, 3} ELSE Profile

plan_run_all(mode) ==
  {p \in AllowedProfiles(mode) \ Gated :
     mode # "rerun_all" =>
       /\ ~ HasRun(runs, p, SUCCESS_RUN_STATUSES)
       /\ ~ HasRun(runs, p, ACTIVE_RUN_STATUSES)
       /\ ~ HasRun(runs, p, FAILED_RUN_STATUSES)}

-----------------------------------------------------------------------------
(* advance_batch, split into what it computes from the row it loaded and   *)
(* the column-wise commit of the result.                                   *)

AdvanceIgnoredMut(bt, r, run) ==  \* a run still active is recorded
  \/ bt.last = r
  \/ bt.current # None /\ run.profile # bt.current
  \/ run.profile \in bt.completed \cup bt.failed

AdvanceIgnored(bt, r, run) ==
  \/ bt.last = r
  \/ bt.current # None /\ run.profile # bt.current
  \/ run.profile \in bt.completed \cup bt.failed
  \/ run.status \notin TERMINAL_STATUSES

Succeeded(run) == run.status \in SUCCESS_RUN_STATUSES

Appended(profiles, p) == profiles \cup {p}

\* completed_profiles and failed_profiles after the run of the profile.
WithOutcome(bt, run) ==
  IF Succeeded(run) THEN [bt EXCEPT !.completed = Appended(@, run.profile)]
                    ELSE [bt EXCEPT !.failed = Appended(@, run.profile)]

RemainingMut(bt) == bt.requested \ bt.completed

Remaining(bt) == bt.requested \ (bt.completed \cup bt.failed)

ClosedStatusMut(bt, fatal) ==  \* closing forgets the status
  IF bt.cancel THEN bt.status ELSE "completed"

\* A batch that already failed stays "failed" when nothing follows.
ClosedStatus(bt, fatal) ==
  IF fatal \/ bt.status = "failed" THEN "failed"
  ELSE IF bt.failed # {} THEN "completed_with_errors"
  ELSE "completed"

Advanced(old, r, run) ==
  LET bt    == WithOutcome(old, run)
      fatal == run.profile = MetadataOnly /\ ~ Succeeded(run)
      stop  == Remaining(bt) = {} \/ bt.cancel \/ fatal
  IN  [bt EXCEPT
         !.last    = r,
         !.current = IF stop THEN None ELSE First(Remaining(bt)),
         !.status  = IF stop THEN ClosedStatus(bt, fatal) ELSE "running"]

Column(cur, snap, new) == IF new # snap THEN new ELSE cur

UpdatedRow(cur, snap, new) ==
  [cur EXCEPT !.status    = Column(@, snap.status, new.status),
              !.current   = Column(@, snap.current, new.current),
              !.completed = Column(@, snap.completed, new.completed),
              !.failed    = Column(@, snap.failed, new.failed),
              !.last      = Column(@, snap.last, new.last)]

\* The caller swallows the IntegrityError, so a refused commit changes nothing.
CommitAdvance(b, snap, new) ==
  LET bs == [batches EXCEPT ![b] = UpdatedRow(@, snap, new)]
  IN  batches' = IF IndexAllows(bs) THEN bs ELSE batches

-----------------------------------------------------------------------------
(* fail_orphaned_memory_runs: the runs seen "running" by the query whose   *)
(* job RQ no longer reports alive are closed in one commit.  A Redis error *)
(* counts as alive, so any part of them may be left alone.                 *)

RunningWithTask == {r \in Run : runs[r].status = "running" /\ runs[r].task}

job_is_alive(r) == job[r] \in {"queued", "started"}

fail_orphaned(seen, lost) ==
  /\ lost \subseteq {r \in seen : ~ job_is_alive(r)}
  /\ runs' = [r \in Run |-> IF r \in lost THEN [runs[r] EXCEPT !.status = "failed"]
                                           ELSE runs[r]]

-----------------------------------------------------------------------------
(* API requests.  No request is served before the startup hook has ended.  *)

FreeBatches == {b \in Batch : batches[b].status = "absent"
                              /\ \A c \in Api : api[c].batch # b}
FreeScans   == {r \in {None} \X Scan : runs[r].status = "absent"
                                       /\ \A c \in Api : api[c].run # r}

Serving(c, pc) == recon.pc = "up" /\ api[c].pc = pc

Goto(c, next) == api' = [api EXCEPT ![c] = next]

\* post_run_all_batch: close lost runs first (the query of the housekeeping).
RunAllBegin(c) ==
  /\ Serving(c, "idle")
  /\ FreeBatches # {}
  /\ Goto(c, [IdleApi EXCEPT !.pc = "closeRunAll", !.batch = First(FreeBatches),
                             !.seen = RunningWithTask])
  /\ UNCHANGED <<batches, runs, job, queue, worker, recon, faults, restarts>>

RunAllClose(c) ==
  /\ Serving(c, "closeRunAll")
  /\ \E lost \in SUBSET api[c].seen : fail_orphaned(api[c].seen, lost)
  /\ Goto(c, [api[c] EXCEPT !.pc = "plan", !.seen = {}])
  /\ UNCHANGED <<batches, job, queue, worker, recon, faults, restarts>>

\* find_active_batch rejects the request; otherwise the plan is computed.
RunAllPlan(c) ==
  /\ Serving(c, "plan")
  /\ IF ActiveBatches(batches) # {}
       THEN Goto(c, IdleApi)
       ELSE \E mode \in Modes :
              Goto(c, [api[c] EXCEPT !.pc = "insert", !.todo = plan_run_all(mode)])
  /\ UNCHANGED <<batches, runs, job, queue, worker, recon, faults, restarts>>

\* The rows of the profile's run and, for the first profile, of the batch are
\* committed together; the run's batch_id is only set by a later commit.
NewRun(p) == [NoRun EXCEPT !.profile = p, !.status = "pending"]

NewBatchMut(requested, status) ==  \* committed as it was flushed
  [NoBatch EXCEPT !.status = "queued", !.requested = requested,
                  !.current = IF requested = {} THEN None ELSE First(requested)]

NewBatch(requested, status) ==
  [NoBatch EXCEPT !.status = status, !.requested = requested,
                  !.current = IF requested = {} THEN None ELSE First(requested)]

\* The INSERT of an active row meets the unique index even when the plan
\* turns out empty, because it is flushed as "queued".
RunAllInsert(c) ==
  LET b == api[c].batch
      p == First(api[c].todo)
  IN
  /\ Serving(c, "insert")
  /\ IF ActiveBatches(batches) # {}
       THEN Goto(c, IdleApi) /\ UNCHANGED <<batches, runs>>
       ELSE IF api[c].todo = {}
       THEN /\ batches' = [batches EXCEPT ![b] = NewBatch({}, "completed")]
            /\ Goto(c, IdleApi)
            /\ UNCHANGED runs
       ELSE /\ batches' = [batches EXCEPT ![b] = NewBatch(api[c].todo, "running")]
            /\ runs' = [runs EXCEPT ![<<b, p>>] = NewRun(p)]
            /\ Goto(c, [api[c] EXCEPT !.pc = "enqueue", !.run = <<b, p>>])
  /\ UNCHANGED <<job, queue, worker, recon, faults, restarts>>

\* create_memory_metadata_run rejects the first profile: the batch row is
\* committed once, already "failed".
RunAllInsertInvalid(c) ==
  /\ Serving(c, "insert")
  /\ Fault
  /\ api[c].todo # {} /\ ActiveBatches(batches) = {}
  /\ batches' = [batches EXCEPT ![api[c].batch] = NewBatch(api[c].todo, "failed")]
  /\ Goto(c, IdleApi)
  /\ UNCHANGED <<runs, job, queue, worker, recon, restarts>>

RunAllCreate(c) ==
  LET p == First(api[c].todo)
      r == <<api[c].batch, p>>
  IN
  /\ Serving(c, "create")
  /\ runs' = [runs EXCEPT ![r] = NewRun(p)]
  /\ Goto(c, [api[c] EXCEPT !.pc = "enqueue", !.run = r])
  /\ UNCHANGED <<batches, job, queue, worker, recon, faults, restarts>>

FailBatch(b) == batches' = [batches EXCEPT ![b].status = "failed"]

RunAllCreateInvalid(c) ==
  /\ Serving(c, "create")
  /\ Fault
  /\ FailBatch(api[c].batch)
  /\ Goto(c, IdleApi)
  /\ UNCHANGED <<runs, job, queue, worker, recon, restarts>>

Enqueue(r) ==
  /\ job' = [job EXCEPT ![r] = "queued"]
  /\ queue' = Append(queue, r)

\* _enqueue_profile: batch_id is flushed but not committed, so the row of the
\* run stays locked until mark_run_queued commits.
RunAllEnqueue(c) ==
  /\ Serving(c, "enqueue")
  /\ Enqueue(api[c].run)
  /\ Goto(c, [api[c] EXCEPT !.pc = "mark"])
  /\ UNCHANGED <<batches, runs, worker, recon, faults, restarts>>

\* Redis refuses: the batch fails and the run keeps "pending" with its batch.
RunAllEnqueueFails(c) ==
  /\ Serving(c, "enqueue")
  /\ Fault
  /\ FailBatch(api[c].batch)
  /\ runs' = [runs EXCEPT ![api[c].run].batch = api[c].batch]
  /\ Goto(c, IdleApi)
  /\ UNCHANGED <<job, queue, worker, recon, restarts>>

mark_run_queued(run) == [run EXCEPT !.status = "queued", !.task = TRUE]

RunAllMarkMut(c) ==  \* only the first profile is ever enqueued
  LET r == api[c].run IN
  /\ Serving(c, "mark")
  /\ runs' = [runs EXCEPT ![r] = [mark_run_queued(@) EXCEPT !.batch = api[c].batch]]
  /\ Goto(c, IdleApi)
  /\ UNCHANGED <<batches, job, queue, worker, recon, faults, restarts>>

RunAllMark(c) ==
  LET r    == api[c].run
      todo == api[c].todo \ {runs[r].profile}
  IN
  /\ Serving(c, "mark")
  /\ runs' = [runs EXCEPT ![r] = [mark_run_queued(@) EXCEPT !.batch = api[c].batch]]
  /\ Goto(c, IF todo = {} THEN IdleApi
              ELSE [api[c] EXCEPT !.pc = "create", !.run = NoId, !.todo = todo])
  /\ UNCHANGED <<batches, job, queue, worker, recon, faults, restarts>>

-----------------------------------------------------------------------------
(* start_memory_scan: one profile, outside any batch.                      *)

ScanBegin(c, p) ==
  /\ Serving(c, "idle")
  /\ FreeScans # {}
  /\ LET request == [IdleApi EXCEPT !.run = CHOOSE r \in FreeScans : TRUE,
                                    !.profile = p]
     IN  Goto(c, IF active_run_for_evidence(runs, p)
                 THEN [request EXCEPT !.pc = "closeScan", !.seen = RunningWithTask]
                 ELSE [request EXCEPT !.pc = "createScan"])
  /\ UNCHANGED <<batches, runs, job, queue, worker, recon, faults, restarts>>

\* An active run exists: close lost runs; 409 unless that freed the profile.
ScanClose(c) ==
  /\ Serving(c, "closeScan")
  /\ \E lost \in SUBSET api[c].seen :
       /\ fail_orphaned(api[c].seen, lost)
       /\ Goto(c, IF lost = {} \/ active_run_for_evidence(runs', api[c].profile)
                   THEN IdleApi
                   ELSE [api[c] EXCEPT !.pc = "createScan", !.seen = {}])
  /\ UNCHANGED <<batches, job, queue, worker, recon, faults, restarts>>

ScanCreate(c) ==
  /\ Serving(c, "createScan")
  /\ runs' = [runs EXCEPT ![api[c].run] = NewRun(api[c].profile)]
  /\ Goto(c, [api[c] EXCEPT !.pc = "enqueueScan"])
  /\ UNCHANGED <<batches, job, queue, worker, recon, faults, restarts>>

ScanEnqueue(c) ==
  /\ Serving(c, "enqueueScan")
  /\ Enqueue(api[c].run)
  /\ Goto(c, [api[c] EXCEPT !.pc = "markScan"])
  /\ UNCHANGED <<batches, runs, worker, recon, faults, restarts>>

ScanEnqueueFails(c) ==
  /\ Serving(c, "enqueueScan")
  /\ Fault
  /\ runs' = [runs EXCEPT ![api[c].run].status = "failed"]
  /\ Goto(c, IdleApi)
  /\ UNCHANGED <<batches, job, queue, worker, recon, restarts>>

\* No uncommitted change protects the row here: the worker may have started,
\* or even finished, the run, and "queued" is written over it.
ScanMark(c) ==
  /\ Serving(c, "markScan")
  /\ runs' = [runs EXCEPT ![api[c].run] = mark_run_queued(@)]
  /\ Goto(c, IdleApi)
  /\ UNCHANGED <<batches, job, queue, worker, recon, faults, restarts>>

-----------------------------------------------------------------------------
(* cancel_analysis_batch and cancel_batch: the status is the one loaded by *)
(* the route; only the flag is written and no run is touched.              *)

CancelRead(c, b) ==
  /\ Serving(c, "idle")
  /\ batches[b].status = "running"
  /\ Goto(c, [IdleApi EXCEPT !.pc = "cancel", !.batch = b])
  /\ UNCHANGED <<batches, runs, job, queue, worker, recon, faults, restarts>>

cancel_batch(c) ==
  /\ Serving(c, "cancel")
  /\ batches' = [batches EXCEPT ![api[c].batch].cancel = TRUE]
  /\ Goto(c, IdleApi)
  /\ UNCHANGED <<runs, job, queue, worker, recon, faults, restarts>>

-----------------------------------------------------------------------------
(* Workers.                                                                *)

Hold(w, next) == worker' = [worker EXCEPT ![w] = next]

JobEnds(w) ==
  /\ Hold(w, IdleWorker)
  /\ job' = [job EXCEPT ![worker[w].run] = "finished"]

\* tasks.run_memory_metadata_scan: pop the job, query the runs to close.
WorkerTake(w) ==
  /\ worker[w].pc = "idle" /\ queue # << >>
  /\ Hold(w, [IdleWorker EXCEPT !.pc = "close", !.run = Head(queue),
                                !.seen = RunningWithTask \ {Head(queue)}])
  /\ queue' = Tail(queue)
  /\ job' = [job EXCEPT ![Head(queue)] = "started"]
  /\ UNCHANGED <<batches, runs, api, recon, faults, restarts>>

WorkerClose(w) ==
  /\ worker[w].pc = "close"
  /\ \E lost \in SUBSET worker[w].seen : fail_orphaned(worker[w].seen, lost)
  /\ Hold(w, [worker[w] EXCEPT !.pc = "start", !.seen = {}])
  /\ UNCHANGED <<batches, job, queue, api, recon, faults, restarts>>

\* A run already terminal is skipped without advancing its batch (RQ delivers
\* a job once, so no run here is).  Otherwise the UPDATE waits for the row
\* lock of a request that is still enqueuing the run.
WorkerStart(w) ==
  LET r == worker[w].run IN
  /\ worker[w].pc = "start"
  /\ IF runs[r].status \in TERMINAL_STATUSES
       THEN JobEnds(w) /\ UNCHANGED runs
       ELSE /\ ~ RowLocked(r)
            /\ runs' = [runs EXCEPT ![r].status = "running"]
            /\ Hold(w, [worker[w] EXCEPT !.pc = "exec"])
            /\ UNCHANGED job
  /\ UNCHANGED <<batches, queue, api, recon, faults, restarts>>

\* _mark_profile_timeout_pending: the deadline of the profile passes between two
\* plugins.  A terminal status is committed although the worker goes on to
\* index what it has.
WorkerTimeout(w) ==
  /\ worker[w].pc = "exec"
  /\ \E s \in {"completed_with_errors", "timed_out"} :
       runs' = [runs EXCEPT ![worker[w].run].status = s]
  /\ Hold(w, [worker[w] EXCEPT !.pc = "tail"])
  /\ UNCHANGED <<batches, job, queue, api, recon, faults, restarts>>

\* The last commit of the scan; every error path of run_memory_metadata_scan
\* goes through _fail_run to one of these.  After a timeout plugins were
\* skipped, so only completed_with_errors and an error are left.
FinalStatus(pc) == IF pc = "tail" THEN {"completed_with_errors", "failed"} ELSE Outcomes

WorkerFinish(w) ==
  LET r == worker[w].run IN
  /\ worker[w].pc \in {"exec", "tail"}
  /\ \E s \in FinalStatus(worker[w].pc) : runs' = [runs EXCEPT ![r].status = s]
  /\ IF runs[r].batch = None
       THEN JobEnds(w)
       ELSE /\ Hold(w, [worker[w] EXCEPT !.pc = "advance", !.batch = runs[r].batch])
            /\ UNCHANGED job
  /\ UNCHANGED <<batches, queue, api, recon, faults, restarts>>

\* _advance_batch_after_run: a fresh session loads the run and its batch.
WorkerAdvance(w) ==
  LET r  == worker[w].run
      bt == batches[worker[w].batch]
  IN
  /\ worker[w].pc = "advance"
  /\ IF AdvanceIgnored(bt, r, runs[r])
       THEN JobEnds(w)
       ELSE /\ Hold(w, [worker[w] EXCEPT !.pc = "commit", !.snap = bt,
                                         !.new = Advanced(bt, r, runs[r])])
            /\ UNCHANGED job
  /\ UNCHANGED <<batches, runs, queue, api, recon, faults, restarts>>

WorkerCommit(w) ==
  /\ worker[w].pc = "commit"
  /\ CommitAdvance(worker[w].batch, worker[w].snap, worker[w].new)
  /\ JobEnds(w)
  /\ UNCHANGED <<runs, queue, api, recon, faults, restarts>>

\* The process dies and its container restarts it; RQ never retries the job.
WorkerCrash(w) ==
  /\ worker[w].pc # "idle"
  /\ Fault
  /\ Hold(w, IdleWorker)
  /\ UNCHANGED <<batches, runs, job, queue, api, recon, restarts>>

\* RQ moves the started job of a dead worker to its failed registry.
RqCleanup(r) ==
  /\ job[r] = "started"
  /\ \A w \in Worker : worker[w].run # r
  /\ job' = [job EXCEPT ![r] = "failed"]
  /\ UNCHANGED <<batches, runs, queue, api, worker, recon, faults, restarts>>

-----------------------------------------------------------------------------
(* Backend restart and reconcile_memory_batches.                           *)

\* Requests in progress are lost with their uncommitted work.
BackendCrash ==
  /\ restarts < MaxRestarts
  /\ restarts' = restarts + 1
  /\ api' = [c \in Api |-> IdleApi]
  /\ recon' = [Up EXCEPT !.pc = "read"]
  /\ UNCHANGED <<batches, runs, job, queue, worker, faults>>

\* The run of the batch's current profile that reconciliation looks up.
CurrentRun(b) == <<b, batches[b].current>>

\* A cancelled batch that waits for nothing is closed, one whose current run ended
\* unnoticed is advanced.
NeedsCancelled(b) == batches[b].cancel /\ batches[b].current = None

NeedsAdvance(b) ==
  /\ batches[b].current # None
  /\ runs[CurrentRun(b)].batch = b
  /\ ~ AdvanceIgnored(batches[b], CurrentRun(b), runs[CurrentRun(b)])

NeedsWork(b) == NeedsCancelled(b) \/ NeedsAdvance(b)

Reconciled(b) ==
  IF NeedsCancelled(b) THEN [batches[b] EXCEPT !.status = "cancelled"]
  ELSE Advanced(batches[b], CurrentRun(b), runs[CurrentRun(b)])

ReconcileRead ==
  /\ recon.pc = "read"
  /\ recon' =
       IF \E b \in ActiveBatches(batches) : NeedsWork(b)
       THEN LET b == CHOOSE x \in ActiveBatches(batches) : NeedsWork(x)
            IN  [pc |-> "commit", batch |-> b, snap |-> batches[b], new |-> Reconciled(b)]
       ELSE Up
  /\ UNCHANGED <<batches, runs, job, queue, api, worker, faults, restarts>>

ReconcileCommit ==
  /\ recon.pc = "commit"
  /\ CommitAdvance(recon.batch, recon.snap, recon.new)
  /\ recon' = Up
  /\ UNCHANGED <<runs, job, queue, api, worker, faults, restarts>>

-----------------------------------------------------------------------------
ApiStep(c) ==
  \/ RunAllClose(c) \/ RunAllPlan(c) \/ RunAllInsert(c) \/ RunAllCreate(c)
  \/ RunAllEnqueue(c) \/ RunAllMark(c)
  \/ ScanClose(c) \/ ScanCreate(c) \/ ScanEnqueue(c) \/ ScanMark(c)
  \/ cancel_batch(c)

ApiBegin(c) ==
  \/ RunAllBegin(c)
  \/ \E p \in Profile : ScanBegin(c, p)
  \/ \E b \in Batch : CancelRead(c, b)

ApiError(c) ==
  \/ RunAllInsertInvalid(c) \/ RunAllCreateInvalid(c)
  \/ RunAllEnqueueFails(c) \/ ScanEnqueueFails(c)

WorkerStep(w) ==
  \/ WorkerTake(w) \/ WorkerClose(w) \/ WorkerStart(w)
  \/ WorkerTimeout(w) \/ WorkerFinish(w) \/ WorkerAdvance(w) \/ WorkerCommit(w)

Reconcile == ReconcileRead \/ ReconcileCommit

Next ==
  \/ \E c \in Api : ApiBegin(c) \/ ApiStep(c) \/ ApiError(c)
  \/ \E w \in Worker : WorkerStep(w) \/ WorkerCrash(w)
  \/ \E r \in Run : RqCleanup(r)
  \/ BackendCrash \/ Reconcile

Spec == Init /\ [][Next]_vars

(* A request that was accepted runs to its end, a worker process keeps     *)
(* taking and executing jobs, and a starting backend finishes its hook.    *)
(* Nothing forces a request, a cancellation or a fault to happen.          *)
Fairness ==
  /\ \A c \in Api : WF_vars(ApiStep(c))
  /\ \A w \in Worker : WF_vars(WorkerStep(w))
  /\ WF_vars(Reconcile)

FairSpec == Spec /\ Fairness

-----------------------------------------------------------------------------
(* Properties.                                                             *)

ApiRec    == [pc : ApiPc, batch : Batch \cup {None}, run : Run \cup {NoId},
              profile : Profile \cup {None}, todo : SUBSET Profile,
              seen : SUBSET Run]
WorkerRec == [pc : WorkerPc, run : Run \cup {NoId}, batch : Batch \cup {None},
              seen : SUBSET Run, snap : BatchRec, new : BatchRec]
ReconRec  == [pc : ReconPc, batch : Batch \cup {None}, snap : BatchRec,
              new : BatchRec]

\* Every row, queue entry and in-memory copy has its declared type.
TypeOK ==
  /\ batches \in [Batch -> BatchRec]
  /\ runs \in [Run -> RunRec]
  /\ job \in [Run -> {"none", "queued", "started", "finished", "failed"}]
  /\ queue \in Seq(Run)
  /\ api \in [Api -> ApiRec]
  /\ worker \in [Worker -> WorkerRec]
  /\ recon \in ReconRec
  /\ faults \in 0 .. MaxFaults
  /\ restarts \in 0 .. MaxRestarts

Recorded(bt) == bt.completed \cup bt.failed

\* advance_batch records a profile as completed or failed only once the
\* batch's own run of that profile has ended, whoever advances and however
\* stale the row it read.
RecordedRunsEnded ==
  \A b \in Batch : \A p \in Recorded(batches[b]) :
    /\ p \in batches[b].requested
    /\ runs[<<b, p>>].batch = b
    /\ runs[<<b, p>>].status \in TERMINAL_STATUSES

\* A batch run that ended is never active again: the row lock held while
\* _enqueue_profile enqueues keeps mark_run_queued from undoing the worker.
BatchRunStaysEnded ==
  [][\A r \in Batch \X Profile :
       runs[r].status \in TERMINAL_STATUSES => runs'[r].status \in TERMINAL_STATUSES]_vars

\* A running batch names a requested profile as current, whoever advances it and however
\* stale the row it read: otherwise _reconcile_one_batch would do nothing for it, or mark
\* it "cancelled" when the operator has cancelled it.
RunningPointsAtProfile ==
  \A b \in Batch : batches[b].status = "running" =>
    batches[b].current \in batches[b].requested

\* A running batch waits for a profile it has not recorded yet; waiting for
\* a recorded one would ignore every later callback forever.
RunningPointsAtUnrecorded ==
  \A b \in Batch : batches[b].status = "running" =>
    batches[b].current \in batches[b].requested \ Recorded(batches[b])

\* What the batch reports of a profile is how its run ended.
RecordedOutcomeIsTrue ==
  \A b \in Batch :
    /\ \A p \in batches[b].completed : runs[<<b, p>>].status \in SUCCESS_RUN_STATUSES
    /\ \A p \in batches[b].failed : runs[<<b, p>>].status \in FAILED_RUN_STATUSES

\* While the backend serves, the current profile of a running batch has a run
\* that was handed to the worker, unless a request is still enqueuing it.  The
\* docstring of reconcile_memory_batches promises it after a crash "between the
\* INSERT and the enqueue"; the hook leaves a running batch without a run alone.
CurrentProfileWasEnqueued ==
  \A b \in Batch :
    batches[b].status = "running" /\ recon.pc = "up" /\ (\A c \in Api : api[c].batch # b)
      => /\ batches[b].current # None
         /\ runs[CurrentRun(b)].batch = b
         /\ job[CurrentRun(b)] # "none"

\* A run that RQ has finished is not reported active.
EndedJobIsNotActive ==
  \A r \in Run : job[r] = "finished" => runs[r].status \notin ACTIVE_RUN_STATUSES

\* With one worker, a running batch is closed in the end, even when a later
\* batch keeps advance_batch from reopening it, unless a crash or an error of
\* Redis or of the validation got in the way.
BatchEventuallyCloses ==
  \A b \in Batch : batches[b].status = "running" ~>
    batches[b].status # "running" \/ faults > 0

=============================================================================
