-------------------------- MODULE MemoryBatchProofs --------------------------
(***************************************************************************)
(* Theorems about MemoryBatch for every number of profiles, batches,       *)
(* scans, requests, workers, faults and restarts.                          *)
(***************************************************************************)
EXTENDS MemoryBatch, WellFoundedInduction, TLAPS

-----------------------------------------------------------------------------
(* The operators the model is built from.                                  *)

\* The first profile of a non-empty set is one of its members: the loop of
\* advance_batch over requested_profiles finds a profile that is left.
LEMMA FirstMember ==
  ASSUME NEW S \in SUBSET Nat, S # {}
  PROVE  First(S) \in S
<1>1. PICK p \in S : \A q \in S : ~ (<<q, p>> \in OpToRel(<, Nat))
  BY NatLessThanWellFounded, WFMin, Zenon
<1>2. \A q \in S : ~ (q < p)
  BY <1>1 DEF OpToRel
<1>3. \A q \in S : p <= q
  BY <1>2
<1> QED
  BY <1>3 DEF First

LEMMA ProfileSubset == Profile \subseteq Nat /\ Batch \subseteq Nat
  BY ConstantsAssumption DEF Profile, Batch

LEMMA FirstProfile ==
  ASSUME NEW S \in SUBSET Profile, S # {}
  PROVE  First(S) \in S /\ First(S) \in Profile
  BY FirstMember, ProfileSubset

\* What advance_batch computes is again a batch row.
LEMMA AdvancedType ==
  ASSUME NEW bt \in BatchRec, NEW r \in Run, NEW run \in RunRec,
         run.profile \in Profile
  PROVE  Advanced(bt, r, run) \in BatchRec
<1> DEFINE old   == WithOutcome(bt, run)
           fatal == run.profile = MetadataOnly /\ ~ Succeeded(run)
           stop  == Remaining(old) = {} \/ old.cancel \/ fatal
<1>1. old \in BatchRec
  BY DEF WithOutcome, Appended, BatchRec
<1>2. Remaining(old) \in SUBSET Profile
  BY <1>1 DEF Remaining, BatchRec
<1>3. (IF stop THEN None ELSE First(Remaining(old))) \in Profile \cup {None}
  BY <1>2, FirstProfile
<1>4. (IF stop THEN ClosedStatus(old, fatal) ELSE "running") \in BatchStatus
  BY DEF ClosedStatus, BatchStatus
<1> HIDE DEF old, fatal, stop
<1>5. [old EXCEPT !.last = r,
                  !.current = IF stop THEN None ELSE First(Remaining(old)),
                  !.status = IF stop THEN ClosedStatus(old, fatal) ELSE "running"]
        \in BatchRec
  BY <1>1, <1>3, <1>4 DEF BatchRec
<1> QED
  BY <1>5 DEF Advanced, old, fatal, stop

LEMMA UpdatedRowType ==
  ASSUME NEW cur \in BatchRec, NEW snap \in BatchRec, NEW new \in BatchRec
  PROVE  UpdatedRow(cur, snap, new) \in BatchRec
<1>1. /\ Column(cur.status, snap.status, new.status) \in BatchStatus
      /\ Column(cur.current, snap.current, new.current) \in Profile \cup {None}
      /\ Column(cur.completed, snap.completed, new.completed) \in SUBSET Profile
      /\ Column(cur.failed, snap.failed, new.failed) \in SUBSET Profile
      /\ Column(cur.last, snap.last, new.last) \in Run \cup {NoId}
  BY DEF Column, BatchRec
<1> QED
  BY <1>1 DEF UpdatedRow, BatchRec

LEMMA CommitAdvanceType ==
  ASSUME batches \in [Batch -> BatchRec], NEW b \in Batch,
         NEW snap \in BatchRec, NEW new \in BatchRec,
         CommitAdvance(b, snap, new)
  PROVE  batches' \in [Batch -> BatchRec]
  BY UpdatedRowType DEF CommitAdvance

LEMMA RowTypes ==
  /\ NoBatch \in BatchRec
  /\ NoRun \in RunRec
  /\ \A S \in SUBSET Profile : NewBatch(S, "running") \in BatchRec
  /\ \A S \in SUBSET Profile : NewBatch(S, "failed") \in BatchRec
  /\ NewBatch({}, "completed") \in BatchRec
  /\ \A p \in Profile : NewRun(p) \in RunRec /\ NewRun(p).profile = p
<1>1. \A S \in SUBSET Profile :
        (IF S = {} THEN None ELSE First(S)) \in Profile \cup {None}
  BY FirstProfile
<1> QED
  BY <1>1 DEF NoBatch, NoRun, NewBatch, NewRun, BatchRec, RunRec, BatchStatus,
              ACTIVE_RUN_STATUSES

-----------------------------------------------------------------------------
(* Type correctness.  TypeOK alone is not inductive: an action that uses a *)
(* batch or run id held in memory needs to know that the id is set.        *)

GoodRun == {run \in RunRec : run.status # "absent" => run.profile \in Profile}

GoodApi ==
  {a \in ApiRec :
     /\ a.pc \in {"closeRunAll", "plan", "insert", "create", "enqueue", "mark", "cancel"}
          => a.batch \in Batch
     /\ a.pc = "create" => a.todo # {}
     /\ a.pc \in {"enqueue", "mark", "closeScan", "createScan", "enqueueScan", "markScan"}
          => a.run \in Run
     /\ a.pc \in {"closeScan", "createScan"} => a.profile \in Profile}

GoodWorker ==
  {x \in WorkerRec : /\ x.pc # "idle" => x.run \in Run
                     /\ x.pc \in {"advance", "commit"} => x.batch \in Batch}

GoodRecon == {x \in ReconRec : x.pc = "commit" => x.batch \in Batch}

JobStates == {"none", "queued", "started", "finished", "failed"}

Typed ==
  /\ batches \in [Batch -> BatchRec]
  /\ runs \in [Run -> GoodRun]
  /\ job \in [Run -> JobStates]
  /\ queue \in Seq(Run)
  /\ api \in [Api -> GoodApi]
  /\ worker \in [Worker -> GoodWorker]
  /\ recon \in GoodRecon
  /\ faults \in 0 .. MaxFaults
  /\ restarts \in 0 .. MaxRestarts

\* A run some process or the queue refers to has been inserted.
Known(rs, r) == r \in Run /\ rs[r].profile \in Profile

ApiHeld(rs, a) ==
  /\ \A r \in a.seen : Known(rs, r)
  /\ a.pc \in {"enqueue", "mark", "enqueueScan", "markScan"} => Known(rs, a.run)

WorkerHeld(rs, x) ==
  /\ \A r \in x.seen : Known(rs, r)
  /\ x.pc # "idle" => Known(rs, x.run)

Held ==
  /\ \A c \in Api : ApiHeld(runs, api[c])
  /\ \A w \in Worker : WorkerHeld(runs, worker[w])
  /\ \A i \in 1 .. Len(queue) : Known(runs, queue[i])

TypeInv == Typed /\ Held

LEMMA TypeInvImplies == TypeInv => TypeOK
  BY DEF TypeInv, Typed, TypeOK, GoodRun, GoodApi, GoodWorker, GoodRecon, JobStates

LEMMA IdleTypes ==
  /\ IdleApi \in GoodApi /\ IdleWorker \in GoodWorker /\ Up \in GoodRecon
  /\ \A rs : ApiHeld(rs, IdleApi) /\ WorkerHeld(rs, IdleWorker)
<1>1. IdleApi \in GoodApi
  BY DEF IdleApi, GoodApi, ApiRec, ApiPc
<1>2. IdleWorker \in GoodWorker
  BY RowTypes DEF IdleWorker, GoodWorker, WorkerRec, WorkerPc
<1>3. Up \in GoodRecon
  BY RowTypes DEF Up, GoodRecon, ReconRec, ReconPc
<1>4. \A rs : ApiHeld(rs, IdleApi) /\ WorkerHeld(rs, IdleWorker)
  BY DEF ApiHeld, WorkerHeld, IdleApi, IdleWorker
<1> QED
  BY <1>1, <1>2, <1>3, <1>4

LEMMA TypeInit == Init => TypeInv
<1> SUFFICES ASSUME Init PROVE TypeInv
  OBVIOUS
<1>1. NoRun \in GoodRun
  BY RowTypes DEF GoodRun, NoRun
<1>2. batches \in [Batch -> BatchRec] /\ runs \in [Run -> GoodRun]
  BY <1>1, RowTypes DEF Init
<1>3. /\ api \in [Api -> GoodApi] /\ worker \in [Worker -> GoodWorker]
      /\ recon \in GoodRecon
  BY IdleTypes DEF Init
<1>4. queue \in Seq(Run) /\ job \in [Run -> JobStates]
  BY DEF Init, JobStates
<1>5. faults \in 0 .. MaxFaults /\ restarts \in 0 .. MaxRestarts
  BY ConstantsAssumption DEF Init
<1>6. Held
  BY IdleTypes DEF Init, Held
<1> QED
  BY <1>2, <1>3, <1>4, <1>5, <1>6 DEF TypeInv, Typed

-----------------------------------------------------------------------------
(* What a step must show: the rows it leaves, and the memory of the        *)
(* process that takes it.                                                  *)

RowsKept ==
  /\ batches' \in [Batch -> BatchRec]
  /\ runs' \in [Run -> GoodRun]
  /\ \A r \in Run : runs[r].profile \in Profile => runs'[r].profile \in Profile

LEMMA HeldKept ==
  ASSUME TypeInv, RowsKept
  PROVE  /\ \A a \in GoodApi : ApiHeld(runs, a) => ApiHeld(runs', a)
         /\ \A x \in GoodWorker : WorkerHeld(runs, x) => WorkerHeld(runs', x)
         /\ \A i \in 1 .. Len(queue) : Known(runs', queue[i])
  BY DEF TypeInv, Typed, Held, RowsKept, ApiHeld, WorkerHeld, Known, GoodApi, GoodWorker,
         ApiRec, WorkerRec

LEMMA ApiKept ==
  ASSUME TypeInv, RowsKept, NEW c \in Api, NEW next \in GoodApi, Goto(c, next),
         ApiHeld(runs', next)
  PROVE  api' \in [Api -> GoodApi] /\ \A d \in Api : ApiHeld(runs', api'[d])
<1>1. \A d \in Api : api'[d] = IF d = c THEN next ELSE api[d]
  BY DEF Goto, TypeInv, Typed
<1>2. api' \in [Api -> GoodApi]
  BY DEF Goto, TypeInv, Typed
<1>3. \A d \in Api : api[d] \in GoodApi /\ ApiHeld(runs, api[d])
  BY DEF TypeInv, Typed, Held
<1> QED
  BY <1>1, <1>2, <1>3, HeldKept

LEMMA WorkerKept ==
  ASSUME TypeInv, RowsKept, NEW w \in Worker, NEW next \in GoodWorker, Hold(w, next),
         WorkerHeld(runs', next)
  PROVE  /\ worker' \in [Worker -> GoodWorker]
         /\ \A d \in Worker : WorkerHeld(runs', worker'[d])
<1>1. \A d \in Worker : worker'[d] = IF d = w THEN next ELSE worker[d]
  BY DEF Hold, TypeInv, Typed
<1>2. worker' \in [Worker -> GoodWorker]
  BY DEF Hold, TypeInv, Typed
<1>3. \A d \in Worker : worker[d] \in GoodWorker /\ WorkerHeld(runs, worker[d])
  BY DEF TypeInv, Typed, Held
<1> QED
  BY <1>1, <1>2, <1>3, HeldKept

\* A request's step that leaves queue and jobs alone.
LEMMA ApiStepType ==
  ASSUME TypeInv, RowsKept, NEW c \in Api, NEW next \in GoodApi, Goto(c, next),
         ApiHeld(runs', next), UNCHANGED <<job, queue, worker, recon, restarts>>,
         UNCHANGED faults \/ Fault
  PROVE  TypeInv'
<1>1. api' \in [Api -> GoodApi] /\ \A d \in Api : ApiHeld(runs', api'[d])
  BY ApiKept
<1>2. faults' \in 0 .. MaxFaults
  BY ConstantsAssumption DEF TypeInv, Typed, Fault
<1>3. Typed'
  BY <1>1, <1>2 DEF TypeInv, Typed, RowsKept
<1>4. Held'
  <2>1. \A w \in Worker : WorkerHeld(runs', worker[w])
    BY HeldKept DEF TypeInv, Typed, Held
  <2> QED
    BY <1>1, <2>1, HeldKept DEF Held
<1> QED
  BY <1>3, <1>4 DEF TypeInv

LEMMA RowsUnchanged ==
  ASSUME TypeInv, UNCHANGED <<batches, runs>>
  PROVE  RowsKept
  BY DEF TypeInv, Typed, RowsKept

\* One run row is inserted or updated with a profile.
LEMMA RunWritten ==
  ASSUME TypeInv, batches' \in [Batch -> BatchRec], NEW r \in Run, NEW row \in RunRec,
         row.profile \in Profile, runs' = [runs EXCEPT ![r] = row]
  PROVE  RowsKept /\ Known(runs', r)
<1>1. row \in GoodRun
  BY DEF GoodRun
<1> QED
  BY <1>1 DEF TypeInv, Typed, RowsKept, Known

\* fail_orphaned_memory_runs writes only runs that were inserted.
LEMMA FailOrphanedRows ==
  ASSUME TypeInv, NEW seen, \A r \in seen : Known(runs, r), NEW lost,
         fail_orphaned(seen, lost), UNCHANGED batches
  PROVE  RowsKept
<1>1. \A r \in lost : Known(runs, r)
  BY DEF fail_orphaned
<1>2. \A r \in Run : runs[r] \in RunRec
  BY DEF TypeInv, Typed, GoodRun
<1>3. \A r \in lost : /\ [runs[r] EXCEPT !.status = "failed"] \in RunRec
                       /\ [runs[r] EXCEPT !.status = "failed"].profile = runs[r].profile
  BY <1>1, <1>2 DEF Known, RunRec, TERMINAL_STATUSES, FAILED_RUN_STATUSES
<1>4. \A r \in lost : [runs[r] EXCEPT !.status = "failed"] \in GoodRun
  BY <1>1, <1>3 DEF GoodRun, Known
<1>5. runs' \in [Run -> GoodRun]
  BY <1>4 DEF fail_orphaned, TypeInv, Typed
<1>6. \A r \in Run : runs'[r].profile = runs[r].profile
  BY <1>3 DEF fail_orphaned
<1> QED
  BY <1>5, <1>6 DEF RowsKept, TypeInv, Typed

LEMMA SeenKnown ==
  ASSUME TypeInv
  PROVE  /\ RunningWithTask \subseteq Run
         /\ \A r \in RunningWithTask : Known(runs, r)
  BY DEF TypeInv, Typed, RunningWithTask, Known, GoodRun

LEMMA PlanType == \A mode \in Modes : plan_run_all(mode) \in SUBSET Profile
  BY DEF plan_run_all, AllowedProfiles

\* The fields of a request in memory, as the actions below use them.
LEMMA ApiFields ==
  ASSUME TypeInv, NEW c \in Api
  PROVE  /\ api[c] \in GoodApi /\ api[c] \in ApiRec /\ ApiHeld(runs, api[c])
         /\ api[c].todo \in SUBSET Profile
  BY DEF TypeInv, Typed, Held, GoodApi, ApiRec

LEMMA RunAllBeginType ==
  ASSUME TypeInv, NEW c \in Api, RunAllBegin(c) PROVE TypeInv'
<1> DEFINE next == [IdleApi EXCEPT !.pc = "closeRunAll", !.batch = First(FreeBatches),
                                   !.seen = RunningWithTask]
<1>1. First(FreeBatches) \in Batch
  <2>1. FreeBatches \in SUBSET Nat /\ FreeBatches \subseteq Batch /\ FreeBatches # {}
    BY ProfileSubset DEF RunAllBegin, FreeBatches
  <2> QED
    BY <2>1, FirstMember
<1>2. next \in GoodApi
  BY <1>1, SeenKnown DEF IdleApi, GoodApi, ApiRec, ApiPc
<1>3. RowsKept /\ runs' = runs
  BY RowsUnchanged DEF RunAllBegin
<1>4. ApiHeld(runs', next)
  BY <1>3, SeenKnown DEF ApiHeld, IdleApi
<1> HIDE DEF next
<1> QED
  BY <1>2, <1>3, <1>4, ApiStepType DEF RunAllBegin, next

LEMMA RunAllCloseType ==
  ASSUME TypeInv, NEW c \in Api, RunAllClose(c) PROVE TypeInv'
<1> DEFINE next == [api[c] EXCEPT !.pc = "plan", !.seen = {}]
<1>1. PICK lost : fail_orphaned(api[c].seen, lost)
  BY DEF RunAllClose
<1>2. RowsKept
  BY <1>1, ApiFields, FailOrphanedRows DEF RunAllClose, ApiHeld
<1>3. next \in GoodApi
  BY ApiFields DEF RunAllClose, Serving, GoodApi, ApiRec, ApiPc
<1>4. ApiHeld(runs', next)
  BY ApiFields DEF ApiHeld, ApiRec
<1> HIDE DEF next
<1> QED
  BY <1>2, <1>3, <1>4, ApiStepType DEF RunAllClose, next

LEMMA RunAllPlanType ==
  ASSUME TypeInv, NEW c \in Api, RunAllPlan(c) PROVE TypeInv'
<1>1. RowsKept /\ runs' = runs
  BY RowsUnchanged DEF RunAllPlan
<1>2. CASE Goto(c, IdleApi)
  BY <1>1, <1>2, IdleTypes, ApiStepType DEF RunAllPlan
<1>3. CASE \E mode \in Modes :
             Goto(c, [api[c] EXCEPT !.pc = "insert", !.todo = plan_run_all(mode)])
  <2>1. PICK mode \in Modes :
          Goto(c, [api[c] EXCEPT !.pc = "insert", !.todo = plan_run_all(mode)])
    BY <1>3
  <2> DEFINE next == [api[c] EXCEPT !.pc = "insert", !.todo = plan_run_all(mode)]
  <2>2. next \in GoodApi
    BY ApiFields, PlanType DEF RunAllPlan, Serving, GoodApi, ApiRec, ApiPc
  <2>3. ApiHeld(runs', next)
    BY <1>1, ApiFields DEF ApiHeld, ApiRec
  <2> HIDE DEF next
  <2> QED
    BY <1>1, <2>1, <2>2, <2>3, ApiStepType DEF RunAllPlan, next
<1> QED
  BY <1>2, <1>3 DEF RunAllPlan

LEMMA RunAllInsertType ==
  ASSUME TypeInv, NEW c \in Api, RunAllInsert(c) PROVE TypeInv'
<1> DEFINE b == api[c].batch
           p == First(api[c].todo)
           next == [api[c] EXCEPT !.pc = "enqueue", !.run = <<b, p>>]
<1>1. b \in Batch
  BY ApiFields DEF RunAllInsert, Serving, GoodApi
<1>2. CASE ActiveBatches(batches) # {}
  BY <1>2, RowsUnchanged, IdleTypes, ApiStepType DEF RunAllInsert
<1>3. CASE ActiveBatches(batches) = {} /\ api[c].todo = {}
  <2>1. batches' \in [Batch -> BatchRec] /\ runs' = runs
    BY <1>1, <1>3, RowTypes DEF RunAllInsert, TypeInv, Typed
  <2>2. RowsKept
    BY <2>1 DEF TypeInv, Typed, RowsKept
  <2> QED
    BY <1>3, <2>2, IdleTypes, ApiStepType DEF RunAllInsert
<1>4. CASE ActiveBatches(batches) = {} /\ api[c].todo # {}
  <2>1. p \in Profile /\ <<b, p>> \in Run
    BY <1>1, <1>4, ApiFields, FirstProfile DEF Run
  <2>2. batches' \in [Batch -> BatchRec]
    BY <1>1, <1>4, ApiFields, RowTypes DEF RunAllInsert, TypeInv, Typed
  <2>3. RowsKept /\ Known(runs', <<b, p>>)
    BY <1>4, <2>1, <2>2, RowTypes, RunWritten DEF RunAllInsert
  <2>4. next \in GoodApi
    BY <1>1, <2>1, ApiFields DEF GoodApi, ApiRec, ApiPc
  <2>5. ApiHeld(runs', next)
    BY <2>3, ApiFields, HeldKept DEF ApiHeld, ApiRec
  <2>6. Goto(c, next)
    BY <1>4 DEF RunAllInsert
  <2> HIDE DEF next
  <2> QED
    BY <2>3, <2>4, <2>5, <2>6, ApiStepType DEF RunAllInsert
<1> QED
  BY <1>2, <1>3, <1>4

LEMMA RunAllInsertInvalidType ==
  ASSUME TypeInv, NEW c \in Api, RunAllInsertInvalid(c) PROVE TypeInv'
<1>1. batches' \in [Batch -> BatchRec] /\ runs' = runs
  BY ApiFields, RowTypes DEF RunAllInsertInvalid, TypeInv, Typed
<1>2. RowsKept
  BY <1>1 DEF TypeInv, Typed, RowsKept
<1> QED
  BY <1>2, IdleTypes, ApiStepType DEF RunAllInsertInvalid

LEMMA RunAllCreateType ==
  ASSUME TypeInv, NEW c \in Api, RunAllCreate(c) PROVE TypeInv'
<1> DEFINE p == First(api[c].todo)
           r == <<api[c].batch, p>>
           next == [api[c] EXCEPT !.pc = "enqueue", !.run = r]
<1>1. api[c].batch \in Batch /\ api[c].todo # {}
  BY ApiFields DEF RunAllCreate, Serving, GoodApi
<1>2. p \in Profile /\ r \in Run
  BY <1>1, ApiFields, FirstProfile DEF Run
<1>3. RowsKept /\ Known(runs', r)
  BY <1>2, RowTypes, RunWritten DEF RunAllCreate, TypeInv, Typed
<1>4. next \in GoodApi
  BY <1>1, <1>2, ApiFields DEF GoodApi, ApiRec, ApiPc
<1>5. ApiHeld(runs', next)
  BY <1>3, ApiFields, HeldKept DEF ApiHeld, ApiRec
<1>6. Goto(c, next)
  BY DEF RunAllCreate
<1> HIDE DEF next
<1> QED
  BY <1>3, <1>4, <1>5, <1>6, ApiStepType DEF RunAllCreate

LEMMA FailBatchType ==
  ASSUME TypeInv, NEW b, FailBatch(b)
  PROVE  batches' \in [Batch -> BatchRec]
  BY ZenonT(30) DEF TypeInv, Typed, FailBatch, BatchRec, BatchStatus

LEMMA RunAllCreateInvalidType ==
  ASSUME TypeInv, NEW c \in Api, RunAllCreateInvalid(c) PROVE TypeInv'
<1>1. RowsKept
  BY FailBatchType DEF RunAllCreateInvalid, TypeInv, Typed, RowsKept
<1> QED
  BY <1>1, IdleTypes, ApiStepType DEF RunAllCreateInvalid

\* A request's step that pushes a run it inserted.
LEMMA ApiEnqueueType ==
  ASSUME TypeInv, NEW c \in Api, NEW next \in GoodApi, Goto(c, next),
         ApiHeld(runs, next), Known(runs, api[c].run), Enqueue(api[c].run),
         UNCHANGED <<batches, runs, worker, recon, faults, restarts>>
  PROVE  TypeInv'
<1> DEFINE r == api[c].run
<1>1. RowsKept
  BY RowsUnchanged
<1>2. api' \in [Api -> GoodApi] /\ \A d \in Api : ApiHeld(runs', api'[d])
  BY <1>1, ApiKept
<1>3. r \in Run /\ queue \in Seq(Run) /\ queue' = Append(queue, r)
  BY DEF Known, Enqueue, TypeInv, Typed
<1>4. /\ queue' \in Seq(Run)
      /\ \A i \in 1 .. Len(queue') : i \in 1 .. Len(queue) \/ queue'[i] = r
      /\ \A i \in 1 .. Len(queue) : queue'[i] = queue[i]
  BY <1>3
<1>5. job' \in [Run -> JobStates]
  BY DEF Enqueue, TypeInv, Typed, JobStates
<1>6. Typed'
  BY <1>2, <1>4, <1>5 DEF TypeInv, Typed
<1>7. Held'
  BY <1>2, <1>4 DEF TypeInv, Held
<1> QED
  BY <1>6, <1>7 DEF TypeInv

LEMMA RunAllEnqueueType ==
  ASSUME TypeInv, NEW c \in Api, RunAllEnqueue(c) PROVE TypeInv'
<1> DEFINE next == [api[c] EXCEPT !.pc = "mark"]
<1>1. next \in GoodApi
  BY ApiFields DEF RunAllEnqueue, Serving, GoodApi, ApiRec, ApiPc
<1>2. ApiHeld(runs, next) /\ Known(runs, api[c].run)
  BY ApiFields DEF RunAllEnqueue, Serving, ApiHeld, ApiRec
<1> HIDE DEF next
<1> QED
  BY <1>1, <1>2, ApiEnqueueType DEF RunAllEnqueue, next

LEMMA ScanEnqueueType ==
  ASSUME TypeInv, NEW c \in Api, ScanEnqueue(c) PROVE TypeInv'
<1> DEFINE next == [api[c] EXCEPT !.pc = "markScan"]
<1>1. next \in GoodApi
  BY ApiFields DEF ScanEnqueue, Serving, GoodApi, ApiRec, ApiPc
<1>2. ApiHeld(runs, next) /\ Known(runs, api[c].run)
  BY ApiFields DEF ScanEnqueue, Serving, ApiHeld, ApiRec
<1> HIDE DEF next
<1> QED
  BY <1>1, <1>2, ApiEnqueueType DEF ScanEnqueue, next

\* The row updates of a run in memory keep it a run with a profile.
LEMMA RunUpdates ==
  ASSUME TypeInv, NEW r, Known(runs, r)
  PROVE  /\ r \in Run
         /\ \A s \in TERMINAL_STATUSES \cup ACTIVE_RUN_STATUSES :
              /\ [runs[r] EXCEPT !.status = s] \in RunRec
              /\ [runs[r] EXCEPT !.status = s].profile \in Profile
         /\ mark_run_queued(runs[r]) \in RunRec
         /\ mark_run_queued(runs[r]).profile \in Profile
         /\ \A b \in Batch :
              /\ [runs[r] EXCEPT !.batch = b] \in RunRec
              /\ [runs[r] EXCEPT !.batch = b].profile \in Profile
              /\ [mark_run_queued(runs[r]) EXCEPT !.batch = b] \in RunRec
              /\ [mark_run_queued(runs[r]) EXCEPT !.batch = b].profile \in Profile
<1>1. r \in Run /\ runs[r] \in RunRec /\ runs[r].profile \in Profile
  BY DEF TypeInv, Typed, GoodRun, Known
<1>2. "queued" \in ACTIVE_RUN_STATUSES
  BY DEF ACTIVE_RUN_STATUSES
<1> QED
  BY <1>1, <1>2 DEF RunRec, mark_run_queued

LEMMA RunAllEnqueueFailsType ==
  ASSUME TypeInv, NEW c \in Api, RunAllEnqueueFails(c) PROVE TypeInv'
<1> DEFINE r == api[c].run
<1>1. Known(runs, r) /\ api[c].batch \in Batch
  BY ApiFields DEF RunAllEnqueueFails, Serving, ApiHeld, GoodApi
<1>2. runs' = [runs EXCEPT ![r] = [runs[r] EXCEPT !.batch = api[c].batch]]
  BY DEF RunAllEnqueueFails
<1>3. RowsKept
  BY <1>1, <1>2, FailBatchType, RunUpdates, RunWritten, ZenonT(30) DEF RunAllEnqueueFails
<1> QED
  BY <1>3, IdleTypes, ApiStepType DEF RunAllEnqueueFails

LEMMA RunAllMarkType ==
  ASSUME TypeInv, NEW c \in Api, RunAllMark(c) PROVE TypeInv'
<1> DEFINE r    == api[c].run
           todo == api[c].todo \ {runs[r].profile}
           next == [api[c] EXCEPT !.pc = "create", !.run = NoId, !.todo = todo]
<1>1. Known(runs, r) /\ api[c].batch \in Batch
  BY ApiFields DEF RunAllMark, Serving, ApiHeld, GoodApi
<1>2. runs' = [runs EXCEPT ![r] = [mark_run_queued(runs[r]) EXCEPT !.batch = api[c].batch]]
  BY DEF RunAllMark
<1>3. RowsKept
  <2>1. batches' \in [Batch -> BatchRec]
    BY DEF RunAllMark, TypeInv, Typed
  <2> QED
    BY <1>1, <1>2, <2>1, RunUpdates, RunWritten
<1>4. CASE todo = {}
  BY <1>3, <1>4, IdleTypes, ApiStepType DEF RunAllMark
<1>5. CASE todo # {}
  <2>1. next \in GoodApi
    BY <1>1, <1>5, ApiFields DEF GoodApi, ApiRec, ApiPc
  <2>2. ApiHeld(runs', next)
    BY <1>3, ApiFields, HeldKept DEF ApiHeld, ApiRec
  <2>3. Goto(c, next)
    BY <1>5 DEF RunAllMark
  <2> HIDE DEF next
  <2> QED
    BY <1>3, <2>1, <2>2, <2>3, ApiStepType DEF RunAllMark
<1> QED
  BY <1>4, <1>5

LEMMA ScanBeginType ==
  ASSUME TypeInv, NEW c \in Api, NEW p \in Profile, ScanBegin(c, p) PROVE TypeInv'
<1> DEFINE r == CHOOSE x \in FreeScans : TRUE
           request == [IdleApi EXCEPT !.run = r, !.profile = p]
           busy == [request EXCEPT !.pc = "closeScan", !.seen = RunningWithTask]
           free == [request EXCEPT !.pc = "createScan"]
<1>1. r \in Run
  BY DEF ScanBegin, FreeScans, Run
<1>2. RowsKept /\ runs' = runs
  BY RowsUnchanged DEF ScanBegin
<1>3. busy \in GoodApi /\ free \in GoodApi
  BY <1>1, SeenKnown DEF IdleApi, GoodApi, ApiRec, ApiPc
<1>4. ApiHeld(runs', busy) /\ ApiHeld(runs', free)
  BY <1>2, SeenKnown DEF ApiHeld, IdleApi
<1>5. Goto(c, busy) \/ Goto(c, free)
  BY DEF ScanBegin
<1> HIDE DEF busy, free
<1> QED
  BY <1>2, <1>3, <1>4, <1>5, ApiStepType DEF ScanBegin

LEMMA ScanCloseType ==
  ASSUME TypeInv, NEW c \in Api, ScanClose(c) PROVE TypeInv'
<1> DEFINE next == [api[c] EXCEPT !.pc = "createScan", !.seen = {}]
<1>1. PICK lost : /\ fail_orphaned(api[c].seen, lost)
                  /\ Goto(c, IdleApi) \/ Goto(c, next)
  BY DEF ScanClose
<1>2. RowsKept
  BY <1>1, ApiFields, FailOrphanedRows DEF ScanClose, ApiHeld
<1>3. next \in GoodApi
  BY ApiFields DEF ScanClose, Serving, GoodApi, ApiRec, ApiPc
<1>4. ApiHeld(runs', next)
  BY ApiFields DEF ApiHeld, ApiRec
<1> HIDE DEF next
<1> QED
  BY <1>1, <1>2, <1>3, <1>4, IdleTypes, ApiStepType DEF ScanClose

LEMMA ScanCreateType ==
  ASSUME TypeInv, NEW c \in Api, ScanCreate(c) PROVE TypeInv'
<1> DEFINE next == [api[c] EXCEPT !.pc = "enqueueScan"]
<1>1. api[c].run \in Run /\ api[c].profile \in Profile
  BY ApiFields DEF ScanCreate, Serving, GoodApi
<1>2. RowsKept /\ Known(runs', api[c].run)
  BY <1>1, RowTypes, RunWritten DEF ScanCreate, TypeInv, Typed
<1>3. next \in GoodApi
  BY <1>1, ApiFields DEF GoodApi, ApiRec, ApiPc
<1>4. ApiHeld(runs', next)
  BY <1>2, ApiFields, HeldKept DEF ApiHeld, ApiRec
<1> HIDE DEF next
<1> QED
  BY <1>2, <1>3, <1>4, ApiStepType DEF ScanCreate, next

LEMMA ScanEnqueueFailsType ==
  ASSUME TypeInv, NEW c \in Api, ScanEnqueueFails(c) PROVE TypeInv'
<1> DEFINE r == api[c].run
<1>1. Known(runs, r)
  BY ApiFields DEF ScanEnqueueFails, Serving, ApiHeld
<1>2. runs' = [runs EXCEPT ![r] = [runs[r] EXCEPT !.status = "failed"]]
  BY DEF ScanEnqueueFails
<1>3. "failed" \in TERMINAL_STATUSES /\ batches' \in [Batch -> BatchRec]
  BY DEF TERMINAL_STATUSES, FAILED_RUN_STATUSES, ScanEnqueueFails, TypeInv, Typed
<1>4. RowsKept
  BY <1>1, <1>2, <1>3, RunUpdates, RunWritten
<1> QED
  BY <1>4, IdleTypes, ApiStepType DEF ScanEnqueueFails

LEMMA ScanMarkType ==
  ASSUME TypeInv, NEW c \in Api, ScanMark(c) PROVE TypeInv'
<1> DEFINE r == api[c].run
<1>1. Known(runs, r)
  BY ApiFields DEF ScanMark, Serving, ApiHeld
<1>2. runs' = [runs EXCEPT ![r] = mark_run_queued(runs[r])]
  BY DEF ScanMark
<1>3. batches' \in [Batch -> BatchRec]
  BY DEF ScanMark, TypeInv, Typed
<1>4. RowsKept
  BY <1>1, <1>2, <1>3, RunUpdates, RunWritten
<1> QED
  BY <1>4, IdleTypes, ApiStepType DEF ScanMark

LEMMA CancelReadType ==
  ASSUME TypeInv, NEW c \in Api, NEW b \in Batch, CancelRead(c, b) PROVE TypeInv'
<1> DEFINE next == [IdleApi EXCEPT !.pc = "cancel", !.batch = b]
<1>1. next \in GoodApi /\ ApiHeld(runs', next)
  BY DEF IdleApi, GoodApi, ApiRec, ApiPc, ApiHeld
<1> HIDE DEF next
<1> QED
  BY <1>1, RowsUnchanged, ApiStepType DEF CancelRead, next

LEMMA CancelBatchType ==
  ASSUME TypeInv, NEW c \in Api, cancel_batch(c) PROVE TypeInv'
<1>1. \A b \in Batch : [batches[b] EXCEPT !.cancel = TRUE] \in BatchRec
  BY DEF TypeInv, Typed, BatchRec
<1>2. RowsKept
  BY <1>1 DEF cancel_batch, TypeInv, Typed, RowsKept
<1> QED
  BY <1>2, IdleTypes, ApiStepType DEF cancel_batch

-----------------------------------------------------------------------------
(* Workers.                                                                *)

LEMMA WorkerFields ==
  ASSUME TypeInv, NEW w \in Worker
  PROVE  worker[w] \in GoodWorker /\ worker[w] \in WorkerRec /\ WorkerHeld(runs, worker[w])
  BY DEF TypeInv, Typed, Held, GoodWorker

\* A worker's step that leaves the queue alone.
LEMMA WorkerStepType ==
  ASSUME TypeInv, RowsKept, NEW w \in Worker, NEW next \in GoodWorker, Hold(w, next),
         WorkerHeld(runs', next), UNCHANGED <<queue, api, recon, restarts>>,
         UNCHANGED faults \/ Fault, job' \in [Run -> JobStates]
  PROVE  TypeInv'
<1>1. /\ worker' \in [Worker -> GoodWorker]
      /\ \A d \in Worker : WorkerHeld(runs', worker'[d])
  BY WorkerKept
<1>2. faults' \in 0 .. MaxFaults
  BY ConstantsAssumption DEF TypeInv, Typed, Fault
<1>3. Typed'
  BY <1>1, <1>2 DEF TypeInv, Typed, RowsKept
<1>4. \A c \in Api : ApiHeld(runs', api[c])
  BY HeldKept DEF TypeInv, Typed, Held
<1>5. Held'
  BY <1>1, <1>4, HeldKept DEF Held
<1> QED
  BY <1>3, <1>5 DEF TypeInv

LEMMA JobEndsType ==
  ASSUME TypeInv, RowsKept, NEW w \in Worker, JobEnds(w),
         UNCHANGED <<queue, api, recon, faults, restarts>>
  PROVE  TypeInv'
<1>1. job' \in [Run -> JobStates]
  BY DEF JobEnds, TypeInv, Typed, JobStates
<1> QED
  BY <1>1, IdleTypes, WorkerStepType DEF JobEnds

LEMMA WorkerTakeType ==
  ASSUME TypeInv, NEW w \in Worker, WorkerTake(w) PROVE TypeInv'
<1> DEFINE r == Head(queue)
           next == [IdleWorker EXCEPT !.pc = "close", !.run = r,
                                      !.seen = RunningWithTask \ {r}]
<1>1. queue \in Seq(Run) /\ queue # << >>
  BY DEF WorkerTake, TypeInv, Typed
<1>2. r = queue[1] /\ r \in Run /\ 1 \in 1 .. Len(queue)
  BY <1>1
<1>3. /\ Tail(queue) \in Seq(Run)
      /\ \A i \in 1 .. Len(Tail(queue)) : Tail(queue)[i] = queue[i + 1] /\ i + 1 \in 1 .. Len(queue)
  BY <1>1
<1>4. Known(runs, r) /\ \A i \in 1 .. Len(Tail(queue)) : Known(runs, Tail(queue)[i])
  BY <1>2, <1>3 DEF TypeInv, Held
<1>5. RowsKept /\ runs' = runs
  BY RowsUnchanged DEF WorkerTake
<1>6. next \in GoodWorker
  BY <1>2, SeenKnown, RowTypes DEF IdleWorker, GoodWorker, WorkerRec, WorkerPc
<1>7. WorkerHeld(runs', next)
  BY <1>4, <1>5, SeenKnown DEF WorkerHeld, IdleWorker
<1>8. /\ worker' \in [Worker -> GoodWorker]
      /\ \A d \in Worker : WorkerHeld(runs', worker'[d])
  <2> HIDE DEF next
  <2> QED
    BY <1>5, <1>6, <1>7, WorkerKept DEF WorkerTake, next
<1>9. job' \in [Run -> JobStates]
  BY DEF WorkerTake, TypeInv, Typed, JobStates
<1>10. Typed'
  BY <1>3, <1>8, <1>9 DEF WorkerTake, TypeInv, Typed
<1>11. Held'
  BY <1>4, <1>5, <1>8 DEF WorkerTake, TypeInv, Held
<1> QED
  BY <1>10, <1>11 DEF TypeInv

LEMMA WorkerCloseType ==
  ASSUME TypeInv, NEW w \in Worker, WorkerClose(w) PROVE TypeInv'
<1> DEFINE next == [worker[w] EXCEPT !.pc = "start", !.seen = {}]
<1>1. PICK lost : fail_orphaned(worker[w].seen, lost)
  BY DEF WorkerClose
<1>2. RowsKept
  BY <1>1, WorkerFields, FailOrphanedRows DEF WorkerClose, WorkerHeld
<1>3. next \in GoodWorker
  BY WorkerFields DEF WorkerClose, GoodWorker, WorkerRec, WorkerPc
<1>4. WorkerHeld(runs', next)
  BY <1>2, WorkerFields, HeldKept DEF WorkerClose, WorkerHeld, WorkerRec
<1> HIDE DEF next
<1> QED
  BY <1>2, <1>3, <1>4, WorkerStepType DEF WorkerClose, next, TypeInv, Typed

LEMMA WorkerStartType ==
  ASSUME TypeInv, NEW w \in Worker, WorkerStart(w) PROVE TypeInv'
<1> DEFINE r == worker[w].run
           next == [worker[w] EXCEPT !.pc = "exec"]
<1>1. Known(runs, r)
  BY WorkerFields DEF WorkerStart, WorkerHeld
<1>2. CASE runs[r].status \in TERMINAL_STATUSES
  <2>1. RowsKept
    BY <1>2, RowsUnchanged DEF WorkerStart
  <2> QED
    BY <1>2, <2>1, JobEndsType DEF WorkerStart
<1>3. CASE runs[r].status \notin TERMINAL_STATUSES
  <2>1. runs' = [runs EXCEPT ![r] = [runs[r] EXCEPT !.status = "running"]]
    BY <1>3 DEF WorkerStart
  <2>2. "running" \in ACTIVE_RUN_STATUSES /\ batches' \in [Batch -> BatchRec]
    BY DEF ACTIVE_RUN_STATUSES, WorkerStart, TypeInv, Typed
  <2>3. RowsKept
    BY <1>1, <2>1, <2>2, RunUpdates, RunWritten
  <2>4. next \in GoodWorker
    BY WorkerFields DEF WorkerStart, GoodWorker, WorkerRec, WorkerPc
  <2>5. WorkerHeld(runs', next)
    BY <2>3, WorkerFields, HeldKept DEF WorkerStart, WorkerHeld, WorkerRec
  <2> HIDE DEF next
  <2> QED
    BY <1>3, <2>3, <2>4, <2>5, WorkerStepType DEF WorkerStart, next, TypeInv, Typed
<1> QED
  BY <1>2, <1>3

LEMMA WorkerTimeoutType ==
  ASSUME TypeInv, NEW w \in Worker, WorkerTimeout(w) PROVE TypeInv'
<1> DEFINE r == worker[w].run
           next == [worker[w] EXCEPT !.pc = "tail"]
<1>1. Known(runs, r)
  BY WorkerFields DEF WorkerTimeout, WorkerHeld
<1>2. PICK s \in {"completed_with_errors", "timed_out"} :
        runs' = [runs EXCEPT ![r] = [runs[r] EXCEPT !.status = s]]
  BY DEF WorkerTimeout
<1>3. s \in TERMINAL_STATUSES /\ batches' \in [Batch -> BatchRec]
  BY DEF WorkerTimeout, TypeInv, Typed, TERMINAL_STATUSES, SUCCESS_RUN_STATUSES,
         FAILED_RUN_STATUSES
<1>4. RowsKept
  BY <1>1, <1>2, <1>3, RunUpdates, RunWritten
<1>5. next \in GoodWorker
  BY WorkerFields DEF WorkerTimeout, GoodWorker, WorkerRec, WorkerPc
<1>6. WorkerHeld(runs', next)
  BY <1>4, WorkerFields, HeldKept DEF WorkerTimeout, WorkerHeld, WorkerRec
<1> HIDE DEF next
<1> QED
  BY <1>4, <1>5, <1>6, WorkerStepType DEF WorkerTimeout, next, TypeInv, Typed

LEMMA WorkerFinishType ==
  ASSUME TypeInv, NEW w \in Worker, WorkerFinish(w) PROVE TypeInv'
<1> DEFINE r == worker[w].run
           next == [worker[w] EXCEPT !.pc = "advance", !.batch = runs[r].batch]
<1>1. Known(runs, r) /\ runs[r].batch \in Batch \cup {None}
  BY WorkerFields DEF WorkerFinish, WorkerHeld, TypeInv, Typed, Known, GoodRun, RunRec
<1>2. PICK s \in FinalStatus(worker[w].pc) :
        runs' = [runs EXCEPT ![r] = [runs[r] EXCEPT !.status = s]]
  BY DEF WorkerFinish
<1>3. s \in TERMINAL_STATUSES /\ batches' \in [Batch -> BatchRec]
  BY ConstantsAssumption DEF WorkerFinish, FinalStatus, TypeInv, Typed, TERMINAL_STATUSES,
     SUCCESS_RUN_STATUSES, FAILED_RUN_STATUSES
<1>4. RowsKept
  BY <1>1, <1>2, <1>3, RunUpdates, RunWritten
<1>5. CASE runs[r].batch = None
  BY <1>4, <1>5, JobEndsType DEF WorkerFinish
<1>6. CASE runs[r].batch # None
  <2>1. next \in GoodWorker
    BY <1>1, <1>6, WorkerFields, ZenonT(30) DEF WorkerFinish, GoodWorker, WorkerRec, WorkerPc
  <2>2. WorkerHeld(runs', next)
    BY <1>4, WorkerFields, HeldKept DEF WorkerFinish, WorkerHeld, WorkerRec
  <2>3. Hold(w, next) /\ UNCHANGED job
    BY <1>6 DEF WorkerFinish
  <2> HIDE DEF next
  <2> QED
    BY <1>4, <2>1, <2>2, <2>3, WorkerStepType DEF WorkerFinish, TypeInv, Typed
<1> QED
  BY <1>5, <1>6

LEMMA WorkerAdvanceType ==
  ASSUME TypeInv, NEW w \in Worker, WorkerAdvance(w) PROVE TypeInv'
<1> DEFINE r == worker[w].run
           bt == batches[worker[w].batch]
           next == [worker[w] EXCEPT !.pc = "commit", !.snap = bt,
                                     !.new = Advanced(bt, r, runs[r])]
<1>1. RowsKept /\ runs' = runs
  BY RowsUnchanged DEF WorkerAdvance
<1>2. Known(runs, r) /\ worker[w].batch \in Batch
  BY WorkerFields DEF WorkerAdvance, WorkerHeld, GoodWorker
<1>3. bt \in BatchRec /\ Advanced(bt, r, runs[r]) \in BatchRec
  BY <1>2, AdvancedType DEF TypeInv, Typed, Known, GoodRun
<1>4. CASE AdvanceIgnored(bt, r, runs[r])
  BY <1>1, <1>4, JobEndsType DEF WorkerAdvance
<1>5. CASE ~ AdvanceIgnored(bt, r, runs[r])
  <2>1. next \in GoodWorker
    BY <1>2, <1>3, WorkerFields DEF WorkerAdvance, GoodWorker, WorkerRec, WorkerPc
  <2>2. WorkerHeld(runs', next)
    BY <1>1, WorkerFields DEF WorkerAdvance, WorkerHeld, WorkerRec
  <2>3. Hold(w, next) /\ UNCHANGED job
    BY <1>5 DEF WorkerAdvance
  <2> HIDE DEF next
  <2> QED
    BY <1>1, <2>1, <2>2, <2>3, WorkerStepType DEF WorkerAdvance, TypeInv, Typed
<1> QED
  BY <1>4, <1>5

LEMMA WorkerCommitType ==
  ASSUME TypeInv, NEW w \in Worker, WorkerCommit(w) PROVE TypeInv'
<1>1. /\ worker[w].batch \in Batch
      /\ worker[w].snap \in BatchRec /\ worker[w].new \in BatchRec
  BY WorkerFields DEF WorkerCommit, GoodWorker, WorkerRec
<1>2. batches' \in [Batch -> BatchRec]
  BY <1>1, CommitAdvanceType DEF WorkerCommit, TypeInv, Typed
<1>3. RowsKept
  BY <1>2 DEF WorkerCommit, TypeInv, Typed, RowsKept
<1> QED
  BY <1>3, JobEndsType DEF WorkerCommit

LEMMA WorkerCrashType ==
  ASSUME TypeInv, NEW w \in Worker, WorkerCrash(w) PROVE TypeInv'
<1>1. RowsKept
  BY RowsUnchanged DEF WorkerCrash
<1> QED
  BY <1>1, IdleTypes, WorkerStepType DEF WorkerCrash, TypeInv, Typed

-----------------------------------------------------------------------------
(* RQ and the backend's startup hook.                                      *)

LEMMA RqCleanupType ==
  ASSUME TypeInv, NEW r \in Run, RqCleanup(r) PROVE TypeInv'
<1>1. job' \in [Run -> JobStates]
  BY DEF RqCleanup, TypeInv, Typed, JobStates
<1> QED
  BY <1>1 DEF RqCleanup, TypeInv, Typed, Held

LEMMA BackendCrashType ==
  ASSUME TypeInv, BackendCrash PROVE TypeInv'
<1>1. [Up EXCEPT !.pc = "read"] \in GoodRecon
  BY RowTypes DEF Up, GoodRecon, ReconRec, ReconPc
<1>2. api' \in [Api -> GoodApi] /\ \A c \in Api : ApiHeld(runs, api'[c])
  BY IdleTypes DEF BackendCrash
<1>3. restarts' \in 0 .. MaxRestarts
  BY ConstantsAssumption DEF BackendCrash, TypeInv, Typed
<1> QED
  BY <1>1, <1>2, <1>3 DEF BackendCrash, TypeInv, Typed, Held

\* What the startup hook makes of a batch is a batch.
LEMMA ReconciledType ==
  ASSUME TypeInv, NEW b \in Batch, NeedsWork(b) PROVE Reconciled(b) \in BatchRec
<1>1. batches[b] \in BatchRec
  BY DEF TypeInv, Typed
<1>2. CASE NeedsCancelled(b)
  BY <1>1, <1>2 DEF Reconciled, BatchRec, BatchStatus
<1>3. CASE ~ NeedsCancelled(b) /\ NeedsAdvance(b)
  <2> DEFINE r == CurrentRun(b)
  <2>1. batches[b].current \in Profile
    BY <1>1, <1>3 DEF NeedsAdvance, BatchRec
  <2>2. r \in Run
    BY <2>1 DEF CurrentRun, Run
  <2>3. runs[r].status # "absent"
    BY <1>3 DEF NeedsAdvance, AdvanceIgnored, TERMINAL_STATUSES,
                SUCCESS_RUN_STATUSES, FAILED_RUN_STATUSES
  <2>4. runs[r] \in RunRec /\ runs[r].profile \in Profile
    BY <2>2, <2>3 DEF TypeInv, Typed, GoodRun
  <2>5. Advanced(batches[b], r, runs[r]) \in BatchRec
    BY <1>1, <2>2, <2>4, AdvancedType
  <2> QED
    BY <1>3, <2>5 DEF Reconciled
<1> QED
  BY <1>2, <1>3 DEF NeedsWork

LEMMA ReconcileReadType ==
  ASSUME TypeInv, ReconcileRead PROVE TypeInv'
<1>1. recon' \in GoodRecon
  <2>1. CASE \E b \in ActiveBatches(batches) : NeedsWork(b)
    <3> DEFINE b == CHOOSE x \in ActiveBatches(batches) : NeedsWork(x)
               new == Reconciled(b)
    <3>1. b \in Batch /\ NeedsWork(b)
      BY <2>1 DEF ActiveBatches
    <3>2. recon' = [pc |-> "commit", batch |-> b, snap |-> batches[b], new |-> new]
      BY <2>1 DEF ReconcileRead
    <3> HIDE DEF b
    <3>3. batches[b] \in BatchRec
      BY <3>1 DEF TypeInv, Typed
    <3>4. new \in BatchRec
      BY <3>1, ReconciledType
    <3> HIDE DEF new
    <3> QED
      BY <3>1, <3>2, <3>3, <3>4 DEF GoodRecon, ReconRec, ReconPc
  <2>2. CASE ~ \E b \in ActiveBatches(batches) : NeedsWork(b)
    BY <2>2, IdleTypes DEF ReconcileRead
  <2> QED
    BY <2>1, <2>2
<1> QED
  BY <1>1 DEF ReconcileRead, TypeInv, Typed, Held

LEMMA ReconcileCommitType ==
  ASSUME TypeInv, ReconcileCommit PROVE TypeInv'
<1>1. recon.batch \in Batch /\ recon.snap \in BatchRec /\ recon.new \in BatchRec
  BY DEF ReconcileCommit, TypeInv, Typed, GoodRecon, ReconRec
<1>2. batches' \in [Batch -> BatchRec]
  BY <1>1, CommitAdvanceType DEF ReconcileCommit, TypeInv, Typed
<1> QED
  BY <1>2, IdleTypes DEF ReconcileCommit, TypeInv, Typed, Held

LEMMA TypeNext == TypeInv /\ [Next]_vars => TypeInv'
<1> SUFFICES ASSUME TypeInv, [Next]_vars PROVE TypeInv'
  OBVIOUS
<1>1. ASSUME NEW c \in Api, ApiBegin(c) PROVE TypeInv'
  BY <1>1, RunAllBeginType, ScanBeginType, CancelReadType DEF ApiBegin
<1>2. ASSUME NEW c \in Api, ApiStep(c) PROVE TypeInv'
  BY <1>2, RunAllCloseType, RunAllPlanType, RunAllInsertType, RunAllCreateType,
     RunAllEnqueueType, RunAllMarkType, ScanCloseType, ScanCreateType,
     ScanEnqueueType, ScanMarkType, CancelBatchType DEF ApiStep
<1>3. ASSUME NEW c \in Api, ApiError(c) PROVE TypeInv'
  BY <1>3, RunAllInsertInvalidType, RunAllCreateInvalidType, RunAllEnqueueFailsType,
     ScanEnqueueFailsType DEF ApiError
<1>4. ASSUME NEW w \in Worker, WorkerStep(w) \/ WorkerCrash(w) PROVE TypeInv'
  BY <1>4, WorkerTakeType, WorkerCloseType, WorkerStartType, WorkerTimeoutType, WorkerFinishType,
     WorkerAdvanceType, WorkerCommitType, WorkerCrashType DEF WorkerStep
<1>5. ASSUME Reconcile PROVE TypeInv'
  BY <1>5, ReconcileReadType, ReconcileCommitType DEF Reconcile
<1>6. CASE UNCHANGED vars
  BY <1>6 DEF vars, TypeInv, Typed, Held
<1> QED
  BY <1>1, <1>2, <1>3, <1>4, <1>5, <1>6, RqCleanupType, BackendCrashType DEF Next

\* Every reachable state is well typed, and every run that a process or the
\* queue refers to has been inserted.
THEOREM TypeInvariant == Spec => []TypeInv
<1>1. Init => TypeInv
  BY TypeInit
<1>2. TypeInv /\ [Next]_vars => TypeInv'
  BY TypeNext
<1> QED
  BY <1>1, <1>2, PTL DEF Spec

\* The type invariant the runs check, for every value of the constants.
THEOREM TypeCorrect == Spec => []TypeOK
  BY TypeInvariant, TypeInvImplies, PTL
=============================================================================
