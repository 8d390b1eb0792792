-------------------------- MODULE MemoryBatchSafety --------------------------
(***************************************************************************)
(* What a batch reports and waits for.  For every value of the constants:  *)
(* RecordedRunsEnded and BatchRunStaysEnded.  For one worker, and without  *)
(* restarts where a theorem says so: the other invariants.                 *)
(*                                                                         *)
(* None is inductive.  A record is written from a row read earlier, by a   *)
(* worker or by the startup hook, so the invariants also speak of what     *)
(* they hold in memory; and a run that ended stays ended only because the  *)
(* request that enqueues it is the only one that may still write its row.  *)
(***************************************************************************)
EXTENDS MemoryBatchProofs

BatchRun == Batch \X Profile

\* The batch's own run of a requested profile has ended.
Ended(b, p) ==
  /\ p \in batches[b].requested
  /\ runs[<<b, p>>].batch = b
  /\ runs[<<b, p>>].status \in TERMINAL_STATUSES

\* A run row that is not there has no job and nothing in it.
AbsentOk(r) == runs[r].status = "absent" => runs[r] = NoRun /\ job[r] = "none"

\* A run row belongs to the batch and the profile it was created for.
OwnedOk(b, p) ==
  /\ runs[<<b, p>>].batch \in {None, b}
  /\ runs[<<b, p>>].status # "absent" =>
       /\ runs[<<b, p>>].profile = p
       /\ batches[b].status # "absent"
       /\ p \in batches[b].requested

\* A scan run belongs to no batch.
ScansOk == \A r \in Run \ BatchRun : runs[r].batch = None

RowsOk ==
  /\ \A r \in BatchRun : AbsentOk(r)
  /\ \A b \in Batch : \A p \in Profile : OwnedOk(b, p)
  /\ ScansOk
  /\ RecordedRunsEnded

\* The progress of a request that creates a batch.
Early    == {"closeRunAll", "plan", "insert"}
Late     == {"create", "enqueue", "mark"}
ScanPcs  == {"closeScan", "createScan", "enqueueScan", "markScan"}
Creating(c) == api[c].pc \in Early \cup Late

SeenOk(seen) == \A r \in seen : r \in BatchRun => runs[r].task

\* The runs still to be created are absent ...
TodoOk(c) ==
  /\ batches[api[c].batch].status # "absent"
  /\ api[c].todo \subseteq batches[api[c].batch].requested
  /\ \A p \in api[c].todo :
       api[c].pc = "create" \/ <<api[c].batch, p>> # api[c].run
         => runs[<<api[c].batch, p>>].status = "absent"

\* ... and the one being enqueued is pending, whatever the workers do.
CurrentOk(c) ==
  /\ \E p \in api[c].todo : api[c].run = <<api[c].batch, p>>
  /\ runs[api[c].run].status = "pending"
  /\ ~ runs[api[c].run].task
  /\ api[c].pc = "enqueue" => job[api[c].run] = "none"

ApiOk(c) ==
  /\ api[c].pc \in Early => batches[api[c].batch].status = "absent"
  /\ api[c].pc \in Late => TodoOk(c)
  /\ api[c].pc \in {"enqueue", "mark"} => CurrentOk(c)
  /\ api[c].pc \in ScanPcs => api[c].run \notin BatchRun
  /\ SeenOk(api[c].seen)

\* Two requests never create the same batch.
OwnersOk == \A c, d \in Api : Creating(c) /\ Creating(d) /\ c # d
                                => api[c].batch # api[d].batch

\* What an advance is about to commit.
NewOk(b, new) ==
  /\ new.status # "absent"
  /\ batches[b].status # "absent"
  /\ \A p \in Recorded(new) : Ended(b, p)

Executing == {"exec", "tail", "advance", "commit"}

WorkerOk(w) ==
  /\ worker[w].pc # "idle" => job[worker[w].run] # "none"
  /\ SeenOk(worker[w].seen)
  /\ worker[w].pc \in Executing /\ worker[w].run \in BatchRun
       => runs[worker[w].run].status \notin {"absent", "pending"}
  /\ worker[w].pc \in {"advance", "commit"} =>
       \E p \in Profile : worker[w].run = <<worker[w].batch, p>> /\ Ended(worker[w].batch, p)
  /\ worker[w].pc = "commit" => NewOk(worker[w].batch, worker[w].new)

ReconOk == recon.pc = "commit" => NewOk(recon.batch, recon.new)

QueueOk == \A i \in 1 .. Len(queue) : job[queue[i]] # "none"

SafeInv ==
  /\ RowsOk
  /\ \A c \in Api : ApiOk(c)
  /\ OwnersOk
  /\ \A w \in Worker : WorkerOk(w)
  /\ ReconOk
  /\ QueueOk

-----------------------------------------------------------------------------
(* What every step does to the rows.                                       *)

RunStep(r) ==
  /\ runs[r].task => runs'[r].task
  /\ runs[r].status \in TERMINAL_STATUSES => runs'[r].status \in TERMINAL_STATUSES
  /\ runs[r].status \notin {"absent", "pending"} => runs'[r].status \notin {"absent", "pending"}
  /\ runs[r].status # "absent" =>
       runs'[r].status # "absent" /\ runs'[r].profile = runs[r].profile
  /\ runs'[r].batch \in {runs[r].batch, r[1]}
  /\ runs'[r].status = "absent" =>
       runs'[r] = runs[r] /\ (job[r] = "none" => job'[r] = "none")
  /\ runs[r].status = "absent" /\ runs'[r].status # "absent" =>
       /\ runs'[r].profile = r[2]
       /\ batches'[r[1]].status # "absent"
       /\ r[2] \in batches'[r[1]].requested

BatchStep(b) ==
  /\ batches[b].status # "absent" =>
       batches'[b].status # "absent" /\ batches'[b].requested = batches[b].requested
  /\ \A p \in Recorded(batches'[b]) : p \in Recorded(batches[b]) \/ Ended(b, p)

JobStep == \A r \in Run : job[r] # "none" => job'[r] # "none"

ScansKept == \A r \in Run \ BatchRun : runs'[r].batch = runs[r].batch

Step ==
  /\ \A r \in BatchRun : RunStep(r)
  /\ ScansKept
  /\ \A b \in Batch : BatchStep(b)
  /\ JobStep

Inv == TypeInv /\ SafeInv

\* What each action is shown to do.
Safe == Step /\ SafeInv'

\* The rows a request in progress relies on are left alone.
Undisturbed(d) ==
  /\ api[d].pc \in Early => batches'[api[d].batch].status = "absent"
  /\ api[d].pc \in Late => \A p \in Profile :
       runs[<<api[d].batch, p>>].status = "absent"
         \/ (api[d].pc # "create" /\ <<api[d].batch, p>> = api[d].run)
         => /\ runs'[<<api[d].batch, p>>] = runs[<<api[d].batch, p>>]
            /\ job[<<api[d].batch, p>>] = "none" => job'[<<api[d].batch, p>>] = "none"

LEMMA BatchRunType ==
  /\ BatchRun \subseteq Run
  /\ \A b \in Batch, p \in Profile : <<b, p>> \in BatchRun /\ <<b, p>> \in Run
  /\ \A r \in BatchRun : r[1] \in Batch /\ r[2] \in Profile /\ r = <<r[1], r[2]>>
  /\ \A s \in Scan : <<None, s>> \notin BatchRun
  /\ None \notin Batch /\ None \notin Profile
  BY ConstantsAssumption DEF BatchRun, Run, Batch, Profile, None

\* A profile recorded or about to be recorded stays ended.
LEMMA EndedKept ==
  ASSUME Inv, Step, NEW b \in Batch, NEW p \in Profile, Ended(b, p)
  PROVE  /\ p \in batches'[b].requested
         /\ runs'[<<b, p>>].batch = b
         /\ runs'[<<b, p>>].status \in TERMINAL_STATUSES
<1>1. <<b, p>> \in BatchRun /\ <<b, p>>[1] = b
  BY BatchRunType
<1>2. RunStep(<<b, p>>) /\ BatchStep(b) /\ OwnedOk(b, p)
  BY <1>1 DEF Step, Inv, SafeInv, RowsOk
<1>3. runs[<<b, p>>].status # "absent"
  BY DEF Ended, TERMINAL_STATUSES, SUCCESS_RUN_STATUSES, FAILED_RUN_STATUSES
<1> QED
  BY <1>1, <1>2, <1>3 DEF RunStep, BatchStep, OwnedOk, Ended

LEMMA AbsentNotTerminal ==
  /\ "absent" \notin TERMINAL_STATUSES /\ "pending" \notin TERMINAL_STATUSES
  /\ "failed" \in TERMINAL_STATUSES /\ "timed_out" \in TERMINAL_STATUSES
  /\ "completed_with_errors" \in TERMINAL_STATUSES
  BY DEF TERMINAL_STATUSES, SUCCESS_RUN_STATUSES, FAILED_RUN_STATUSES

\* Recorded profiles are profiles.
LEMMA RecordedType ==
  ASSUME NEW bt \in BatchRec
  PROVE  Recorded(bt) \subseteq Profile
  BY DEF Recorded, BatchRec

LEMMA RowsStep ==
  ASSUME Inv, TypeInv', Step
  PROVE  RowsOk'
<1>1. \A r \in BatchRun : AbsentOk(r)'
  <2> SUFFICES ASSUME NEW r \in BatchRun PROVE AbsentOk(r)'
    OBVIOUS
  <2>1. RunStep(r) /\ AbsentOk(r)
    BY DEF Step, Inv, SafeInv, RowsOk
  <2> QED
    BY <2>1 DEF RunStep, AbsentOk
<1>2. \A b \in Batch : \A p \in Profile : OwnedOk(b, p)'
  <2> SUFFICES ASSUME NEW b \in Batch, NEW p \in Profile PROVE OwnedOk(b, p)'
    OBVIOUS
  <2>1. <<b, p>> \in BatchRun /\ <<b, p>>[1] = b /\ <<b, p>>[2] = p
    BY BatchRunType
  <2>2. RunStep(<<b, p>>) /\ BatchStep(b) /\ OwnedOk(b, p)
    BY <2>1 DEF Step, Inv, SafeInv, RowsOk
  <2> QED
    BY <2>1, <2>2 DEF RunStep, BatchStep, OwnedOk
<1>3. RecordedRunsEnded'
  <2> SUFFICES ASSUME NEW b \in Batch, NEW p \in Recorded(batches'[b])
               PROVE  /\ p \in batches'[b].requested
                      /\ runs'[<<b, p>>].batch = b
                      /\ runs'[<<b, p>>].status \in TERMINAL_STATUSES
    BY DEF RecordedRunsEnded, Recorded
  <2>1. p \in Profile
    BY RecordedType DEF TypeInv, Typed
  <2>2. Ended(b, p)
    BY DEF Step, BatchStep, Inv, SafeInv, RowsOk, RecordedRunsEnded, Ended
  <2> QED
    BY <2>1, <2>2, EndedKept
<1>4. ScansOk'
  BY DEF ScansOk, ScansKept, Step, Inv, SafeInv, RowsOk
<1> QED
  BY <1>1, <1>2, <1>3, <1>4 DEF RowsOk

-----------------------------------------------------------------------------
(* A process that does not move keeps its part of the invariant.           *)

LEMMA SeenKept ==
  ASSUME Inv, Step, NEW seen, SeenOk(seen)
  PROVE  \A r \in seen : r \in BatchRun => runs'[r].task
  BY DEF Step, RunStep, SeenOk

LEMMA NewKept ==
  ASSUME Inv, Step, NEW b \in Batch, NEW new \in BatchRec, NewOk(b, new)
  PROVE  /\ batches'[b].status # "absent"
         /\ \A p \in Recorded(new) : /\ p \in batches'[b].requested
                                     /\ runs'[<<b, p>>].batch = b
                                     /\ runs'[<<b, p>>].status \in TERMINAL_STATUSES
<1>1. \A p \in Recorded(new) : p \in Profile /\ Ended(b, p)
  BY RecordedType DEF NewOk
<1>2. batches'[b].status # "absent"
  BY DEF Step, BatchStep, NewOk
<1> QED
  BY <1>1, <1>2, EndedKept

LEMMA OtherWorker ==
  ASSUME Inv, Step, NEW w \in Worker, worker'[w] = worker[w]
  PROVE  WorkerOk(w)'
<1> DEFINE x == worker[w]
<1>1. WorkerOk(w) /\ x \in GoodWorker /\ x \in WorkerRec
  BY WorkerFields DEF Inv, SafeInv
<1>2. x.pc # "idle" => x.run \in Run /\ job'[x.run] # "none"
  BY <1>1 DEF WorkerOk, Step, JobStep, GoodWorker
<1>3. \A r \in x.seen : r \in BatchRun => runs'[r].task
  BY <1>1, SeenKept DEF WorkerOk
<1>4. x.pc \in Executing /\ x.run \in BatchRun => runs'[x.run].status \notin {"absent", "pending"}
  BY <1>1 DEF WorkerOk, Step, RunStep
<1>5. x.pc \in {"advance", "commit"} =>
        \E p \in Profile : /\ x.run = <<x.batch, p>>
                           /\ p \in batches'[x.batch].requested
                           /\ runs'[<<x.batch, p>>].batch = x.batch
                           /\ runs'[<<x.batch, p>>].status \in TERMINAL_STATUSES
  <2> SUFFICES ASSUME x.pc \in {"advance", "commit"}
               PROVE  \E p \in Profile : /\ x.run = <<x.batch, p>>
                           /\ p \in batches'[x.batch].requested
                           /\ runs'[<<x.batch, p>>].batch = x.batch
                           /\ runs'[<<x.batch, p>>].status \in TERMINAL_STATUSES
    OBVIOUS
  <2>1. x.batch \in Batch
    BY <1>1 DEF GoodWorker
  <2>2. PICK p \in Profile : x.run = <<x.batch, p>> /\ Ended(x.batch, p)
    BY <1>1 DEF WorkerOk
  <2> QED
    BY <2>1, <2>2, EndedKept
<1>6. x.pc = "commit" =>
        /\ x.new.status # "absent" /\ batches'[x.batch].status # "absent"
        /\ \A p \in Recorded(x.new) : /\ p \in batches'[x.batch].requested
                                      /\ runs'[<<x.batch, p>>].batch = x.batch
                                      /\ runs'[<<x.batch, p>>].status \in TERMINAL_STATUSES
  <2>1. x.pc = "commit" => x.batch \in Batch /\ x.new \in BatchRec
    BY <1>1 DEF GoodWorker, WorkerRec
  <2> QED
    BY <1>1, <2>1, NewKept DEF WorkerOk, NewOk
<1> HIDE DEF x
<1>7. worker'[w] = x
  BY DEF x
<1> QED
  BY <1>2, <1>3, <1>4, <1>5, <1>6, <1>7 DEF WorkerOk, SeenOk, NewOk, Ended, Recorded

LEMMA OtherRecon ==
  ASSUME Inv, Step, UNCHANGED recon
  PROVE  ReconOk'
<1>1. recon.pc = "commit" => recon.batch \in Batch /\ recon.new \in BatchRec
  BY DEF Inv, TypeInv, Typed, GoodRecon, ReconRec
<1>2. ReconOk
  BY DEF Inv, SafeInv
<1> QED
  BY <1>1, <1>2, NewKept DEF ReconOk, NewOk, Ended, Recorded

LEMMA OtherApi ==
  ASSUME Inv, Step, NEW d \in Api, api'[d] = api[d], Undisturbed(d)
  PROVE  ApiOk(d)'
<1> DEFINE a == api[d]
<1>1. ApiOk(d) /\ a \in GoodApi /\ a \in ApiRec /\ a.todo \in SUBSET Profile
  BY ApiFields DEF Inv, SafeInv
<1>2. a.pc \in Late => a.batch \in Batch
  BY <1>1 DEF GoodApi, Late
<1>3. a.pc \in Late => TodoOk(d)'
  <2> SUFFICES ASSUME a.pc \in Late PROVE TodoOk(d)'
    OBVIOUS
  <2>1. TodoOk(d) /\ BatchStep(a.batch)
    BY <1>1, <1>2 DEF ApiOk, Step
  <2>2. \A p \in Profile : runs[<<a.batch, p>>].status = "absent"
          => runs'[<<a.batch, p>>].status = "absent"
    BY DEF Undisturbed
  <2> QED
    BY <1>1, <2>1, <2>2 DEF TodoOk, BatchStep
<1>4. a.pc \in {"enqueue", "mark"} => CurrentOk(d)'
  <2> SUFFICES ASSUME a.pc \in {"enqueue", "mark"} PROVE CurrentOk(d)'
    OBVIOUS
  <2>1. CurrentOk(d) /\ a.pc \in Late
    BY <1>1 DEF ApiOk, Late
  <2>2. PICK p \in a.todo : a.run = <<a.batch, p>>
    BY <2>1 DEF CurrentOk
  <2>3. runs'[a.run] = runs[a.run] /\ (job[a.run] = "none" => job'[a.run] = "none")
    BY <1>1, <2>1, <2>2 DEF Undisturbed
  <2> QED
    BY <2>1, <2>2, <2>3 DEF CurrentOk
<1>5. \A r \in a.seen : r \in BatchRun => runs'[r].task
  BY <1>1, SeenKept DEF ApiOk
<1> QED
  BY <1>1, <1>3, <1>4, <1>5 DEF ApiOk, SeenOk, Undisturbed

\* A step of the request c.
LEMMA ApiTakes ==
  ASSUME Inv, TypeInv', Step, NEW c \in Api, ApiOk(c)',
         \A d \in Api : d # c => api'[d] = api[d] /\ Undisturbed(d),
         \A d \in Api : Creating(c)' /\ Creating(d) /\ d # c => api[d].batch # api'[c].batch,
         UNCHANGED <<worker, recon>>, QueueOk'
  PROVE  Safe
<1>1. \A d \in Api : ApiOk(d)'
  BY OtherApi
<1>2. OwnersOk'
  BY DEF OwnersOk, Creating, Inv, SafeInv
<1>3. \A w \in Worker : WorkerOk(w)'
  BY OtherWorker
<1> QED
  BY <1>1, <1>2, <1>3, RowsStep, OtherRecon DEF SafeInv, Safe

\* A step of the worker w.
LEMMA WorkerTakes ==
  ASSUME Inv, TypeInv', Step, NEW w \in Worker, WorkerOk(w)',
         \A d \in Worker : d # w => worker'[d] = worker[d],
         \A d \in Api : Undisturbed(d), UNCHANGED <<api, recon>>, QueueOk'
  PROVE  Safe
<1>1. \A d \in Api : ApiOk(d)'
  BY OtherApi
<1>2. OwnersOk'
  BY DEF OwnersOk, Creating, Inv, SafeInv
<1>3. \A d \in Worker : WorkerOk(d)'
  BY OtherWorker
<1> QED
  BY <1>1, <1>2, <1>3, RowsStep, OtherRecon DEF SafeInv, Safe

-----------------------------------------------------------------------------
(* The kinds of change to the rows.                                        *)

\* No job of a batch run is enqueued.
JobSame == JobStep /\ \A r \in BatchRun : job[r] = "none" => job'[r] = "none"

\* A run that exists and that no request is enqueuing moves on.
Moves(r) ==
  /\ runs[r].status # "absent"
  /\ \A d \in Api : api[d].pc \in {"enqueue", "mark"} => api[d].run # r
  /\ runs'[r].profile = runs[r].profile
  /\ runs'[r].batch = runs[r].batch
  /\ runs'[r].task = runs[r].task
  /\ runs'[r].status \notin {"absent", "pending"}
  /\ runs[r].status \in TERMINAL_STATUSES => runs'[r].status \in TERMINAL_STATUSES

RunsMoved == ScansKept /\ \A r \in BatchRun : runs'[r] = runs[r] \/ Moves(r)

\* No batch is inserted.
BatchesKept ==
  \A b \in Batch : /\ BatchStep(b)
                   /\ batches[b].status = "absent" => batches'[b].status = "absent"

LEMMA RunsSame ==
  ASSUME UNCHANGED runs PROVE RunsMoved
  BY DEF RunsMoved, ScansKept

LEMMA BatchesSame ==
  ASSUME UNCHANGED batches PROVE BatchesKept
  BY DEF BatchesKept, BatchStep

LEMMA RunsMove ==
  ASSUME Inv, BatchesKept, JobSame,
         RunsMoved
  PROVE  Step /\ \A d \in Api : Undisturbed(d)
<1>1. \A r \in BatchRun : RunStep(r)
  <2> SUFFICES ASSUME NEW r \in BatchRun PROVE RunStep(r)
    OBVIOUS
  <2>1. r \in Run
    BY BatchRunType
  <2>2. CASE runs'[r] = runs[r]
    BY <2>1, <2>2 DEF RunStep, JobSame
  <2>3. CASE Moves(r)
    BY <2>3 DEF RunStep, Moves
  <2> QED
    BY <2>2, <2>3 DEF RunsMoved
<1>2. \A b \in Batch : BatchStep(b)
  BY DEF BatchesKept
<1>3. JobStep
  BY DEF JobStep, JobSame
<1>4. ASSUME NEW d \in Api PROVE Undisturbed(d)
  <2>1. ApiOk(d) /\ api[d] \in GoodApi
    BY ApiFields DEF Inv, SafeInv
  <2>2. api[d].pc \in Early => batches'[api[d].batch].status = "absent"
    BY <2>1 DEF ApiOk, BatchesKept, GoodApi, Early
  <2>3. ASSUME api[d].pc \in Late, NEW p \in Profile,
               runs[<<api[d].batch, p>>].status = "absent"
                 \/ (api[d].pc # "create" /\ <<api[d].batch, p>> = api[d].run)
        PROVE  /\ runs'[<<api[d].batch, p>>] = runs[<<api[d].batch, p>>]
               /\ job[<<api[d].batch, p>>] = "none" => job'[<<api[d].batch, p>>] = "none"
    <3>1. <<api[d].batch, p>> \in BatchRun /\ <<api[d].batch, p>> \in Run
      BY <2>1, <2>3, BatchRunType DEF GoodApi, Late
    <3>2. ~ Moves(<<api[d].batch, p>>)
      BY <2>3 DEF Moves, Late
    <3> QED
      BY <3>1, <3>2 DEF JobSame, RunsMoved
  <2> QED
    BY <2>2, <2>3 DEF Undisturbed
<1> QED
  BY <1>1, <1>2, <1>3, <1>4 DEF Step, RunsMoved

\* advance_batch may commit what it computed from a stale row: everything it
\* records has ended, and the row it updates exists.
LEMMA CommitKept ==
  ASSUME Inv, NEW b \in Batch, NEW snap \in BatchRec, NEW new \in BatchRec,
         NewOk(b, new), CommitAdvance(b, snap, new)
  PROVE  BatchesKept
<1> DEFINE row == UpdatedRow(batches[b], snap, new)
<1>1. batches[b] \in BatchRec /\ row \in BatchRec
  BY UpdatedRowType DEF Inv, TypeInv, Typed
<1>2. row.requested = batches[b].requested
  BY <1>1 DEF UpdatedRow, BatchRec
<1>3. row.status # "absent" /\ batches[b].status # "absent"
  BY <1>1 DEF UpdatedRow, BatchRec, Column, NewOk
<1>4. \A p \in Recorded(row) : p \in Recorded(batches[b]) \/ Ended(b, p)
  <2>1. row.completed \in {batches[b].completed, new.completed}
    BY <1>1 DEF UpdatedRow, BatchRec, Column
  <2>2. row.failed \in {batches[b].failed, new.failed}
    BY <1>1 DEF UpdatedRow, BatchRec, Column
  <2> HIDE DEF row
  <2> QED
    BY <2>1, <2>2 DEF Recorded, NewOk
<1> HIDE DEF row
<1>5. UNCHANGED batches \/ batches' = [batches EXCEPT ![b] = row]
  BY DEF CommitAdvance, row
<1>6. CASE batches' = [batches EXCEPT ![b] = row]
  <2>1. \A a \in Batch : batches'[a] = IF a = b THEN row ELSE batches[a]
    BY <1>6 DEF Inv, TypeInv, Typed
  <2>2. BatchStep(b) /\ batches[b].status # "absent"
    BY <1>2, <1>3, <1>4, <2>1 DEF BatchStep
  <2>3. \A a \in Batch : a # b => batches'[a] = batches[a]
    BY <2>1
  <2> QED
    BY <2>2, <2>3 DEF BatchesKept, BatchStep
<1> QED
  BY <1>5, <1>6, BatchesSame

LEMMA QueueKept ==
  ASSUME Inv, JobStep, UNCHANGED queue
  PROVE  QueueOk'
<1>1. \A i \in 1 .. Len(queue) : queue[i] \in Run
  BY DEF Inv, TypeInv, Typed
<1> QED
  BY <1>1 DEF QueueOk, Inv, SafeInv, JobStep

LEMMA JobUnchanged ==
  ASSUME UNCHANGED job PROVE JobSame
  BY DEF JobSame, JobStep

-----------------------------------------------------------------------------
(* Workers.                                                                *)

\* A worker's step that leaves the queue alone.
LEMMA WorkerMoves ==
  ASSUME Inv, TypeInv', BatchesKept, JobSame,
         RunsMoved,
         NEW w \in Worker, NEW next, Hold(w, next), WorkerOk(w)',
         UNCHANGED <<queue, api, recon>>
  PROVE  Safe
<1>1. Step /\ \A d \in Api : Undisturbed(d)
  BY RunsMove
<1>2. \A d \in Worker : d # w => worker'[d] = worker[d]
  BY DEF Hold, Inv, TypeInv, Typed
<1>3. QueueOk'
  BY QueueKept DEF JobSame
<1> QED
  BY <1>1, <1>2, <1>3, WorkerTakes

LEMMA WorkerAt ==
  ASSUME Inv, NEW w \in Worker, NEW next, Hold(w, next)
  PROVE  worker'[w] = next
  BY DEF Hold, Inv, TypeInv, Typed

LEMMA IdleWorkerOk ==
  ASSUME NEW w \in Worker, worker'[w] = IdleWorker
  PROVE  WorkerOk(w)'
  BY DEF WorkerOk, IdleWorker, SeenOk, Executing

LEMMA JobEndsSafe ==
  ASSUME Inv, TypeInv', BatchesKept,
         RunsMoved,
         NEW w \in Worker, worker[w].pc # "idle", JobEnds(w),
         UNCHANGED <<queue, api, recon>>
  PROVE  Safe
<1>1. worker[w].run \in Run /\ job[worker[w].run] # "none"
  BY WorkerFields DEF Inv, SafeInv, WorkerOk, GoodWorker
<1>2. JobSame
  BY <1>1 DEF JobEnds, JobSame, JobStep, Inv, TypeInv, Typed
<1>3. WorkerOk(w)'
  BY WorkerAt, IdleWorkerOk DEF JobEnds
<1> QED
  BY <1>2, <1>3, WorkerMoves DEF JobEnds

\* Only running runs with a task are listed as possibly lost.
LEMMA SeenNow ==
  ASSUME Inv PROVE \A r \in RunningWithTask : r \in BatchRun => runs[r].task
  BY DEF RunningWithTask

\* fail_orphaned_memory_runs moves the runs it closes: each has a task, so no
\* request is still enqueuing it.
LEMMA FailOrphanedMoves ==
  ASSUME Inv, NEW seen, SeenOk(seen), seen \subseteq Run, NEW lost, fail_orphaned(seen, lost)
  PROVE  RunsMoved
<1>0. ScansKept
  <2>1. \A r \in Run : runs[r] \in RunRec
    BY DEF Inv, TypeInv, Typed, GoodRun
  <2> QED
    BY <2>1 DEF ScansKept, fail_orphaned, RunRec
<1> SUFFICES ASSUME NEW r \in BatchRun, r \in lost PROVE Moves(r)
  BY <1>0, BatchRunType DEF fail_orphaned, RunsMoved
<1>1. r \in Run /\ runs[r] \in RunRec /\ runs[r].task
  BY BatchRunType DEF Inv, TypeInv, Typed, GoodRun, fail_orphaned, SeenOk
<1>2. runs'[r] = [runs[r] EXCEPT !.status = "failed"]
  BY <1>1 DEF fail_orphaned
<1>3. runs[r].status # "absent"
  BY <1>1 DEF Inv, SafeInv, RowsOk, AbsentOk, NoRun
<1>4. \A d \in Api : api[d].pc \in {"enqueue", "mark"} => api[d].run # r
  BY <1>1 DEF Inv, SafeInv, ApiOk, CurrentOk
<1> QED
  BY <1>1, <1>2, <1>3, <1>4, AbsentNotTerminal DEF Moves, RunRec

LEMMA WorkerTakeSafe ==
  ASSUME Inv, TypeInv', NEW w \in Worker, WorkerTake(w) PROVE Safe
<1> DEFINE r == Head(queue)
           next == [IdleWorker EXCEPT !.pc = "close", !.run = r,
                                      !.seen = RunningWithTask \ {r}]
<1>1. queue \in Seq(Run) /\ queue # << >>
  BY DEF WorkerTake, Inv, TypeInv, Typed
<1>2. r = queue[1] /\ r \in Run /\ 1 \in 1 .. Len(queue)
  BY <1>1
<1>3. job[r] # "none"
  BY <1>2 DEF Inv, SafeInv, QueueOk
<1>4. JobSame /\ job'[r] # "none"
  BY <1>2, <1>3 DEF WorkerTake, JobSame, JobStep, Inv, TypeInv, Typed
<1>5. Step /\ \A d \in Api : Undisturbed(d)
  BY <1>4, RunsMove, RunsSame, BatchesSame DEF WorkerTake
<1>6. QueueOk'
  <2>1. \A i \in 1 .. Len(Tail(queue)) :
          Tail(queue)[i] = queue[i + 1] /\ i + 1 \in 1 .. Len(queue) /\ queue[i + 1] \in Run
    BY <1>1
  <2> QED
    BY <1>4, <2>1 DEF WorkerTake, QueueOk, Inv, SafeInv, JobSame, JobStep
<1>7. worker'[w] = next /\ \A d \in Worker : d # w => worker'[d] = worker[d]
  BY DEF WorkerTake, Hold, Inv, TypeInv, Typed
<1>8. WorkerOk(w)'
  <2>1. next.pc = "close" /\ next.run = r /\ next.seen = RunningWithTask \ {r}
    BY DEF IdleWorker
  <2>2. \A s \in next.seen : s \in BatchRun => runs'[s].task
    BY <2>1, SeenNow DEF WorkerTake
  <2> HIDE DEF next
  <2> QED
    BY <1>4, <1>7, <2>1, <2>2 DEF WorkerOk, SeenOk, Executing
<1> QED
  BY <1>5, <1>6, <1>7, <1>8, WorkerTakes DEF WorkerTake

LEMMA WorkerCloseSafe ==
  ASSUME Inv, TypeInv', NEW w \in Worker, WorkerClose(w) PROVE Safe
<1> DEFINE next == [worker[w] EXCEPT !.pc = "start", !.seen = {}]
<1>1. WorkerOk(w) /\ worker[w] \in WorkerRec
  BY WorkerFields DEF Inv, SafeInv
<1>2. RunsMoved
  BY <1>1, FailOrphanedMoves DEF WorkerClose, WorkerOk, WorkerRec
<1>3. next.pc = "start" /\ next.run = worker[w].run /\ next.seen = {}
  BY <1>1 DEF WorkerRec
<1> HIDE DEF next
<1>4. Hold(w, next) /\ worker'[w] = next
  BY WorkerAt DEF WorkerClose, next
<1>5. WorkerOk(w)'
  BY <1>1, <1>3, <1>4 DEF WorkerClose, WorkerOk, SeenOk, Executing
<1> QED
  BY <1>2, <1>4, <1>5, WorkerMoves, BatchesSame, JobUnchanged DEF WorkerClose

\* A worker changes the status of its own run, once the request that enqueued
\* it has committed.
LEMMA OwnRunMoves ==
  ASSUME Inv, NEW r \in Run, runs[r].status # "absent" \/ r \notin BatchRun,
         NEW s, s \notin {"absent", "pending"},
         runs[r].status \in TERMINAL_STATUSES => s \in TERMINAL_STATUSES,
         r \in BatchRun => \A d \in Api : api[d].pc \in {"enqueue", "mark"} => api[d].run # r,
         runs' = [runs EXCEPT ![r].status = s]
  PROVE  RunsMoved /\ runs'[r].status = s
<1>1. runs[r] \in RunRec
  BY DEF Inv, TypeInv, Typed, GoodRun
<1>2. runs'[r] = [runs[r] EXCEPT !.status = s]
  BY DEF Inv, TypeInv, Typed
<1>3. /\ runs'[r].profile = runs[r].profile /\ runs'[r].batch = runs[r].batch
      /\ runs'[r].task = runs[r].task /\ runs'[r].status = s
  BY <1>1, <1>2 DEF RunRec
<1>4. \A q \in Run : q # r => runs'[q] = runs[q]
  BY DEF Inv, TypeInv, Typed
<1>5. r \in BatchRun => Moves(r)
  BY <1>3 DEF Moves
<1> QED
  BY <1>3, <1>4, <1>5, BatchRunType DEF RunsMoved, ScansKept

LEMMA WorkerStartSafe ==
  ASSUME Inv, TypeInv', NEW w \in Worker, WorkerStart(w) PROVE Safe
<1> DEFINE r == worker[w].run
           next == [worker[w] EXCEPT !.pc = "exec"]
<1>1. WorkerOk(w) /\ worker[w] \in WorkerRec /\ r \in Run /\ worker[w].pc = "start"
  BY WorkerFields DEF Inv, SafeInv, GoodWorker, WorkerStart
<1>2. CASE runs[r].status \in TERMINAL_STATUSES
  BY <1>1, <1>2, JobEndsSafe, RunsSame, BatchesSame DEF WorkerStart
<1>3. CASE runs[r].status \notin TERMINAL_STATUSES
  <2>1. runs' = [runs EXCEPT ![r].status = "running"] /\ ~ RowLocked(r)
    BY <1>3 DEF WorkerStart
  <2>2. job[r] # "none"
    BY <1>1 DEF WorkerOk
  <2>3. \A d \in Api : api[d].pc \in {"enqueue", "mark"} => api[d].run # r
    BY <2>1, <2>2 DEF RowLocked, Inv, SafeInv, ApiOk, CurrentOk
  <2>4. runs[r].status # "absent" \/ r \notin BatchRun
    BY <2>2 DEF Inv, SafeInv, RowsOk, AbsentOk
  <2>5. RunsMoved /\ runs'[r].status = "running"
    BY <1>1, <1>3, <2>1, <2>3, <2>4, OwnRunMoves
  <2>6. next.pc = "exec" /\ next.run = r /\ next.seen = worker[w].seen
    BY <1>1 DEF WorkerRec
  <2> HIDE DEF next
  <2>7. Hold(w, next) /\ worker'[w] = next
    BY <1>3, WorkerAt DEF WorkerStart, next
  <2>8. \A q \in worker[w].seen : q \in BatchRun => runs'[q].task
    BY <1>1, <2>5 DEF RunsMoved, Moves, WorkerOk, SeenOk
  <2>9. WorkerOk(w)'
    BY <1>1, <1>3, <2>2, <2>5, <2>6, <2>7, <2>8
       DEF WorkerStart, WorkerOk, SeenOk, Executing
  <2> QED
    BY <1>3, <2>5, <2>7, <2>9, WorkerMoves, BatchesSame, JobUnchanged DEF WorkerStart
<1> QED
  BY <1>2, <1>3

\* While a worker executes a run nobody is enqueuing it.
LEMMA ExecutingOwn ==
  ASSUME Inv, NEW w \in Worker, worker[w].pc \in Executing
  PROVE  /\ worker[w].run \in Run
         /\ runs[worker[w].run].status # "absent" \/ worker[w].run \notin BatchRun
         /\ worker[w].run \in BatchRun =>
              \A d \in Api : api[d].pc \in {"enqueue", "mark"} => api[d].run # worker[w].run
<1>1. WorkerOk(w) /\ worker[w].run \in Run
  BY WorkerFields DEF Inv, SafeInv, GoodWorker, Executing
<1> QED
  BY <1>1 DEF WorkerOk, Inv, SafeInv, ApiOk, CurrentOk

LEMMA WorkerTimeoutSafe ==
  ASSUME Inv, TypeInv', NEW w \in Worker, WorkerTimeout(w) PROVE Safe
<1> DEFINE r == worker[w].run
           next == [worker[w] EXCEPT !.pc = "tail"]
<1>1. WorkerOk(w) /\ worker[w] \in WorkerRec /\ worker[w].pc = "exec"
  BY WorkerFields DEF Inv, SafeInv, WorkerTimeout
<1>2. PICK s \in {"completed_with_errors", "timed_out"} : runs' = [runs EXCEPT ![r].status = s]
  BY DEF WorkerTimeout
<1>3. RunsMoved /\ runs'[r].status = s
  <2>1. s \notin {"absent", "pending"} /\ s \in TERMINAL_STATUSES
    BY AbsentNotTerminal
  <2>2. worker[w].pc \in Executing
    BY <1>1 DEF Executing
  <2> QED
    BY <1>2, <2>1, <2>2, ExecutingOwn, OwnRunMoves
<1>4. next.pc = "tail" /\ next.run = r /\ next.seen = worker[w].seen
  BY <1>1 DEF WorkerRec
<1> HIDE DEF next
<1>5. Hold(w, next) /\ worker'[w] = next
  BY WorkerAt DEF WorkerTimeout, next
<1>6. \A q \in worker[w].seen : q \in BatchRun => runs'[q].task
  BY <1>1, <1>3 DEF RunsMoved, Moves, WorkerOk, SeenOk
<1>7. WorkerOk(w)'
  BY <1>1, <1>3, <1>4, <1>5, <1>6 DEF WorkerTimeout, WorkerOk, SeenOk, Executing
<1> QED
  BY <1>3, <1>5, <1>7, WorkerMoves, BatchesSame, JobUnchanged DEF WorkerTimeout

LEMMA WorkerFinishSafe ==
  ASSUME Inv, TypeInv', NEW w \in Worker, WorkerFinish(w) PROVE Safe
<1> DEFINE r == worker[w].run
           b == runs[r].batch
           next == [worker[w] EXCEPT !.pc = "advance", !.batch = b]
<1>1. WorkerOk(w) /\ worker[w] \in WorkerRec /\ worker[w].pc \in {"exec", "tail"}
  BY WorkerFields DEF Inv, SafeInv, WorkerFinish
<1>2. PICK s \in FinalStatus(worker[w].pc) : runs' = [runs EXCEPT ![r].status = s]
  BY DEF WorkerFinish
<1>3. s \in TERMINAL_STATUSES /\ s \notin {"absent", "pending"}
  BY ConstantsAssumption, AbsentNotTerminal DEF FinalStatus
<1>4. worker[w].pc \in Executing /\ worker[w].pc # "idle"
  BY <1>1 DEF Executing
<1>5. RunsMoved /\ runs'[r].status = s
  BY <1>2, <1>3, <1>4, ExecutingOwn, OwnRunMoves
<1>6. CASE b = None
  BY <1>4, <1>5, <1>6, JobEndsSafe, BatchesSame DEF WorkerFinish
<1>7. CASE b # None
  <2>1. r \in Run /\ b \in Batch
    BY <1>4, <1>7, ExecutingOwn DEF Inv, TypeInv, Typed, GoodRun, RunRec
  <2>2. PICK a \in Batch, p \in Profile : b = a /\ r = <<a, p>>
    <3>1. CASE r \in BatchRun
      <4>1. r[1] \in Batch /\ r[2] \in Profile /\ r = <<r[1], r[2]>>
        BY <3>1, BatchRunType
      <4>2. OwnedOk(r[1], r[2])
        BY <4>1 DEF Inv, SafeInv, RowsOk
      <4>3. b = r[1]
        BY <1>7, <4>1, <4>2 DEF OwnedOk
      <4> QED
        BY <4>1, <4>3
    <3>2. CASE r \notin BatchRun
      BY <1>7, <2>1, <3>2 DEF Inv, SafeInv, RowsOk, ScansOk
    <3> QED
      BY <3>1, <3>2
  <2>3. r \in BatchRun /\ runs[r].status # "absent" /\ OwnedOk(b, p)
    BY <1>4, <2>1, <2>2, BatchRunType, ExecutingOwn DEF Inv, SafeInv, RowsOk
  <2>4. p \in batches[b].requested /\ runs'[r].batch = b /\ UNCHANGED batches
    BY <2>2, <2>3, <1>5 DEF OwnedOk, RunsMoved, Moves, WorkerFinish
  <2>5. next.pc = "advance" /\ next.run = r /\ next.seen = worker[w].seen /\ next.batch = b
    BY <1>1 DEF WorkerRec
  <2> HIDE DEF next
  <2>6. Hold(w, next) /\ worker'[w] = next /\ UNCHANGED <<job, queue, api, recon>>
    BY <1>7, WorkerAt DEF WorkerFinish, next
  <2>7. \A q \in worker[w].seen : q \in BatchRun => runs'[q].task
    BY <1>1, <1>5 DEF RunsMoved, Moves, WorkerOk, SeenOk
  <2>8. Ended(a, p)'
    BY <1>3, <1>5, <2>2, <2>4 DEF Ended
  <2>9. WorkerOk(w)'
    <3> DEFINE q == <<a, p>>
    <3>1. worker'[w].pc = "advance" /\ worker'[w].run = q /\ worker'[w].batch = a
          /\ worker'[w].seen = worker[w].seen
      BY <2>2, <2>5, <2>6
    <3>2. job'[q] # "none"
      BY <1>1, <1>4, <2>2, <2>6 DEF WorkerOk
    <3>3. runs'[q].status \notin {"absent", "pending"}
      BY <1>3, <1>5, <2>2
    <3> HIDE DEF next, r, b
    <3> QED
      BY <2>7, <2>8, <3>1, <3>2, <3>3 DEF WorkerOk, SeenOk
  <2> QED
    BY <1>5, <2>4, <2>6, <2>9, WorkerMoves, BatchesSame, JobUnchanged
<1> QED
  BY <1>6, <1>7
\* advance_batch adds the profile of the run, and nothing else, to what the
\* row it read has recorded.
LEMMA AdvancedRecords ==
  ASSUME NEW bt \in BatchRec, NEW r \in Run, NEW run \in RunRec, run.profile \in Profile
  PROVE  /\ Recorded(Advanced(bt, r, run)) = Recorded(bt) \cup {run.profile}
         /\ Advanced(bt, r, run).status # "absent"
<1> DEFINE old   == WithOutcome(bt, run)
           fatal == run.profile = MetadataOnly /\ ~ Succeeded(run)
           stop  == Remaining(old) = {} \/ old.cancel \/ fatal
<1>1. old \in BatchRec /\ Recorded(old) = Recorded(bt) \cup {run.profile}
  BY DEF WithOutcome, Appended, BatchRec, Recorded
<1>2. (IF stop THEN ClosedStatus(old, fatal) ELSE "running") # "absent"
  BY DEF ClosedStatus
<1> HIDE DEF old, fatal, stop
<1> DEFINE new == [old EXCEPT !.last = r,
                  !.current = IF stop THEN None ELSE First(Remaining(old)),
                  !.status = IF stop THEN ClosedStatus(old, fatal) ELSE "running"]
<1>3. new.completed = old.completed /\ new.failed = old.failed /\ new.status # "absent"
  BY <1>1, <1>2 DEF BatchRec
<1>4. Advanced(bt, r, run) = new
  BY DEF Advanced, old, fatal, stop
<1> HIDE DEF new
<1> QED
  BY <1>1, <1>3, <1>4 DEF Recorded

\* What an advance computes from the current rows may be committed.
LEMMA AdvanceIsSafe ==
  ASSUME Inv, NEW b \in Batch, NEW p \in Profile, Ended(b, p)
  PROVE  NewOk(b, Advanced(batches[b], <<b, p>>, runs[<<b, p>>]))
<1>1. <<b, p>> \in Run /\ batches[b] \in BatchRec /\ runs[<<b, p>>] \in RunRec
  BY BatchRunType DEF Inv, TypeInv, Typed, GoodRun
<1>2. runs[<<b, p>>].profile = p /\ batches[b].status # "absent"
  BY AbsentNotTerminal DEF Inv, SafeInv, RowsOk, OwnedOk, Ended
<1> DEFINE new == Advanced(batches[b], <<b, p>>, runs[<<b, p>>])
<1>3. Recorded(new) = Recorded(batches[b]) \cup {p} /\ new.status # "absent"
  BY <1>1, <1>2, AdvancedRecords
<1>4. \A q \in Recorded(batches[b]) : Ended(b, q)
  BY DEF Inv, SafeInv, RowsOk, RecordedRunsEnded, Ended
<1> HIDE DEF new
<1>5. NewOk(b, new)
  BY <1>2, <1>3, <1>4 DEF NewOk
<1> QED
  BY <1>5 DEF new

LEMMA WorkerAdvanceSafe ==
  ASSUME Inv, TypeInv', NEW w \in Worker, WorkerAdvance(w) PROVE Safe
<1>1. WorkerOk(w) /\ worker[w] \in WorkerRec /\ worker[w].pc = "advance" /\ worker[w].batch \in Batch
  BY WorkerFields DEF Inv, SafeInv, WorkerAdvance, GoodWorker
<1>2. PICK b \in Batch, p \in Profile :
        worker[w].batch = b /\ worker[w].run = <<b, p>> /\ Ended(b, p)
  BY <1>1 DEF WorkerOk
<1> DEFINE r == <<b, p>>
           new == Advanced(batches[b], r, runs[r])
           next == [worker[w] EXCEPT !.pc = "commit", !.snap = batches[b], !.new = new]
<1>3. CASE AdvanceIgnored(batches[b], r, runs[r])
  BY <1>1, <1>2, <1>3, JobEndsSafe, RunsSame, BatchesSame DEF WorkerAdvance
<1>4. CASE ~ AdvanceIgnored(batches[b], r, runs[r])
  <2>1. NewOk(b, new)
    BY <1>2, AdvanceIsSafe
  <2> HIDE DEF new
  <2>2. next.pc = "commit" /\ next.run = r /\ next.seen = worker[w].seen
        /\ next.batch = b /\ next.new = new
    BY <1>1, <1>2 DEF WorkerRec
  <2> HIDE DEF next
  <2>3. Hold(w, next) /\ worker'[w] = next /\ UNCHANGED <<batches, runs, job, queue, api, recon>>
    BY <1>2, <1>4, WorkerAt DEF WorkerAdvance, next, new
  <2>4. WorkerOk(w)'
    BY <1>1, <1>2, <2>1, <2>2, <2>3 DEF WorkerOk, SeenOk, NewOk, Ended, Executing
  <2> QED
    BY <2>3, <2>4, WorkerMoves, RunsSame, BatchesSame, JobUnchanged
<1> QED
  BY <1>3, <1>4

LEMMA WorkerCommitSafe ==
  ASSUME Inv, TypeInv', NEW w \in Worker, WorkerCommit(w) PROVE Safe
<1>1. /\ WorkerOk(w) /\ worker[w].pc = "commit" /\ worker[w].batch \in Batch
      /\ worker[w].snap \in BatchRec /\ worker[w].new \in BatchRec
  BY WorkerFields DEF Inv, SafeInv, WorkerCommit, GoodWorker, WorkerRec
<1>2. BatchesKept
  BY <1>1, CommitKept DEF WorkerOk, WorkerCommit
<1> QED
  BY <1>1, <1>2, JobEndsSafe, RunsSame DEF WorkerCommit

LEMMA WorkerCrashSafe ==
  ASSUME Inv, TypeInv', NEW w \in Worker, WorkerCrash(w) PROVE Safe
<1>1. Hold(w, IdleWorker) /\ WorkerOk(w)'
  BY WorkerAt, IdleWorkerOk DEF WorkerCrash
<1> QED
  BY <1>1, WorkerMoves, RunsSame, BatchesSame, JobUnchanged DEF WorkerCrash

-----------------------------------------------------------------------------
(* RQ, the restart of the backend and its startup hook.                    *)

\* A step of neither a request nor a worker.
LEMMA OthersKept ==
  ASSUME Inv, TypeInv', BatchesKept, JobSame, RunsMoved, ReconOk',
         UNCHANGED <<queue, api, worker>>
  PROVE  Safe
<1>1. Step /\ \A d \in Api : Undisturbed(d)
  BY RunsMove
<1>2. \A d \in Api : ApiOk(d)'
  BY <1>1, OtherApi
<1>3. OwnersOk'
  BY DEF OwnersOk, Creating, Inv, SafeInv
<1>4. \A d \in Worker : WorkerOk(d)'
  BY <1>1, OtherWorker
<1> QED
  BY <1>1, <1>2, <1>3, <1>4, RowsStep, QueueKept DEF SafeInv, JobSame, Safe

LEMMA RqCleanupSafe ==
  ASSUME Inv, TypeInv', NEW r \in Run, RqCleanup(r) PROVE Safe
<1>1. JobSame
  BY DEF RqCleanup, JobSame, JobStep, Inv, TypeInv, Typed
<1>2. BatchesKept /\ RunsMoved
  BY BatchesSame, RunsSame DEF RqCleanup
<1>3. ReconOk'
  BY <1>1, <1>2, RunsMove, OtherRecon DEF RqCleanup
<1> QED
  BY <1>1, <1>2, <1>3, OthersKept DEF RqCleanup

LEMMA BackendCrashSafe ==
  ASSUME Inv, TypeInv', BackendCrash PROVE Safe
<1>1. Step
  BY RunsMove, BatchesSame, RunsSame, JobUnchanged DEF BackendCrash
<1>2. \A d \in Api : api'[d] = IdleApi
  BY DEF BackendCrash
<1>3. \A d \in Api : ApiOk(d)'
  BY <1>2 DEF ApiOk, IdleApi, Early, Late, ScanPcs, SeenOk
<1>4. OwnersOk'
  BY <1>2 DEF OwnersOk, Creating, IdleApi, Early, Late
<1>5. ReconOk'
  BY DEF ReconOk, BackendCrash, Up
<1>6. \A d \in Worker : WorkerOk(d)'
  BY <1>1, OtherWorker DEF BackendCrash
<1> QED
  BY <1>1, <1>3, <1>4, <1>5, <1>6, RowsStep, QueueKept, JobUnchanged DEF SafeInv, BackendCrash, JobSame, Safe

\* The run whose end the startup hook found.
LEMMA HookFindsRun ==
  ASSUME Inv, NEW b \in Batch, ~ NeedsCancelled(b), NeedsWork(b)
  PROVE  \E p \in Profile :
           /\ Ended(b, p)
           /\ ~ AdvanceIgnored(batches[b], <<b, p>>, runs[<<b, p>>])
           /\ Reconciled(b) = Advanced(batches[b], <<b, p>>, runs[<<b, p>>])
<1>1. PICK p \in Profile : p = batches[b].current
  BY DEF NeedsWork, NeedsAdvance, Inv, TypeInv, Typed, BatchRec
<1>2. /\ CurrentRun(b) = <<b, p>> /\ runs[<<b, p>>].batch = b
      /\ runs[<<b, p>>].status \in TERMINAL_STATUSES
      /\ ~ AdvanceIgnored(batches[b], <<b, p>>, runs[<<b, p>>])
  BY <1>1 DEF NeedsWork, NeedsAdvance, CurrentRun, AdvanceIgnored
<1>3. Ended(b, p)
  BY <1>2, AbsentNotTerminal DEF Ended, Inv, SafeInv, RowsOk, OwnedOk
<1> QED
  BY <1>2, <1>3 DEF Reconciled

LEMMA ReconciledIsSafe ==
  ASSUME Inv, NEW b \in Batch, NeedsWork(b), batches[b].status = "running"
  PROVE  NewOk(b, Reconciled(b))
<1>1. CASE NeedsCancelled(b)
  <2>1. /\ Recorded(Reconciled(b)) = Recorded(batches[b])
        /\ Reconciled(b).status = "cancelled"
    BY <1>1 DEF Reconciled, Recorded, Inv, TypeInv, Typed, BatchRec
  <2>2. \A p \in Recorded(batches[b]) : Ended(b, p)
    BY DEF Inv, SafeInv, RowsOk, RecordedRunsEnded, Ended
  <2> QED
    BY <2>1, <2>2 DEF NewOk
<1>2. CASE ~ NeedsCancelled(b)
  BY <1>2, HookFindsRun, AdvanceIsSafe
<1> QED
  BY <1>1, <1>2

LEMMA ReconcileReadSafe ==
  ASSUME Inv, TypeInv', ReconcileRead PROVE Safe
<1>1. ReconOk'
  <2>1. CASE \E b \in ActiveBatches(batches) : NeedsWork(b)
    <3> DEFINE x == CHOOSE y \in ActiveBatches(batches) : NeedsWork(y)
    <3>1. x \in ActiveBatches(batches) /\ NeedsWork(x)
      BY <2>1
    <3>2. PICK b \in Batch : b = x /\ NeedsWork(b) /\ batches[b].status = "running"
      BY <3>1 DEF ActiveBatches
    <3> DEFINE new == Reconciled(b)
    <3>3. NewOk(b, new)
      BY <3>2, ReconciledIsSafe
    <3>4. recon' = [pc |-> "commit", batch |-> b, snap |-> batches[b], new |-> new]
      BY <2>1, <3>2 DEF ReconcileRead
    <3> HIDE DEF new, x
    <3>5. recon'.batch = b /\ recon'.new = new /\ UNCHANGED <<batches, runs>>
      BY <3>4 DEF ReconcileRead
    <3> QED
      BY <3>3, <3>5 DEF ReconOk, NewOk, Ended
  <2>2. CASE ~ \E b \in ActiveBatches(batches) : NeedsWork(b)
    BY <2>2 DEF ReconcileRead, ReconOk, Up
  <2> QED
    BY <2>1, <2>2
<1> QED
  BY <1>1, OthersKept, BatchesSame, RunsSame, JobUnchanged DEF ReconcileRead

LEMMA ReconcileCommitSafe ==
  ASSUME Inv, TypeInv', ReconcileCommit PROVE Safe
<1>1. recon.batch \in Batch /\ recon.snap \in BatchRec /\ recon.new \in BatchRec
  BY DEF ReconcileCommit, Inv, TypeInv, Typed, GoodRecon, ReconRec
<1>2. BatchesKept
  BY <1>1, CommitKept DEF ReconcileCommit, ReconOk, Inv, SafeInv
<1>3. ReconOk'
  BY DEF ReconcileCommit, ReconOk, Up
<1> QED
  BY <1>2, <1>3, OthersKept, RunsSame, JobUnchanged DEF ReconcileCommit
-----------------------------------------------------------------------------
(* Requests.                                                               *)

LEMMA ApiAt ==
  ASSUME Inv, NEW c \in Api, NEW next, Goto(c, next)
  PROVE  api'[c] = next /\ \A d \in Api : d # c => api'[d] = api[d]
  BY DEF Goto, Inv, TypeInv, Typed

\* A request that creates no batch run.
LEMMA ApiMoves ==
  ASSUME Inv, TypeInv', BatchesKept, JobStep, JobSame, RunsMoved,
         NEW c \in Api, NEW next, Goto(c, next), ApiOk(c)',
         next.pc \in Early \cup Late =>
           \A d \in Api : d # c /\ Creating(d) => api[d].batch # next.batch,
         UNCHANGED <<worker, recon>>, QueueOk'
  PROVE  Safe
<1>1. Step /\ \A d \in Api : Undisturbed(d)
  BY RunsMove
<1>2. api'[c] = next /\ \A d \in Api : d # c => api'[d] = api[d]
  BY ApiAt
<1>3. \A d \in Api : Creating(c)' /\ Creating(d) /\ d # c => api[d].batch # api'[c].batch
  BY <1>2 DEF Creating
<1> QED
  BY <1>1, <1>2, <1>3, ApiTakes

LEMMA ApiMovesOn ==
  ASSUME Inv, TypeInv', BatchesKept, RunsMoved,
         NEW c \in Api, NEW next, Goto(c, next), ApiOk(c)',
         next.pc \in Early \cup Late =>
           \A d \in Api : d # c /\ Creating(d) => api[d].batch # next.batch,
         UNCHANGED <<job, queue, worker, recon>>
  PROVE  Safe
<1>1. JobSame /\ JobStep
  BY JobUnchanged DEF JobSame
<1>2. QueueOk'
  BY <1>1, QueueKept
<1> QED
  BY <1>1, <1>2, ApiMoves

LEMMA IdleApiOk ==
  ASSUME NEW c \in Api, api'[c] = IdleApi
  PROVE  ApiOk(c)'
  BY DEF ApiOk, IdleApi, Early, Late, ScanPcs, SeenOk

\* A request that ends without creating a batch run.
LEMMA ApiEnds ==
  ASSUME Inv, TypeInv', BatchesKept, RunsMoved, NEW c \in Api, Goto(c, IdleApi),
         UNCHANGED <<job, queue, worker, recon>>
  PROVE  Safe
<1>1. ApiOk(c)'
  BY ApiAt, IdleApiOk
<1>2. IdleApi.pc \notin Early \cup Late
  BY DEF IdleApi, Early, Late
<1> QED
  BY <1>1, <1>2, ApiMovesOn

LEMMA RunAllBeginSafe ==
  ASSUME Inv, TypeInv', NEW c \in Api, RunAllBegin(c) PROVE Safe
<1> DEFINE b == First(FreeBatches)
           next == [IdleApi EXCEPT !.pc = "closeRunAll", !.batch = b, !.seen = RunningWithTask]
<1>1. b \in FreeBatches
  BY FirstMember, ProfileSubset DEF RunAllBegin, FreeBatches
<1>2. next.pc = "closeRunAll" /\ next.batch = b /\ next.seen = RunningWithTask
  BY DEF IdleApi
<1> HIDE DEF next
<1>3. Goto(c, next) /\ api'[c] = next /\ UNCHANGED <<batches, runs, job, queue, worker, recon>>
  BY ApiAt DEF RunAllBegin, next
<1>4. ApiOk(c)'
  BY <1>1, <1>2, <1>3, SeenNow DEF ApiOk, SeenOk, FreeBatches, Early, Late, ScanPcs
<1>5. \A d \in Api : api[d].batch # next.batch
  BY <1>1, <1>2 DEF FreeBatches
<1> QED
  BY <1>3, <1>4, <1>5, ApiMovesOn, BatchesSame, RunsSame

\* A request that goes on creating its batch is the only one to do so.
LEMMA SoleCreator ==
  ASSUME Inv, NEW c \in Api, Creating(c)
  PROVE  \A d \in Api : d # c /\ Creating(d) => api[d].batch # api[c].batch
  BY DEF Inv, SafeInv, OwnersOk

LEMMA RunAllCloseSafe ==
  ASSUME Inv, TypeInv', NEW c \in Api, RunAllClose(c) PROVE Safe
<1> DEFINE next == [api[c] EXCEPT !.pc = "plan", !.seen = {}]
<1>1. ApiOk(c) /\ api[c] \in ApiRec /\ api[c].pc = "closeRunAll"
  BY ApiFields DEF Inv, SafeInv, RunAllClose, Serving
<1>2. RunsMoved
  BY <1>1, FailOrphanedMoves DEF RunAllClose, ApiOk, ApiRec
<1>3. next.pc = "plan" /\ next.batch = api[c].batch /\ next.seen = {}
  BY <1>1 DEF ApiRec
<1> HIDE DEF next
<1>4. Goto(c, next) /\ api'[c] = next /\ UNCHANGED <<batches, job, queue, worker, recon>>
  BY ApiAt DEF RunAllClose, next
<1>5. ApiOk(c)'
  BY <1>1, <1>3, <1>4 DEF ApiOk, SeenOk, Early, Late, ScanPcs
<1>6. \A d \in Api : d # c /\ Creating(d) => api[d].batch # next.batch
  BY <1>1, <1>3, SoleCreator DEF Creating, Early
<1> QED
  BY <1>2, <1>4, <1>5, <1>6, ApiMovesOn, BatchesSame

LEMMA RunAllPlanSafe ==
  ASSUME Inv, TypeInv', NEW c \in Api, RunAllPlan(c) PROVE Safe
<1>1. ApiOk(c) /\ api[c] \in ApiRec /\ api[c].pc = "plan"
  BY ApiFields DEF Inv, SafeInv, RunAllPlan, Serving
<1>2. CASE ActiveBatches(batches) # {}
  BY <1>2, ApiEnds, BatchesSame, RunsSame DEF RunAllPlan
<1>3. CASE ActiveBatches(batches) = {}
  <2>1. PICK mode \in Modes :
          Goto(c, [api[c] EXCEPT !.pc = "insert", !.todo = plan_run_all(mode)])
    BY <1>3 DEF RunAllPlan
  <2> DEFINE next == [api[c] EXCEPT !.pc = "insert", !.todo = plan_run_all(mode)]
  <2>2. next.pc = "insert" /\ next.batch = api[c].batch /\ next.seen = api[c].seen
    BY <1>1 DEF ApiRec
  <2> HIDE DEF next
  <2>3. Goto(c, next) /\ api'[c] = next
    BY <2>1, ApiAt DEF next
  <2>4. UNCHANGED <<batches, runs, job, queue, worker, recon>>
    BY DEF RunAllPlan
  <2>5. ApiOk(c)'
    BY <1>1, <2>2, <2>3, <2>4 DEF ApiOk, SeenOk, Early, Late, ScanPcs
  <2>6. \A d \in Api : d # c /\ Creating(d) => api[d].batch # next.batch
    BY <1>1, <2>2, SoleCreator DEF Creating, Early
  <2> QED
    BY <2>3, <2>4, <2>5, <2>6, ApiMovesOn, BatchesSame, RunsSame
<1> QED
  BY <1>2, <1>3
\* A request that creates a batch changes rows and jobs of that batch only.
OnlyOwn(c) ==
  \A a \in Batch : a # api[c].batch =>
    /\ batches'[a] = batches[a]
    /\ \A p \in Profile : runs'[<<a, p>>] = runs[<<a, p>>] /\ job'[<<a, p>>] = job[<<a, p>>]

\* So it disturbs no other request.
LEMMA OwnBatch ==
  ASSUME Inv, NEW c \in Api, Creating(c), OnlyOwn(c)
  PROVE  \A d \in Api : d # c => Undisturbed(d)
<1> SUFFICES ASSUME NEW d \in Api, d # c PROVE Undisturbed(d)
  OBVIOUS
<1>1. ApiOk(d) /\ (Creating(d) => api[d].batch # api[c].batch /\ api[d].batch \in Batch)
  BY SoleCreator, ApiFields DEF Inv, SafeInv, Creating, GoodApi, Early, Late
<1> QED
  BY <1>1 DEF Undisturbed, OnlyOwn, ApiOk, Creating

\* A request that creates a batch takes a step on it.
LEMMA Creates ==
  ASSUME Inv, TypeInv', Step, NEW c \in Api, Creating(c), OnlyOwn(c),
         NEW next, Goto(c, next), ApiOk(c)',
         next.pc \in Early \cup Late => next.batch = api[c].batch,
         UNCHANGED <<worker, recon>>, QueueOk'
  PROVE  Safe
<1>1. api'[c] = next /\ \A d \in Api : d # c => api'[d] = api[d]
  BY ApiAt
<1>2. \A d \in Api : Creating(c)' /\ Creating(d) /\ d # c => api[d].batch # api'[c].batch
  BY <1>1, SoleCreator DEF Creating
<1> QED
  BY <1>1, <1>2, OwnBatch, ApiTakes

LEMMA CreatesQuietly ==
  ASSUME Inv, TypeInv', Step, NEW c \in Api, Creating(c), OnlyOwn(c),
         NEW next, Goto(c, next), ApiOk(c)',
         next.pc \in Early \cup Late => next.batch = api[c].batch,
         UNCHANGED <<queue, worker, recon>>
  PROVE  Safe
<1>1. QueueOk'
  BY QueueKept DEF Step
<1> QED
  BY <1>1, Creates

\* While a batch row is absent so are all its runs.
LEMMA NothingYet ==
  ASSUME Inv, NEW b \in Batch, batches[b].status = "absent"
  PROVE  \A p \in Profile : runs[<<b, p>>] = NoRun /\ job[<<b, p>>] = "none"
<1> SUFFICES ASSUME NEW p \in Profile PROVE runs[<<b, p>>] = NoRun /\ job[<<b, p>>] = "none"
  OBVIOUS
<1>1. <<b, p>> \in BatchRun /\ OwnedOk(b, p) /\ AbsentOk(<<b, p>>)
  BY BatchRunType DEF Inv, SafeInv, RowsOk
<1> QED
  BY <1>1 DEF OwnedOk, AbsentOk

LEMMA NewBatchFields ==
  ASSUME NEW S \in SUBSET Profile, NEW st
  PROVE  /\ NewBatch(S, st).status = st
         /\ NewBatch(S, st).requested = S
         /\ Recorded(NewBatch(S, st)) = {}
  BY DEF NewBatch, NoBatch, Recorded

LEMMA NewRunFields ==
  ASSUME NEW p \in Profile
  PROVE  NewRun(p).status = "pending" /\ NewRun(p).profile = p /\ ~ NewRun(p).task
         /\ NewRun(p).batch = None
  BY DEF NewRun, NoRun

\* The INSERT of a batch row, with or without a first run.
LEMMA InsertStep ==
  ASSUME Inv, NEW b \in Batch, batches[b].status = "absent",
         NEW S \in SUBSET Profile, NEW st, st # "absent",
         batches' = [batches EXCEPT ![b] = NewBatch(S, st)],
         NEW p, UNCHANGED runs \/ (p \in S /\ runs' = [runs EXCEPT ![<<b, p>>] = NewRun(p)]),
         UNCHANGED job
  PROVE  /\ Step
         /\ \A a \in Batch : a # b =>
              /\ batches'[a] = batches[a]
              /\ \A q \in Profile : runs'[<<a, q>>] = runs[<<a, q>>]
<1>1. batches'[b] = NewBatch(S, st) /\ \A a \in Batch : a # b => batches'[a] = batches[a]
  BY DEF Inv, TypeInv, Typed
<1>2. \A r \in Run : r # <<b, p>> => runs'[r] = runs[r]
  BY DEF Inv, TypeInv, Typed
<1>3. p \in S /\ runs' = [runs EXCEPT ![<<b, p>>] = NewRun(p)] => runs'[<<b, p>>] = NewRun(p)
  BY BatchRunType DEF Inv, TypeInv, Typed
<1>4. \A a \in Batch : BatchStep(a)
  BY <1>1, NewBatchFields DEF BatchStep
<1>5. JobStep
  BY DEF JobStep
<1>6. ScansKept
  <2>1. p \in S => <<b, p>> \in BatchRun
    BY BatchRunType
  <2> QED
    BY <1>2, <2>1 DEF ScansKept
<1>7. ASSUME NEW r \in BatchRun PROVE RunStep(r)
  <2>1. r \in Run /\ r[1] \in Batch /\ r[2] \in Profile /\ r = <<r[1], r[2]>>
    BY BatchRunType
  <2>2. CASE runs'[r] = runs[r]
    BY <2>2 DEF RunStep
  <2>3. CASE runs'[r] # runs[r]
    <3>1. r = <<b, p>> /\ p \in S /\ runs'[r] = NewRun(p)
      BY <1>2, <1>3, <2>1, <2>3
    <3>2. r[1] = b /\ r[2] = p /\ runs[r].status = "absent" /\ runs[r].batch = None
          /\ runs[r].task = FALSE
      BY <2>1, <3>1, NothingYet DEF NoRun
    <3>3. runs'[r].status = "pending" /\ runs'[r].profile = p /\ runs'[r].batch = None
      BY <3>1, NewRunFields
    <3>4. batches'[b].status # "absent" /\ p \in batches'[b].requested
      BY <1>1, <3>1, NewBatchFields
    <3> QED
      BY <3>1, <3>2, <3>3, <3>4, AbsentNotTerminal DEF RunStep
  <2> QED
    BY <2>2, <2>3
<1>8. \A a \in Batch : a # b => \A q \in Profile : runs'[<<a, q>>] = runs[<<a, q>>]
  BY <1>2, BatchRunType
<1> QED
  BY <1>1, <1>4, <1>5, <1>6, <1>7, <1>8 DEF Step

LEMMA InsertFields ==
  ASSUME Inv, NEW c \in Api, api[c].pc = "insert"
  PROVE  /\ ApiOk(c) /\ Creating(c) /\ api[c] \in ApiRec
         /\ api[c].batch \in Batch /\ batches[api[c].batch].status = "absent"
         /\ api[c].todo \in SUBSET Profile
  BY ApiFields DEF Inv, SafeInv, ApiOk, Creating, Early, GoodApi, ApiRec

\* The batch row is inserted already closed.
LEMMA InsertsClosed ==
  ASSUME Inv, TypeInv', NEW c \in Api, api[c].pc = "insert",
         NEW st, st # "absent",
         batches' = [batches EXCEPT ![api[c].batch] = NewBatch(api[c].todo, st)],
         Goto(c, IdleApi), UNCHANGED <<runs, job, queue, worker, recon>>
  PROVE  Safe
<1>1. /\ ApiOk(c) /\ Creating(c) /\ api[c].batch \in Batch
      /\ batches[api[c].batch].status = "absent" /\ api[c].todo \in SUBSET Profile
  BY InsertFields
<1>2. Step /\ OnlyOwn(c)
  BY <1>1, InsertStep DEF OnlyOwn
<1>3. ApiOk(c)' /\ IdleApi.pc \notin Early \cup Late
  BY ApiAt, IdleApiOk DEF IdleApi, Early, Late
<1> QED
  BY <1>1, <1>2, <1>3, CreatesQuietly
LEMMA RunAllInsertInvalidSafe ==
  ASSUME Inv, TypeInv', NEW c \in Api, RunAllInsertInvalid(c) PROVE Safe
  BY InsertsClosed DEF RunAllInsertInvalid, Serving

LEMMA RunAllInsertSafe ==
  ASSUME Inv, TypeInv', NEW c \in Api, RunAllInsert(c) PROVE Safe
<1>1. api[c].pc = "insert" /\ UNCHANGED <<job, queue, worker, recon>>
  BY DEF RunAllInsert, Serving
<1>2. CASE ActiveBatches(batches) # {}
  BY <1>1, <1>2, ApiEnds, BatchesSame, RunsSame DEF RunAllInsert
<1>3. CASE ActiveBatches(batches) = {} /\ api[c].todo = {}
  BY <1>1, <1>3, InsertsClosed DEF RunAllInsert
<1>4. CASE ActiveBatches(batches) = {} /\ api[c].todo # {}
  <2>1. /\ ApiOk(c) /\ Creating(c) /\ api[c] \in ApiRec
        /\ api[c].batch \in Batch /\ batches[api[c].batch].status = "absent"
        /\ api[c].todo \in SUBSET Profile
    BY <1>1, InsertFields
  <2>2. PICK b \in Batch, S \in SUBSET Profile, p \in Profile :
          b = api[c].batch /\ S = api[c].todo /\ p = First(S) /\ p \in S
    BY <1>4, <2>1, FirstProfile
  <2> DEFINE r == <<b, p>>
             next == [api[c] EXCEPT !.pc = "enqueue", !.run = r]
  <2>3. /\ batches' = [batches EXCEPT ![b] = NewBatch(S, "running")]
        /\ runs' = [runs EXCEPT ![r] = NewRun(p)]
        /\ Goto(c, next)
    BY <1>4, <2>2 DEF RunAllInsert
  <2>4. Step /\ OnlyOwn(c)
    BY <1>1, <2>1, <2>2, <2>3, InsertStep DEF OnlyOwn
  <2>5. /\ next.pc = "enqueue" /\ next.batch = b /\ next.run = r
        /\ next.todo = S /\ next.seen = api[c].seen
    BY <2>1, <2>2 DEF ApiRec
  <2> HIDE DEF next
  <2>6. api'[c] = next
    BY <2>3, ApiAt
  <2>7. r \in Run /\ batches'[b] = NewBatch(S, "running") /\ runs'[r] = NewRun(p)
        /\ \A q \in Profile : q # p => runs'[<<b, q>>] = runs[<<b, q>>]
    BY <2>3, BatchRunType DEF Inv, TypeInv, Typed
  <2>8. \A q \in Profile : runs[<<b, q>>] = NoRun /\ job[<<b, q>>] = "none"
    BY <2>1, <2>2, NothingYet
  <2>9. \A q \in Profile : q # p => runs'[<<b, q>>].status = "absent"
    BY <2>7, <2>8 DEF NoRun
  <2>10. /\ batches'[b].status = "running" /\ batches'[b].requested = S
         /\ runs'[r].status = "pending" /\ ~ runs'[r].task /\ job'[r] = "none"
    <3>1. batches'[b].status = "running" /\ batches'[b].requested = S
      BY <2>7, NewBatchFields, SMTT(15)
    <3>2. runs'[r].status = "pending" /\ job'[r] = "none"
      BY <1>1, <2>7, <2>8, NewRunFields
    <3>3. ~ NewRun(p).task /\ runs'[r] = NewRun(p)
      BY <2>7, NewRunFields
    <3>4. ~ runs'[r].task
      BY <3>3, Zenon
    <3> QED
      BY <3>1, <3>2, <3>4
  <2>11. TodoOk(c)'
    BY <2>5, <2>6, <2>9, <2>10 DEF TodoOk
  <2>12. CurrentOk(c)'
    <3>1. api'[c].run = r /\ api'[c].batch = b /\ p \in api'[c].todo
      BY <2>2, <2>5, <2>6
    <3> HIDE DEF r
    <3> QED
      BY <2>10, <3>1, Zenon DEF CurrentOk, r
  <2>13. \A q \in api[c].seen : q \in BatchRun => runs'[q].task
    BY <2>1, <2>4, SeenKept DEF ApiOk
  <2>14. ApiOk(c)'
    BY <2>5, <2>6, <2>11, <2>12, <2>13 DEF ApiOk, SeenOk, Early, Late, ScanPcs
  <2> QED
    BY <1>1, <2>1, <2>2, <2>3, <2>4, <2>5, <2>14, CreatesQuietly
<1> QED
  BY <1>2, <1>3, <1>4

LEMMA LateFields ==
  ASSUME Inv, NEW c \in Api, api[c].pc \in Late
  PROVE  /\ ApiOk(c) /\ Creating(c) /\ api[c] \in ApiRec /\ TodoOk(c)
         /\ api[c].batch \in Batch /\ batches[api[c].batch].status # "absent"
         /\ api[c].todo \in SUBSET Profile
         /\ api[c].todo \subseteq batches[api[c].batch].requested
         /\ api[c].pc = "create" => api[c].todo # {}
         /\ api[c].pc # "create" => CurrentOk(c)
  BY ApiFields DEF Inv, SafeInv, ApiOk, TodoOk, Creating, Late, GoodApi, ApiRec

\* A step that changes the row and the job of one run of the request's batch.
LEMMA OneRunStep ==
  ASSUME Inv, NEW c \in Api, Creating(c), NEW p \in Profile, api[c].batch \in Batch,
         RunStep(<<api[c].batch, p>>), BatchStep(api[c].batch), JobStep,
         \A a \in Batch : a # api[c].batch => batches'[a] = batches[a],
         \A r \in Run : r # <<api[c].batch, p>> => runs'[r] = runs[r] /\ job'[r] = job[r]
  PROVE  Step /\ OnlyOwn(c)
<1>1. PICK b \in Batch : b = api[c].batch
  OBVIOUS
<1>2. \A r \in BatchRun : RunStep(r)
  <2> SUFFICES ASSUME NEW r \in BatchRun, r # <<b, p>> PROVE RunStep(r)
    BY <1>1
  <2>1. r \in Run /\ runs'[r] = runs[r] /\ job'[r] = job[r]
    BY <1>1, BatchRunType
  <2> QED
    BY <2>1 DEF RunStep
<1>3. \A a \in Batch : BatchStep(a)
  BY DEF BatchStep
<1>4. ScansKept
  BY BatchRunType DEF ScansKept
<1>5. OnlyOwn(c)
  BY BatchRunType DEF OnlyOwn
<1> QED
  BY <1>2, <1>3, <1>4, <1>5 DEF Step

\* The batch row stays or fails.
LEMMA FailBatchStep ==
  ASSUME Inv, NEW b \in Batch, batches[b].status # "absent", UNCHANGED batches \/ FailBatch(b)
  PROVE  BatchStep(b) /\ \A a \in Batch : a # b => batches'[a] = batches[a]
<1>1. batches[b] \in BatchRec
  BY DEF Inv, TypeInv, Typed
<1>2. CASE FailBatch(b)
  <2>1. batches'[b] = [batches[b] EXCEPT !.status = "failed"]
        /\ \A a \in Batch : a # b => batches'[a] = batches[a]
    BY <1>2 DEF FailBatch, Inv, TypeInv, Typed
  <2>2. /\ batches'[b].status = "failed" /\ batches'[b].requested = batches[b].requested
        /\ batches'[b].completed = batches[b].completed /\ batches'[b].failed = batches[b].failed
    BY <1>1, <2>1 DEF BatchRec
  <2> QED
    BY <2>1, <2>2 DEF BatchStep, Recorded
<1>3. CASE UNCHANGED batches
  BY <1>3 DEF BatchStep
<1> QED
  BY <1>2, <1>3

LEMMA RunAllCreateInvalidSafe ==
  ASSUME Inv, TypeInv', NEW c \in Api, RunAllCreateInvalid(c) PROVE Safe
<1>1. api[c].pc \in Late
  BY DEF RunAllCreateInvalid, Serving, Late
<1>2. PICK b \in Batch : b = api[c].batch /\ batches[b].status # "absent"
  BY <1>1, LateFields
<1>3. BatchStep(b) /\ \A a \in Batch : a # b => batches'[a] = batches[a]
  BY <1>2, FailBatchStep DEF RunAllCreateInvalid
<1>4. BatchesKept
  BY <1>2, <1>3 DEF BatchesKept, BatchStep
<1> QED
  BY <1>4, ApiEnds, RunsSame DEF RunAllCreateInvalid
LEMMA RunAllCreateSafe ==
  ASSUME Inv, TypeInv', NEW c \in Api, RunAllCreate(c) PROVE Safe
<1>1. api[c].pc = "create" /\ api[c].pc \in Late /\ UNCHANGED <<batches, job, queue, worker, recon>>
  BY DEF RunAllCreate, Serving, Late
<1>2. /\ ApiOk(c) /\ Creating(c) /\ api[c] \in ApiRec /\ TodoOk(c)
      /\ api[c].batch \in Batch /\ batches[api[c].batch].status # "absent"
      /\ api[c].todo \in SUBSET Profile /\ api[c].todo # {}
      /\ api[c].todo \subseteq batches[api[c].batch].requested
  BY <1>1, LateFields
<1>3. PICK b \in Batch, S \in SUBSET Profile, p \in Profile :
        b = api[c].batch /\ S = api[c].todo /\ p = First(S) /\ p \in S
  BY <1>2, FirstProfile
<1> DEFINE r == <<b, p>>
           next == [api[c] EXCEPT !.pc = "enqueue", !.run = r]
<1>4. runs' = [runs EXCEPT ![r] = NewRun(p)] /\ Goto(c, next)
  BY <1>3 DEF RunAllCreate
<1>5. r \in Run /\ r \in BatchRun /\ r[1] = b /\ r[2] = p
  BY BatchRunType
<1>6. runs'[r] = NewRun(p) /\ \A q \in Run : q # r => runs'[q] = runs[q]
  BY <1>4, <1>5 DEF Inv, TypeInv, Typed
<1>7. \A q \in S : runs[<<b, q>>].status = "absent"
  BY <1>1, <1>2, <1>3 DEF TodoOk
<1>8. runs[r] = NoRun /\ job[r] = "none"
  BY <1>3, <1>5, <1>7 DEF Inv, SafeInv, RowsOk, AbsentOk
<1>9. runs[r].status = "absent" /\ runs[r].batch = None /\ runs[r].task = FALSE
  BY <1>8 DEF NoRun
<1>10. runs'[r].status = "pending" /\ runs'[r].profile = p /\ runs'[r].batch = None
  BY <1>6, NewRunFields
<1>11. RunStep(r)
  BY <1>1, <1>2, <1>3, <1>5, <1>9, <1>10, AbsentNotTerminal DEF RunStep
<1>12. Step /\ OnlyOwn(c)
  <2>1. BatchStep(api[c].batch) /\ JobStep
    BY <1>1, <1>2 DEF BatchStep, JobStep
  <2> QED
    BY <1>1, <1>2, <1>3, <1>6, <1>11, <2>1, OneRunStep
<1>13. /\ next.pc = "enqueue" /\ next.batch = b /\ next.run = r
       /\ next.todo = S /\ next.seen = api[c].seen
  BY <1>2, <1>3 DEF ApiRec
<1> HIDE DEF next
<1>14. api'[c] = next
  BY <1>4, ApiAt
<1>15. TodoOk(c)'
  <2>1. \A q \in S : <<b, q>> # r => runs'[<<b, q>>].status = "absent"
    BY <1>6, <1>7, BatchRunType
  <2>2. batches'[b].status # "absent" /\ S \subseteq batches'[b].requested
    BY <1>1, <1>2, <1>3
  <2> HIDE DEF r
  <2> QED
    BY <1>13, <1>14, <2>1, <2>2 DEF TodoOk
<1>16. CurrentOk(c)'
  <2>1. api'[c].run = r /\ api'[c].batch = b /\ p \in api'[c].todo
    BY <1>3, <1>13, <1>14
  <2>2. ~ NewRun(p).task /\ runs'[r] = NewRun(p)
    BY <1>6, NewRunFields
  <2>3. ~ runs'[r].task
    BY <2>2, Zenon
  <2>4. job'[r] = "none"
    BY <1>1, <1>8
  <2> HIDE DEF r
  <2> QED
    BY <1>10, <2>1, <2>3, <2>4, Zenon DEF CurrentOk, r
<1>17. \A q \in api[c].seen : q \in BatchRun => runs'[q].task
  BY <1>2, <1>12, SeenKept DEF ApiOk
<1>18. ApiOk(c)'
  BY <1>13, <1>14, <1>15, <1>16, <1>17 DEF ApiOk, SeenOk, Early, Late, ScanPcs
<1> QED
  BY <1>1, <1>2, <1>3, <1>4, <1>12, <1>13, <1>18, CreatesQuietly

\* The run a request is enqueuing.
LEMMA CurrentFields ==
  ASSUME Inv, NEW c \in Api, api[c].pc \in {"enqueue", "mark"}
  PROVE  \E p \in Profile :
           /\ api[c].run = <<api[c].batch, p>> /\ p \in api[c].todo
           /\ runs[api[c].run] \in RunRec
           /\ runs[api[c].run].status = "pending" /\ runs[api[c].run].profile = p
           /\ runs[api[c].run].batch \in {None, api[c].batch}
           /\ api[c].pc = "enqueue" => job[api[c].run] = "none"
<1>1. api[c].pc \in Late /\ api[c].pc # "create"
  BY DEF Late
<1>2. CurrentOk(c) /\ api[c].todo \in SUBSET Profile /\ api[c].batch \in Batch
  BY <1>1, LateFields
<1>3. PICK p \in Profile : p \in api[c].todo /\ api[c].run = <<api[c].batch, p>>
  BY <1>2 DEF CurrentOk
<1>4. api[c].run \in Run /\ runs[api[c].run] \in RunRec
  BY <1>2, <1>3, BatchRunType DEF Inv, TypeInv, Typed, GoodRun
<1>5. OwnedOk(api[c].batch, p)
  BY <1>2 DEF Inv, SafeInv, RowsOk
<1> QED
  BY <1>2, <1>3, <1>4, <1>5 DEF CurrentOk, OwnedOk

LEMMA RunAllEnqueueSafe ==
  ASSUME Inv, TypeInv', NEW c \in Api, RunAllEnqueue(c) PROVE Safe
<1>1. api[c].pc = "enqueue" /\ api[c].pc \in Late /\ UNCHANGED <<batches, runs, worker, recon>>
  BY DEF RunAllEnqueue, Serving, Late
<1>2. /\ ApiOk(c) /\ Creating(c) /\ api[c] \in ApiRec /\ TodoOk(c) /\ CurrentOk(c)
      /\ api[c].batch \in Batch
  BY <1>1, LateFields
<1>3. PICK p \in Profile : /\ api[c].run = <<api[c].batch, p>>
                           /\ runs[api[c].run].status = "pending"
  BY <1>1, CurrentFields
<1>4. PICK r \in Run : r = api[c].run /\ r = <<api[c].batch, p>> /\ runs[r].status = "pending"
  BY <1>2, <1>3, BatchRunType
<1>5. job'[r] = "queued" /\ \A q \in Run : q # r => job'[q] = job[q]
  BY <1>4 DEF RunAllEnqueue, Enqueue, Inv, TypeInv, Typed
<1>6. JobStep
  BY <1>5 DEF JobStep
<1>7. Step /\ OnlyOwn(c)
  <2>1. RunStep(r)
    BY <1>1, <1>4 DEF RunStep
  <2>2. BatchStep(api[c].batch)
    BY <1>1 DEF BatchStep
  <2> QED
    BY <1>1, <1>2, <1>3, <1>4, <1>5, <1>6, <2>1, <2>2, OneRunStep
<1> DEFINE next == [api[c] EXCEPT !.pc = "mark"]
<1>8. /\ next.pc = "mark" /\ next.batch = api[c].batch /\ next.run = api[c].run
      /\ next.todo = api[c].todo /\ next.seen = api[c].seen
  BY <1>2 DEF ApiRec
<1> HIDE DEF next
<1>9. Goto(c, next) /\ api'[c] = next
  BY ApiAt DEF RunAllEnqueue, next
<1>10. TodoOk(c)'
  BY <1>1, <1>2, <1>8, <1>9 DEF TodoOk
<1>11. CurrentOk(c)'
  BY <1>1, <1>2, <1>8, <1>9 DEF CurrentOk
<1>12. ApiOk(c)'
  BY <1>1, <1>2, <1>8, <1>9, <1>10, <1>11 DEF ApiOk, SeenOk, Early, Late, ScanPcs
<1>13. QueueOk'
  <2>1. queue \in Seq(Run) /\ queue' = Append(queue, r)
    BY <1>4 DEF RunAllEnqueue, Enqueue, Inv, TypeInv, Typed
  <2>2. \A i \in 1 .. Len(queue') : IF i = Len(queue) + 1 THEN queue'[i] = r
                                    ELSE i \in 1 .. Len(queue) /\ queue'[i] = queue[i]
                                         /\ queue[i] \in Run
    BY <2>1
  <2> QED
    BY <1>5, <1>6, <2>2 DEF QueueOk, JobStep, Inv, SafeInv
<1> QED
  BY <1>1, <1>2, <1>7, <1>8, <1>9, <1>12, <1>13, Creates

LEMMA RunAllEnqueueFailsSafe ==
  ASSUME Inv, TypeInv', NEW c \in Api, RunAllEnqueueFails(c) PROVE Safe
<1>1. api[c].pc = "enqueue" /\ api[c].pc \in Late /\ UNCHANGED <<job, queue, worker, recon>>
  BY DEF RunAllEnqueueFails, Serving, Late
<1>2. Creating(c) /\ api[c].batch \in Batch /\ batches[api[c].batch].status # "absent"
  BY <1>1, LateFields
<1>3. PICK b \in Batch, p \in Profile :
        /\ b = api[c].batch /\ api[c].run = <<b, p>>
        /\ runs[<<b, p>>] \in RunRec /\ runs[<<b, p>>].status = "pending"
  BY <1>1, <1>2, CurrentFields
<1> DEFINE r == <<b, p>>
<1>4. r \in Run /\ r[1] = b
  BY BatchRunType
<1>5. runs'[r] = [runs[r] EXCEPT !.batch = b] /\ \A q \in Run : q # r => runs'[q] = runs[q]
  BY <1>3, <1>4 DEF RunAllEnqueueFails, Inv, TypeInv, Typed
<1>6. /\ runs'[r].batch = b /\ runs'[r].status = "pending"
      /\ runs'[r].profile = runs[r].profile /\ runs'[r].task = runs[r].task
  BY <1>3, <1>5 DEF RunRec
<1>7. RunStep(r)
  BY <1>3, <1>4, <1>6, AbsentNotTerminal DEF RunStep
<1>8. BatchStep(b) /\ \A a \in Batch : a # b => batches'[a] = batches[a]
  BY <1>2, <1>3, FailBatchStep DEF RunAllEnqueueFails
<1>9. JobStep
  BY <1>1 DEF JobStep
<1>10. Step /\ OnlyOwn(c)
  BY <1>1, <1>2, <1>3, <1>5, <1>7, <1>8, <1>9, OneRunStep
<1>11. Goto(c, IdleApi) /\ ApiOk(c)' /\ IdleApi.pc \notin Early \cup Late
  BY ApiAt, IdleApiOk DEF RunAllEnqueueFails, IdleApi, Early, Late
<1> QED
  BY <1>1, <1>2, <1>10, <1>11, CreatesQuietly

LEMMA RunAllMarkSafe ==
  ASSUME Inv, TypeInv', NEW c \in Api, RunAllMark(c) PROVE Safe
<1>1. api[c].pc = "mark" /\ api[c].pc \in Late /\ UNCHANGED <<batches, job, queue, worker, recon>>
  BY DEF RunAllMark, Serving, Late
<1>2. /\ ApiOk(c) /\ Creating(c) /\ api[c] \in ApiRec /\ TodoOk(c)
      /\ api[c].batch \in Batch /\ batches[api[c].batch].status # "absent"
      /\ api[c].todo \in SUBSET Profile
  BY <1>1, LateFields
<1>3. PICK b \in Batch, p \in Profile :
        /\ b = api[c].batch /\ api[c].run = <<b, p>>
        /\ runs[<<b, p>>] \in RunRec /\ runs[<<b, p>>].status = "pending"
        /\ runs[<<b, p>>].profile = p
  BY <1>1, <1>2, CurrentFields
<1> DEFINE r == <<b, p>>
           todo == api[c].todo \ {p}
           next == IF todo = {} THEN IdleApi
                   ELSE [api[c] EXCEPT !.pc = "create", !.run = NoId, !.todo = todo]
<1>4. r \in Run /\ r[1] = b
  BY BatchRunType
<1>5. /\ runs'[r] = [mark_run_queued(runs[r]) EXCEPT !.batch = b]
      /\ \A q \in Run : q # r => runs'[q] = runs[q]
  BY <1>3, <1>4 DEF RunAllMark, Inv, TypeInv, Typed
<1>6. /\ runs'[r].batch = b /\ runs'[r].status = "queued" /\ runs'[r].task
      /\ runs'[r].profile = runs[r].profile
  BY <1>3, <1>5 DEF RunRec, mark_run_queued
<1>7. RunStep(r)
  BY <1>3, <1>4, <1>6, AbsentNotTerminal DEF RunStep
<1>8. BatchStep(b) /\ JobStep
  BY <1>1 DEF BatchStep, JobStep
<1>9. Step /\ OnlyOwn(c)
  BY <1>1, <1>2, <1>3, <1>5, <1>7, <1>8, OneRunStep
<1>10. Goto(c, next) /\ api'[c] = next
  BY <1>3, ApiAt DEF RunAllMark
<1>11. CASE todo = {}
  <2>1. Goto(c, IdleApi) /\ ApiOk(c)' /\ IdleApi.pc \notin Early \cup Late
    BY <1>10, <1>11, IdleApiOk DEF IdleApi, Early, Late
  <2> QED
    BY <1>1, <1>2, <1>9, <2>1, CreatesQuietly
<1>12. CASE todo # {}
  <2>1. /\ next.pc = "create" /\ next.batch = b /\ next.todo = todo
        /\ next.seen = api[c].seen
    BY <1>2, <1>3, <1>12 DEF ApiRec
  <2>2. \A q \in todo : runs'[<<b, q>>].status = "absent"
    <3> SUFFICES ASSUME NEW q \in todo PROVE runs'[<<b, q>>].status = "absent"
      OBVIOUS
    <3>1. <<b, q>> # r /\ <<b, q>> \in Run
      BY <1>2, BatchRunType
    <3>2. runs[<<b, q>>].status = "absent"
      BY <1>2, <1>3, <3>1 DEF TodoOk
    <3> QED
      BY <1>5, <3>1, <3>2
  <2>3. batches'[b].status # "absent" /\ todo \subseteq batches'[b].requested
    BY <1>1, <1>2, <1>3 DEF TodoOk
  <2> HIDE DEF next, todo
  <2>4. TodoOk(c)'
    BY <1>10, <2>1, <2>2, <2>3 DEF TodoOk
  <2>5. \A q \in api[c].seen : q \in BatchRun => runs'[q].task
    BY <1>2, <1>9, SeenKept DEF ApiOk
  <2>6. ApiOk(c)'
    BY <1>10, <2>1, <2>4, <2>5 DEF ApiOk, SeenOk, Early, Late, ScanPcs
  <2> QED
    BY <1>1, <1>2, <1>3, <1>9, <1>10, <2>1, <2>6, CreatesQuietly
<1> QED
  BY <1>11, <1>12
-----------------------------------------------------------------------------
(* Scans touch no batch run, and cancelling only sets a flag.              *)

LEMMA ScanBeginSafe ==
  ASSUME Inv, TypeInv', NEW c \in Api, NEW p \in Profile, ScanBegin(c, p) PROVE Safe
<1> DEFINE r == CHOOSE x \in FreeScans : TRUE
           request == [IdleApi EXCEPT !.run = r, !.profile = p]
           next == IF active_run_for_evidence(runs, p)
                   THEN [request EXCEPT !.pc = "closeScan", !.seen = RunningWithTask]
                   ELSE [request EXCEPT !.pc = "createScan"]
<1>1. r \in FreeScans
  BY DEF ScanBegin
<1>2. r \notin BatchRun
  BY <1>1, BatchRunType DEF FreeScans
<1> HIDE DEF r
<1>3. /\ next.pc \in {"closeScan", "createScan"} /\ next.run = r
      /\ next.seen \in {{}, RunningWithTask}
  BY DEF IdleApi
<1> HIDE DEF next
<1>4. Goto(c, next) /\ api'[c] = next /\ UNCHANGED <<batches, runs, job, queue, worker, recon>>
  BY ApiAt DEF ScanBegin, next, r
<1>5. \A q \in next.seen : q \in BatchRun => runs'[q].task
  BY <1>3, <1>4, SeenNow
<1>6. ApiOk(c)'
  BY <1>2, <1>3, <1>4, <1>5 DEF ApiOk, SeenOk, Early, Late, ScanPcs
<1>7. next.pc \notin Early \cup Late
  BY <1>3 DEF Early, Late
<1> QED
  BY <1>4, <1>6, <1>7, ApiMovesOn, BatchesSame, RunsSame

LEMMA ScanFields ==
  ASSUME Inv, NEW c \in Api, api[c].pc \in ScanPcs
  PROVE  /\ ApiOk(c) /\ api[c] \in ApiRec /\ api[c].run \in Run
         /\ api[c].run \notin BatchRun /\ runs[api[c].run] \in RunRec
         /\ runs[api[c].run].batch = None
<1>1. ApiOk(c) /\ api[c] \in ApiRec /\ api[c].run \in Run /\ api[c].run \notin BatchRun
  BY ApiFields DEF Inv, SafeInv, ApiOk, ScanPcs, GoodApi
<1>2. runs[api[c].run] \in RunRec /\ runs[api[c].run].batch = None
  BY <1>1 DEF Inv, SafeInv, RowsOk, ScansOk, TypeInv, Typed, GoodRun
<1> QED
  BY <1>1, <1>2

LEMMA ScanCloseSafe ==
  ASSUME Inv, TypeInv', NEW c \in Api, ScanClose(c) PROVE Safe
<1>1. api[c].pc \in ScanPcs
  BY DEF ScanClose, Serving, ScanPcs
<1>2. ApiOk(c) /\ api[c] \in ApiRec /\ api[c].run \notin BatchRun
  BY <1>1, ScanFields
<1> DEFINE next == [api[c] EXCEPT !.pc = "createScan", !.seen = {}]
<1>3. PICK lost : /\ fail_orphaned(api[c].seen, lost)
                  /\ Goto(c, IdleApi) \/ Goto(c, next)
  BY DEF ScanClose
<1>4. RunsMoved
  BY <1>2, <1>3, FailOrphanedMoves DEF ApiOk, ApiRec
<1>5. UNCHANGED <<batches, job, queue, worker, recon>>
  BY DEF ScanClose
<1>6. CASE Goto(c, IdleApi)
  BY <1>4, <1>5, <1>6, ApiEnds, BatchesSame
<1>7. CASE Goto(c, next)
  <2>1. next.pc = "createScan" /\ next.run = api[c].run /\ next.seen = {}
    BY <1>2 DEF ApiRec
  <2> HIDE DEF next
  <2>2. ApiOk(c)'
    BY <1>2, <1>7, <2>1, ApiAt DEF ApiOk, SeenOk, Early, Late, ScanPcs
  <2>3. next.pc \notin Early \cup Late
    BY <2>1 DEF Early, Late
  <2> QED
    BY <1>4, <1>5, <1>7, <2>2, <2>3, ApiMovesOn, BatchesSame
<1> QED
  BY <1>3, <1>6, <1>7

\* A request writes the row of its own scan.
LEMMA ScanWrites ==
  ASSUME Inv, NEW r \in Run, r \notin BatchRun, NEW row, row.batch = None,
         runs' = [runs EXCEPT ![r] = row]
  PROVE  RunsMoved
<1>1. runs'[r] = row /\ \A q \in Run : q # r => runs'[q] = runs[q]
  BY DEF Inv, TypeInv, Typed
<1>2. runs[r].batch = None
  BY DEF Inv, SafeInv, RowsOk, ScansOk
<1> QED
  BY <1>1, <1>2, BatchRunType DEF RunsMoved, ScansKept

LEMMA ScanCreateSafe ==
  ASSUME Inv, TypeInv', NEW c \in Api, ScanCreate(c) PROVE Safe
<1>1. api[c].pc = "createScan" /\ api[c].pc \in ScanPcs
  BY DEF ScanCreate, Serving, ScanPcs
<1>2. /\ ApiOk(c) /\ api[c] \in ApiRec /\ api[c].run \in Run /\ api[c].run \notin BatchRun
      /\ api[c].profile \in Profile
  BY <1>1, ScanFields, ApiFields DEF Inv, GoodApi
<1>3. NewRun(api[c].profile).batch = None
  BY <1>2, NewRunFields
<1>4. RunsMoved
  BY <1>2, <1>3, ScanWrites DEF ScanCreate
<1> DEFINE next == [api[c] EXCEPT !.pc = "enqueueScan"]
<1>5. next.pc = "enqueueScan" /\ next.run = api[c].run /\ next.seen = api[c].seen
  BY <1>2 DEF ApiRec
<1> HIDE DEF next
<1>6. Goto(c, next) /\ api'[c] = next /\ UNCHANGED <<batches, job, queue, worker, recon>>
  BY ApiAt DEF ScanCreate, next
<1>7. \A q \in api[c].seen : q \in BatchRun => runs'[q].task
  BY <1>2, <1>4 DEF RunsMoved, Moves, ApiOk, SeenOk
<1>8. ApiOk(c)'
  BY <1>2, <1>5, <1>6, <1>7 DEF ApiOk, SeenOk, Early, Late, ScanPcs
<1>9. next.pc \notin Early \cup Late
  BY <1>5 DEF Early, Late
<1> QED
  BY <1>4, <1>6, <1>8, <1>9, ApiMovesOn, BatchesSame

LEMMA ScanEnqueueSafe ==
  ASSUME Inv, TypeInv', NEW c \in Api, ScanEnqueue(c) PROVE Safe
<1>1. api[c].pc \in ScanPcs
  BY DEF ScanEnqueue, Serving, ScanPcs
<1>2. PICK r \in Run : r = api[c].run /\ r \notin BatchRun
  BY <1>1, ScanFields
<1>3. ApiOk(c) /\ api[c] \in ApiRec
  BY <1>1, ScanFields
<1>4. job'[r] = "queued" /\ \A q \in Run : q # r => job'[q] = job[q]
  BY <1>2 DEF ScanEnqueue, Enqueue, Inv, TypeInv, Typed
<1>5. JobStep /\ JobSame
  BY <1>2, <1>4, BatchRunType DEF JobStep, JobSame
<1> DEFINE next == [api[c] EXCEPT !.pc = "markScan"]
<1>6. next.pc = "markScan" /\ next.run = api[c].run /\ next.seen = api[c].seen
  BY <1>3 DEF ApiRec
<1> HIDE DEF next
<1>7. Goto(c, next) /\ api'[c] = next /\ UNCHANGED <<batches, runs, worker, recon>>
  BY ApiAt DEF ScanEnqueue, next
<1>8. ApiOk(c)'
  BY <1>2, <1>3, <1>6, <1>7 DEF ApiOk, SeenOk, Early, Late, ScanPcs
<1>9. next.pc \notin Early \cup Late
  BY <1>6 DEF Early, Late
<1>10. QueueOk'
  <2>1. queue \in Seq(Run) /\ queue' = Append(queue, r)
    BY <1>2 DEF ScanEnqueue, Enqueue, Inv, TypeInv, Typed
  <2>2. \A i \in 1 .. Len(queue') : IF i = Len(queue) + 1 THEN queue'[i] = r
                                    ELSE i \in 1 .. Len(queue) /\ queue'[i] = queue[i]
                                         /\ queue[i] \in Run
    BY <2>1
  <2> QED
    BY <1>4, <1>5, <2>2 DEF QueueOk, JobStep, Inv, SafeInv
<1> QED
  BY <1>5, <1>7, <1>8, <1>9, <1>10, ApiMoves, BatchesSame, RunsSame

LEMMA ScanEnqueueFailsSafe ==
  ASSUME Inv, TypeInv', NEW c \in Api, ScanEnqueueFails(c) PROVE Safe
<1>1. api[c].pc \in ScanPcs
  BY DEF ScanEnqueueFails, Serving, ScanPcs
<1>2. PICK r \in Run : r = api[c].run /\ r \notin BatchRun /\ runs[r] \in RunRec
                       /\ runs[r].batch = None
  BY <1>1, ScanFields
<1> DEFINE row == [runs[r] EXCEPT !.status = "failed"]
<1>3. row.batch = None
  BY <1>2 DEF RunRec
<1>4. runs' = [runs EXCEPT ![r] = row]
  BY <1>2 DEF ScanEnqueueFails
<1> HIDE DEF row
<1>5. RunsMoved
  BY <1>2, <1>3, <1>4, ScanWrites
<1> QED
  BY <1>5, ApiEnds, BatchesSame DEF ScanEnqueueFails

LEMMA ScanMarkSafe ==
  ASSUME Inv, TypeInv', NEW c \in Api, ScanMark(c) PROVE Safe
<1>1. api[c].pc \in ScanPcs
  BY DEF ScanMark, Serving, ScanPcs
<1>2. PICK r \in Run : r = api[c].run /\ r \notin BatchRun /\ runs[r] \in RunRec
                       /\ runs[r].batch = None
  BY <1>1, ScanFields
<1> DEFINE row == mark_run_queued(runs[r])
<1>3. row.batch = None
  BY <1>2 DEF RunRec, mark_run_queued
<1>4. runs' = [runs EXCEPT ![r] = row]
  BY <1>2 DEF ScanMark
<1> HIDE DEF row
<1>5. RunsMoved
  BY <1>2, <1>3, <1>4, ScanWrites
<1> QED
  BY <1>5, ApiEnds, BatchesSame DEF ScanMark

LEMMA CancelReadSafe ==
  ASSUME Inv, TypeInv', NEW c \in Api, NEW b \in Batch, CancelRead(c, b) PROVE Safe
<1> DEFINE next == [IdleApi EXCEPT !.pc = "cancel", !.batch = b]
<1>1. next.pc = "cancel" /\ next.seen = {}
  BY DEF IdleApi
<1> HIDE DEF next
<1>2. Goto(c, next) /\ api'[c] = next
  BY ApiAt DEF CancelRead, next
<1>3. ApiOk(c)' /\ next.pc \notin Early \cup Late
  BY <1>1, <1>2 DEF ApiOk, SeenOk, Early, Late, ScanPcs
<1> QED
  BY <1>2, <1>3, ApiMovesOn, BatchesSame, RunsSame DEF CancelRead

LEMMA CancelBatchSafe ==
  ASSUME Inv, TypeInv', NEW c \in Api, cancel_batch(c) PROVE Safe
<1>1. PICK b \in Batch : b = api[c].batch
  BY ApiFields DEF cancel_batch, Serving, Inv, GoodApi
<1>2. batches[b] \in BatchRec
  BY DEF Inv, TypeInv, Typed
<1>3. batches'[b] = [batches[b] EXCEPT !.cancel = TRUE]
      /\ \A a \in Batch : a # b => batches'[a] = batches[a]
  BY <1>1 DEF cancel_batch, Inv, TypeInv, Typed
<1>4. /\ batches'[b].status = batches[b].status /\ batches'[b].requested = batches[b].requested
      /\ batches'[b].completed = batches[b].completed /\ batches'[b].failed = batches[b].failed
  BY <1>2, <1>3 DEF BatchRec
<1>5. BatchesKept
  BY <1>3, <1>4 DEF BatchesKept, BatchStep, Recorded
<1> QED
  BY <1>5, ApiEnds, RunsSame DEF cancel_batch

-----------------------------------------------------------------------------
(* The theorems.                                                           *)

LEMMA SafeInit == Init => SafeInv
<1> SUFFICES ASSUME Init PROVE SafeInv
  OBVIOUS
<1>1. \A r \in Run : runs[r] = NoRun /\ job[r] = "none"
  BY DEF Init
<1>2. \A b \in Batch : batches[b].status = "absent" /\ Recorded(batches[b]) = {}
  BY DEF Init, NoBatch, Recorded
<1>3. RowsOk
  <2>1. \A r \in BatchRun : AbsentOk(r)
    BY <1>1, BatchRunType DEF AbsentOk
  <2>2. \A r \in Run : runs[r].status = "absent" /\ runs[r].batch = None
    BY <1>1 DEF NoRun
  <2>3. \A b \in Batch : \A p \in Profile : OwnedOk(b, p)
    BY <2>2, BatchRunType DEF OwnedOk
  <2> QED
    BY <1>2, <2>1, <2>2, <2>3 DEF RowsOk, ScansOk, RecordedRunsEnded
<1>4. \A c \in Api : ApiOk(c)
  BY DEF Init, ApiOk, IdleApi, Early, Late, ScanPcs, SeenOk
<1>5. OwnersOk
  BY DEF Init, OwnersOk, Creating, IdleApi, Early, Late
<1>6. \A w \in Worker : WorkerOk(w)
  BY DEF Init, WorkerOk, IdleWorker, SeenOk, Executing
<1>7. ReconOk /\ QueueOk
  BY DEF Init, ReconOk, QueueOk, Up
<1> QED
  BY <1>3, <1>4, <1>5, <1>6, <1>7 DEF SafeInv

LEMMA SafeNext == Inv /\ [Next]_vars => Safe
<1> SUFFICES ASSUME Inv, [Next]_vars PROVE Safe
  OBVIOUS
<1>0. TypeInv'
  BY TypeNext DEF Inv
<1>1. ASSUME NEW c \in Api, ApiBegin(c) PROVE Safe
  BY <1>0, <1>1, RunAllBeginSafe, ScanBeginSafe, CancelReadSafe DEF ApiBegin
<1>2. ASSUME NEW c \in Api, ApiStep(c) PROVE Safe
  BY <1>0, <1>2, RunAllCloseSafe, RunAllPlanSafe, RunAllInsertSafe, RunAllCreateSafe,
     RunAllEnqueueSafe, RunAllMarkSafe, ScanCloseSafe, ScanCreateSafe,
     ScanEnqueueSafe, ScanMarkSafe, CancelBatchSafe DEF ApiStep
<1>3. ASSUME NEW c \in Api, ApiError(c) PROVE Safe
  BY <1>0, <1>3, RunAllInsertInvalidSafe, RunAllCreateInvalidSafe, RunAllEnqueueFailsSafe,
     ScanEnqueueFailsSafe DEF ApiError
<1>4. ASSUME NEW w \in Worker, WorkerStep(w) \/ WorkerCrash(w) PROVE Safe
  BY <1>0, <1>4, WorkerTakeSafe, WorkerCloseSafe, WorkerStartSafe, WorkerTimeoutSafe,
     WorkerFinishSafe, WorkerAdvanceSafe, WorkerCommitSafe, WorkerCrashSafe DEF WorkerStep
<1>5. ASSUME Reconcile PROVE Safe
  BY <1>0, <1>5, ReconcileReadSafe, ReconcileCommitSafe DEF Reconcile
<1>6. CASE UNCHANGED vars
  <2>1. BatchesKept /\ RunsMoved /\ JobSame
    BY <1>6, BatchesSame, RunsSame, JobUnchanged DEF vars
  <2>2. ReconOk'
    BY <1>6, <2>1, RunsMove, OtherRecon DEF vars
  <2> QED
    BY <1>0, <1>6, <2>1, <2>2, OthersKept DEF vars
<1> QED
  BY <1>0, <1>1, <1>2, <1>3, <1>4, <1>5, <1>6, RqCleanupSafe, BackendCrashSafe DEF Next

\* The inductive invariant holds in every reachable state.
THEOREM SafetyInvariant == Spec => []Inv
<1>1. Init => Inv
  BY TypeInit, SafeInit DEF Inv
<1>2. Inv /\ [Next]_vars => Inv'
  BY TypeNext, SafeNext DEF Inv, Safe
<1> QED
  BY <1>1, <1>2, PTL DEF Spec

\* For any number of workers, requests, faults and restarts: a batch records a
\* profile only when its own run of that profile has ended.
THEOREM RecordsAreOfEndedRuns == Spec => []RecordedRunsEnded
<1>1. Inv => RecordedRunsEnded
  BY DEF Inv, SafeInv, RowsOk
<1> QED
  BY <1>1, SafetyInvariant, PTL

\* For any number of workers, requests, faults and restarts: a batch run that
\* ended is never active again.
THEOREM EndedBatchRunsStayEnded == Spec => BatchRunStaysEnded
<1>1. Inv /\ [Next]_vars =>
        [\A r \in Batch \X Profile :
           runs[r].status \in TERMINAL_STATUSES => runs'[r].status \in TERMINAL_STATUSES]_vars
  BY SafeNext DEF Safe, Step, RunStep, BatchRun
<1> QED
  BY <1>1, SafetyInvariant, PTL DEF Spec, BatchRunStaysEnded
-----------------------------------------------------------------------------
(* What else a batch promises holds for the one memory worker of           *)
(* docker-compose.yml.  Everything from here on is about who may write a   *)
(* batch row between the read of an advance and its commit.                *)

\* There is at most one worker process.
OneWorker == \A v, w \in Worker : v = w

\* What a step that commits no advance does to a batch row.
Steady(b) ==
  \/ batches'[b] = batches[b]
  \/ /\ batches[b].status = "absent"
     /\ Recorded(batches'[b]) = {}
     /\ batches'[b].status = "running" => batches'[b].current \in batches'[b].requested
  \/ /\ batches[b].status # "absent"
     /\ batches'[b].current = batches[b].current
     /\ batches'[b].completed = batches[b].completed
     /\ batches'[b].failed = batches[b].failed
     /\ batches'[b].status \in {batches[b].status, "failed"}

AllSteady == \A b \in Batch : Steady(b)

\* One row is written.
LEMMA SteadyWrite ==
  ASSUME Inv, NEW b \in Batch, NEW row, batches' = [batches EXCEPT ![b] = row],
         \/ /\ batches[b].status = "absent"
            /\ Recorded(row) = {}
            /\ row.status = "running" => row.current \in row.requested
         \/ /\ batches[b].status # "absent"
            /\ row.current = batches[b].current
            /\ row.completed = batches[b].completed
            /\ row.failed = batches[b].failed
            /\ row.status \in {batches[b].status, "failed"}
  PROVE  AllSteady
<1>1. \A a \in Batch : batches'[a] = IF a = b THEN row ELSE batches[a]
  BY DEF Inv, TypeInv, Typed
<1> QED
  BY <1>1 DEF AllSteady, Steady

\* A new batch has recorded nothing and points at its first profile.
LEMMA NewBatchSteady ==
  ASSUME NEW S \in SUBSET Profile, NEW s
  PROVE  /\ Recorded(NewBatch(S, s)) = {}
         /\ NewBatch(S, s).status = s
         /\ NewBatch(S, s).requested = S
         /\ S # {} => NewBatch(S, s).current \in S
<1>1. S # {} => First(S) \in S
  BY FirstProfile
<1> QED
  BY <1>1 DEF NewBatch, NoBatch, Recorded

\* The insert of a batch, by create_run_all_batch.
LEMMA InsertSteady ==
  ASSUME Inv, NEW c \in Api, RunAllInsert(c) \/ RunAllInsertInvalid(c)
  PROVE  AllSteady
<1>1. api[c].pc = "insert"
  BY DEF RunAllInsert, RunAllInsertInvalid, Serving
<1>2. PICK b \in Batch : b = api[c].batch /\ batches[b].status = "absent"
  BY <1>1, ApiFields DEF Inv, SafeInv, ApiOk, GoodApi, Early
<1>3. PICK S \in SUBSET Profile : S = api[c].todo
  BY ApiFields DEF Inv
<1>4. CASE UNCHANGED batches
  BY <1>4 DEF AllSteady, Steady
<1>5. CASE S = {} /\ batches' = [batches EXCEPT ![b] = NewBatch({}, "completed")]
  <2> DEFINE row == NewBatch({}, "completed")
  <2>1. Recorded(row) = {} /\ (row.status = "running" => row.current \in row.requested)
    BY <1>5, NewBatchSteady
  <2>2. batches' = [batches EXCEPT ![b] = row]
    BY <1>5
  <2> HIDE DEF row
  <2> QED
    BY <1>2, <2>1, <2>2, SteadyWrite
<1>6. CASE S # {} /\ batches' = [batches EXCEPT ![b] = NewBatch(S, "running")]
  <2> DEFINE row == NewBatch(S, "running")
  <2>1. Recorded(row) = {} /\ (row.status = "running" => row.current \in row.requested)
    BY <1>6, NewBatchSteady
  <2>2. batches' = [batches EXCEPT ![b] = row]
    BY <1>6
  <2> HIDE DEF row
  <2> QED
    BY <1>2, <2>1, <2>2, SteadyWrite
<1>7. CASE batches' = [batches EXCEPT ![b] = NewBatch(S, "failed")]
  <2> DEFINE row == NewBatch(S, "failed")
  <2>1. Recorded(row) = {} /\ (row.status = "running" => row.current \in row.requested)
    BY <1>7, NewBatchSteady
  <2>2. batches' = [batches EXCEPT ![b] = row]
    BY <1>7
  <2> HIDE DEF row
  <2> QED
    BY <1>2, <2>1, <2>2, SteadyWrite
<1> QED
  BY <1>2, <1>3, <1>4, <1>5, <1>6, <1>7 DEF RunAllInsert, RunAllInsertInvalid

\* A request that cannot create or enqueue a run fails its batch.
LEMMA FailBatchSteady ==
  ASSUME Inv, NEW c \in Api, api[c].pc \in Late, FailBatch(api[c].batch)
  PROVE  AllSteady
<1>1. PICK b \in Batch : b = api[c].batch
  BY ApiFields DEF Inv, GoodApi, Late
<1>2. batches[b].status # "absent" /\ batches[b] \in BatchRec
  BY <1>1 DEF Inv, SafeInv, ApiOk, TodoOk, TypeInv, Typed
<1> DEFINE row == [batches[b] EXCEPT !.status = "failed"]
<1>3. /\ row.current = batches[b].current /\ row.completed = batches[b].completed
      /\ row.failed = batches[b].failed /\ row.status = "failed"
  BY <1>2 DEF BatchRec
<1>4. batches' = [batches EXCEPT ![b] = row]
  BY <1>1 DEF FailBatch
<1> HIDE DEF row
<1> QED
  BY <1>2, <1>3, <1>4, SteadyWrite

\* A batch that is not there has recorded nothing.
LEMMA AbsentRecordsNothing ==
  ASSUME Inv, NEW b \in Batch, batches[b].status = "absent"
  PROVE  Recorded(batches[b]) = {}
<1> SUFFICES ASSUME NEW p \in Recorded(batches[b]) PROVE FALSE
  OBVIOUS
<1>1. p \in Profile
  BY RecordedType DEF Inv, TypeInv, Typed
<1>2. OwnedOk(b, p) /\ Ended(b, p)
  BY <1>1 DEF Inv, SafeInv, RowsOk, RecordedRunsEnded, Ended
<1> QED
  BY <1>2, AbsentNotTerminal DEF OwnedOk, Ended

\* cancel_batch only sets the flag.
LEMMA CancelSteady ==
  ASSUME Inv, NEW c \in Api, cancel_batch(c)
  PROVE  AllSteady
<1>1. PICK b \in Batch : b = api[c].batch
  BY ApiFields DEF cancel_batch, Serving, Inv, GoodApi
<1>2. batches[b] \in BatchRec
  BY DEF Inv, TypeInv, Typed
<1> DEFINE row == [batches[b] EXCEPT !.cancel = TRUE]
<1>3. /\ row.current = batches[b].current /\ row.completed = batches[b].completed
      /\ row.failed = batches[b].failed /\ row.status = batches[b].status
      /\ row.requested = batches[b].requested
  BY <1>2 DEF BatchRec
<1>4. batches' = [batches EXCEPT ![b] = row]
  BY <1>1 DEF cancel_batch
<1> HIDE DEF row
<1>5. batches[b].status = "absent" => Recorded(batches[b]) = {}
  BY AbsentRecordsNothing
<1> QED
  BY <1>3, <1>4, <1>5, SteadyWrite DEF Recorded

\* A row of a batch changes otherwise only where an advance is committed.
LEMMA BatchesFrame ==
  ASSUME Inv, [Next]_vars
  PROVE  AllSteady \/ (\E w \in Worker : WorkerCommit(w)) \/ ReconcileCommit
<1> SUFFICES ASSUME batches' # batches, ~ (\E w \in Worker : WorkerCommit(w)), ~ ReconcileCommit
             PROVE  AllSteady
  BY DEF AllSteady, Steady
<1>1. Next
  BY DEF vars
<1>2. ASSUME NEW c \in Api, ApiBegin(c) PROVE FALSE
  BY <1>2 DEF ApiBegin, RunAllBegin, ScanBegin, CancelRead
<1>3. ASSUME NEW c \in Api, ApiStep(c) PROVE RunAllInsert(c) \/ cancel_batch(c)
  BY <1>3 DEF ApiStep, RunAllClose, RunAllPlan, RunAllCreate, RunAllEnqueue, RunAllMark,
              ScanClose, ScanCreate, ScanEnqueue, ScanMark
<1>4. ASSUME NEW c \in Api, ApiError(c)
      PROVE  RunAllInsertInvalid(c) \/ (api[c].pc \in Late /\ FailBatch(api[c].batch))
  BY <1>4 DEF ApiError, RunAllCreateInvalid, RunAllEnqueueFails, ScanEnqueueFails, Serving, Late
<1>5. ASSUME NEW w \in Worker, WorkerStep(w) \/ WorkerCrash(w) PROVE FALSE
  BY <1>5 DEF WorkerStep, WorkerTake, WorkerClose, WorkerStart, WorkerTimeout, WorkerFinish,
              WorkerAdvance, WorkerCrash
<1>6. ~ (\E r \in Run : RqCleanup(r)) /\ ~ BackendCrash /\ ~ Reconcile
  BY DEF RqCleanup, BackendCrash, Reconcile, ReconcileRead
<1> QED
  BY <1>1, <1>2, <1>3, <1>4, <1>5, <1>6, InsertSteady, FailBatchSteady, CancelSteady DEF Next

\* A request touches neither a worker nor the startup hook.
LEMMA RequestsAlone ==
  ASSUME NEW c \in Api, ApiBegin(c) \/ ApiStep(c) \/ ApiError(c)
  PROVE  UNCHANGED <<worker, recon>>
<1>1. CASE ApiBegin(c)
  BY <1>1 DEF ApiBegin, RunAllBegin, ScanBegin, CancelRead
<1>2. CASE ApiStep(c)
  BY <1>2 DEF ApiStep, RunAllClose, RunAllPlan, RunAllInsert, RunAllCreate, RunAllEnqueue,
              RunAllMark, ScanClose, ScanCreate, ScanEnqueue, ScanMark, cancel_batch
<1>3. CASE ApiError(c)
  BY <1>3 DEF ApiError, RunAllInsertInvalid, RunAllCreateInvalid, RunAllEnqueueFails,
              ScanEnqueueFails
<1> QED
  BY <1>1, <1>2, <1>3

\* Who is about to commit an advance has just computed it, or was about to.
LEMMA AdvancersFrame ==
  ASSUME Inv, [Next]_vars
  PROVE  /\ \A w \in Worker : worker'[w].pc = "commit" =>
              WorkerAdvance(w) \/ worker'[w] = worker[w]
         /\ recon'.pc = "commit" => ReconcileRead \/ recon' = recon
<1>1. CASE UNCHANGED vars
  BY <1>1 DEF vars
<1>2. ASSUME NEW c \in Api, ApiBegin(c) \/ ApiStep(c) \/ ApiError(c)
      PROVE  UNCHANGED <<worker, recon>>
  BY <1>2, RequestsAlone
<1>3. ASSUME NEW v \in Worker, WorkerStep(v) \/ WorkerCrash(v), NEW w \in Worker,
             worker'[w].pc = "commit"
      PROVE  WorkerAdvance(w) \/ worker'[w] = worker[w]
  <2>1. ASSUME NEW next, Hold(v, next), next.pc # "commit" PROVE worker'[w] = worker[w]
    BY <1>3, <2>1 DEF Hold, Inv, TypeInv, Typed
  <2>2. IdleWorker.pc # "commit"
    BY DEF IdleWorker
  <2>3. worker[v] \in WorkerRec
    BY WorkerFields DEF Inv
  <2>4. CASE WorkerAdvance(v)
    <3>1. v # w => worker'[w] = worker[w]
      BY <2>4 DEF WorkerAdvance, Hold, JobEnds, Inv, TypeInv, Typed
    <3> QED
      BY <2>4, <3>1
  <2>5. CASE WorkerTake(v)
    <3> DEFINE next == [IdleWorker EXCEPT !.pc = "close", !.run = Head(queue),
                                          !.seen = RunningWithTask \ {Head(queue)}]
    <3>1. next.pc # "commit"
      BY DEF IdleWorker
    <3>2. Hold(v, next)
      BY <2>5 DEF WorkerTake
    <3> HIDE DEF next
    <3> QED
      BY <2>1, <3>1, <3>2
  <2>6. CASE WorkerClose(v)
    <3> DEFINE next == [worker[v] EXCEPT !.pc = "start", !.seen = {}]
    <3>1. next.pc # "commit"
      BY <2>3 DEF WorkerRec
    <3>2. Hold(v, next)
      BY <2>6 DEF WorkerClose
    <3> HIDE DEF next
    <3> QED
      BY <2>1, <3>1, <3>2
  <2>7. CASE WorkerStart(v) \/ WorkerTimeout(v) \/ WorkerFinish(v)
    <3> DEFINE exec == [worker[v] EXCEPT !.pc = "exec"]
               tail == [worker[v] EXCEPT !.pc = "tail"]
               adv  == [worker[v] EXCEPT !.pc = "advance", !.batch = runs[worker[v].run].batch]
    <3>1. exec.pc # "commit" /\ tail.pc # "commit" /\ adv.pc # "commit"
      BY <2>3 DEF WorkerRec
    <3>2. Hold(v, IdleWorker) \/ Hold(v, exec) \/ Hold(v, tail) \/ Hold(v, adv)
      BY <2>7 DEF WorkerStart, WorkerTimeout, WorkerFinish, JobEnds
    <3> HIDE DEF exec, tail, adv
    <3> QED
      BY <2>1, <2>2, <3>1, <3>2
  <2>8. CASE WorkerCommit(v) \/ WorkerCrash(v)
    BY <2>1, <2>2, <2>8 DEF WorkerCommit, WorkerCrash, JobEnds
  <2> QED
    BY <1>3, <2>4, <2>5, <2>6, <2>7, <2>8 DEF WorkerStep
<1>4. ASSUME NEW v \in Worker, WorkerStep(v) \/ WorkerCrash(v) PROVE UNCHANGED recon
  BY <1>4 DEF WorkerStep, WorkerTake, WorkerClose, WorkerStart, WorkerTimeout, WorkerFinish,
              WorkerAdvance, WorkerCommit, WorkerCrash
<1>5. ASSUME NEW r \in Run, RqCleanup(r) PROVE UNCHANGED <<worker, recon>>
  BY <1>5 DEF RqCleanup
<1>6. ASSUME BackendCrash \/ ReconcileCommit PROVE UNCHANGED worker /\ recon'.pc # "commit"
  BY <1>6 DEF BackendCrash, ReconcileCommit, Up
<1>7. ASSUME ReconcileRead PROVE UNCHANGED worker
  BY <1>7 DEF ReconcileRead
<1> QED
  BY <1>1, <1>2, <1>3, <1>4, <1>5, <1>6, <1>7 DEF Next, Reconcile

\* advance_batch keeps what is recorded, and leaves the batch running only with
\* a requested profile that is not recorded yet as the current one.
LEMMA AdvancedPoints ==
  ASSUME NEW bt \in BatchRec, NEW r \in Run, NEW run \in RunRec, run.profile \in Profile
  PROVE  LET new == Advanced(bt, r, run) IN
         /\ new.status = "running" => new.current \in bt.requested \ Recorded(new)
         /\ bt.completed \subseteq new.completed /\ bt.failed \subseteq new.failed
<1> DEFINE old   == WithOutcome(bt, run)
           fatal == run.profile = MetadataOnly /\ ~ Succeeded(run)
           stop  == Remaining(old) = {} \/ old.cancel \/ fatal
<1>1. /\ old \in BatchRec /\ old.requested = bt.requested
      /\ bt.completed \subseteq old.completed /\ bt.failed \subseteq old.failed
  BY DEF WithOutcome, Appended, BatchRec
<1>2. Remaining(old) = bt.requested \ Recorded(old) /\ Remaining(old) \in SUBSET Profile
  BY <1>1 DEF Remaining, Recorded, BatchRec
<1>3. ~ stop => First(Remaining(old)) \in Remaining(old)
  BY <1>2, FirstProfile
<1>4. stop => ClosedStatus(old, fatal) # "running"
  BY DEF ClosedStatus
<1> HIDE DEF old, fatal, stop
<1> DEFINE new == [old EXCEPT !.last = r,
                  !.current = IF stop THEN None ELSE First(Remaining(old)),
                  !.status = IF stop THEN ClosedStatus(old, fatal) ELSE "running"]
<1>5. /\ new.completed = old.completed /\ new.failed = old.failed
      /\ new.current = IF stop THEN None ELSE First(Remaining(old))
      /\ new.status = IF stop THEN ClosedStatus(old, fatal) ELSE "running"
  BY <1>1 DEF BatchRec
<1>6. Advanced(bt, r, run) = new
  BY DEF Advanced, old, fatal, stop
<1> HIDE DEF new
<1> QED
  BY <1>1, <1>2, <1>3, <1>4, <1>5, <1>6 DEF Recorded

\* What an advance is about to write as the current profile of a running batch.
PointsAhead(b, snap, new) ==
  new.status = "running" =>
    new.current \in batches[b].requested \ (Recorded(new) \cup {snap.current})

\* A profile that has ended and is not ignored is advanced past.
LEMMA AdvancePoints ==
  ASSUME Inv, NEW b \in Batch, NEW p \in Profile, Ended(b, p),
         ~ AdvanceIgnored(batches[b], <<b, p>>, runs[<<b, p>>])
  PROVE  LET new == Advanced(batches[b], <<b, p>>, runs[<<b, p>>]) IN
         /\ PointsAhead(b, batches[b], new)
         /\ batches[b].completed \subseteq new.completed
         /\ batches[b].failed \subseteq new.failed
<1>1. <<b, p>> \in Run /\ batches[b] \in BatchRec /\ runs[<<b, p>>] \in RunRec
  BY BatchRunType DEF Inv, TypeInv, Typed, GoodRun
<1>2. runs[<<b, p>>].profile = p
  BY AbsentNotTerminal DEF Inv, SafeInv, RowsOk, OwnedOk, Ended
<1>3. batches[b].current \in {None, p}
  BY <1>2 DEF AdvanceIgnored
<1> DEFINE new == Advanced(batches[b], <<b, p>>, runs[<<b, p>>])
<1>4. p \in Recorded(new)
  BY <1>1, <1>2, AdvancedRecords
<1>5. /\ new.status = "running" => new.current \in batches[b].requested \ Recorded(new)
      /\ batches[b].completed \subseteq new.completed /\ batches[b].failed \subseteq new.failed
  BY <1>1, <1>2, AdvancedPoints
<1>6. batches[b].requested \subseteq Profile
  BY <1>1 DEF BatchRec
<1> HIDE DEF new
<1>7. PointsAhead(b, batches[b], new)
  BY <1>3, <1>4, <1>5, <1>6, BatchRunType DEF PointsAhead
<1> QED
  BY <1>5, <1>7 DEF new

\* What a worker holds once it has computed an advance.
LEMMA WorkerAdvances ==
  ASSUME Inv, NEW w \in Worker, WorkerAdvance(w), worker'[w].pc = "commit"
  PROVE  \E b \in Batch, p \in Profile :
           /\ worker[w].run = <<b, p>> /\ Ended(b, p)
           /\ ~ AdvanceIgnored(batches[b], <<b, p>>, runs[<<b, p>>])
           /\ worker'[w].batch = b /\ worker'[w].snap = batches[b]
           /\ worker'[w].new = Advanced(batches[b], <<b, p>>, runs[<<b, p>>])
           /\ UNCHANGED <<batches, runs>>
<1>1. /\ WorkerOk(w) /\ worker[w] \in WorkerRec /\ worker[w].pc = "advance"
      /\ worker[w].batch \in Batch
  BY WorkerFields DEF Inv, SafeInv, WorkerAdvance, GoodWorker
<1>2. PICK b \in Batch, p \in Profile :
        worker[w].batch = b /\ worker[w].run = <<b, p>> /\ Ended(b, p)
  BY <1>1 DEF WorkerOk
<1> DEFINE r == <<b, p>>
           new == Advanced(batches[b], r, runs[r])
           next == [worker[w] EXCEPT !.pc = "commit", !.snap = batches[b], !.new = new]
<1>3. ~ AdvanceIgnored(batches[b], r, runs[r])
  <2> SUFFICES ASSUME AdvanceIgnored(batches[b], r, runs[r]) PROVE FALSE
    OBVIOUS
  <2>1. Hold(w, IdleWorker)
    BY <1>2 DEF WorkerAdvance, JobEnds
  <2>2. worker'[w] = IdleWorker
    BY <2>1, WorkerAt
  <2> QED
    BY <2>2 DEF IdleWorker
<1> HIDE DEF new
<1>4. next.batch = b /\ next.snap = batches[b] /\ next.new = new
  BY <1>1, <1>2 DEF WorkerRec
<1> HIDE DEF next
<1>5. Hold(w, next) /\ UNCHANGED <<batches, runs>>
  BY <1>2, <1>3 DEF WorkerAdvance, next, new
<1>6. worker'[w] = next
  BY <1>5, WorkerAt
<1> QED
  BY <1>2, <1>3, <1>4, <1>5, <1>6 DEF new

\* What the startup hook holds once it has computed an advance.
LEMMA HookAdvances ==
  ASSUME Inv, RunningPointsAtProfile, ReconcileRead, recon'.pc = "commit"
  PROVE  \E b \in Batch, p \in Profile :
           /\ batches[b].status = "running" /\ Ended(b, p)
           /\ ~ AdvanceIgnored(batches[b], <<b, p>>, runs[<<b, p>>])
           /\ recon'.batch = b /\ recon'.snap = batches[b]
           /\ recon'.new = Advanced(batches[b], <<b, p>>, runs[<<b, p>>])
           /\ UNCHANGED <<batches, runs>>
<1>1. \E b \in ActiveBatches(batches) : NeedsWork(b)
  BY DEF ReconcileRead, Up
<1> DEFINE x == CHOOSE y \in ActiveBatches(batches) : NeedsWork(y)
<1>2. x \in ActiveBatches(batches) /\ NeedsWork(x)
  BY <1>1
<1>3. PICK b \in Batch : b = x /\ NeedsWork(b) /\ batches[b].status = "running"
  BY <1>2 DEF ActiveBatches
<1>4. batches[b].current \in Profile
  BY <1>3 DEF RunningPointsAtProfile, Inv, TypeInv, Typed, BatchRec
<1>5. ~ NeedsCancelled(b)
  BY <1>4, ConstantsAssumption DEF NeedsCancelled, Profile, None
<1>6. PICK p \in Profile :
        /\ Ended(b, p)
        /\ ~ AdvanceIgnored(batches[b], <<b, p>>, runs[<<b, p>>])
        /\ Reconciled(b) = Advanced(batches[b], <<b, p>>, runs[<<b, p>>])
  BY <1>3, <1>5, HookFindsRun
<1>7. recon' = [pc |-> "commit", batch |-> b, snap |-> batches[b], new |-> Reconciled(b)]
  BY <1>1, <1>3 DEF ReconcileRead
<1>8. /\ recon'.batch = b /\ recon'.snap = batches[b]
      /\ recon'.new = Advanced(batches[b], <<b, p>>, runs[<<b, p>>])
      /\ UNCHANGED <<batches, runs>>
  BY <1>6, <1>7 DEF ReconcileRead
<1> QED
  BY <1>3, <1>6, <1>8

\* With one worker, only the worker sets a batch running again: the hook advances
\* running batches.  So a worker that read a closed batch commits to a closed one.
WorkerPoints(w) ==
  /\ PointsAhead(worker[w].batch, worker[w].snap, worker[w].new)
  /\ worker[w].snap.status # "running" => batches[worker[w].batch].status # "running"

HookPoints ==
  /\ PointsAhead(recon.batch, recon.snap, recon.new)
  /\ recon.snap.status = "running"

PointInv ==
  /\ RunningPointsAtProfile
  /\ \A w \in Worker : worker[w].pc = "commit" => WorkerPoints(w)
  /\ recon.pc = "commit" => HookPoints

\* The columns that the commit of an advance leaves in the row.
LEMMA CommitColumns ==
  ASSUME Inv, NEW b \in Batch, NEW snap \in BatchRec, NEW new \in BatchRec,
         CommitAdvance(b, snap, new), batches' # batches
  PROVE  /\ \A a \in Batch : a # b => batches'[a] = batches[a]
         /\ batches'[b].requested = batches[b].requested
         /\ batches'[b].status = Column(batches[b].status, snap.status, new.status)
         /\ batches'[b].current = Column(batches[b].current, snap.current, new.current)
         /\ batches'[b].completed = Column(batches[b].completed, snap.completed, new.completed)
         /\ batches'[b].failed = Column(batches[b].failed, snap.failed, new.failed)
<1> DEFINE row == UpdatedRow(batches[b], snap, new)
<1>1. batches[b] \in BatchRec
  BY DEF Inv, TypeInv, Typed
<1>2. /\ row.requested = batches[b].requested
      /\ row.status = Column(batches[b].status, snap.status, new.status)
      /\ row.current = Column(batches[b].current, snap.current, new.current)
      /\ row.completed = Column(batches[b].completed, snap.completed, new.completed)
      /\ row.failed = Column(batches[b].failed, snap.failed, new.failed)
  BY <1>1 DEF UpdatedRow, BatchRec
<1> HIDE DEF row
<1>3. batches' = [batches EXCEPT ![b] = row]
  BY DEF CommitAdvance, row
<1>4. \A a \in Batch : batches'[a] = IF a = b THEN row ELSE batches[a]
  BY <1>3 DEF Inv, TypeInv, Typed
<1> QED
  BY <1>2, <1>4

\* The commit of an advance leaves a running batch with a current profile.
LEMMA CommitPoints ==
  ASSUME Inv, NEW b \in Batch, NEW snap \in BatchRec, NEW new \in BatchRec,
         CommitAdvance(b, snap, new), PointsAhead(b, snap, new),
         snap.status = "running" \/ batches[b].status # "running", RunningPointsAtProfile
  PROVE  /\ RunningPointsAtProfile'
         /\ \A a \in Batch : batches[a].status # "running" /\ batches'[a].status = "running"
                              => snap.status # "running"
<1>1. CASE UNCHANGED batches
  BY <1>1 DEF RunningPointsAtProfile
<1>2. CASE batches' # batches
  <2>1. /\ \A a \in Batch : a # b => batches'[a] = batches[a]
        /\ batches'[b].requested = batches[b].requested
        /\ batches'[b].status = Column(batches[b].status, snap.status, new.status)
        /\ batches'[b].current = Column(batches[b].current, snap.current, new.current)
    BY <1>2, CommitColumns
  <2>2. CASE new.status = "running"
    BY <2>1, <2>2 DEF Column, PointsAhead, RunningPointsAtProfile
  <2>3. CASE new.status # "running"
    BY <2>1, <2>3 DEF Column, RunningPointsAtProfile
  <2> QED
    BY <2>2, <2>3
<1> QED
  BY <1>1, <1>2

\* The rows as the process that commits an advance has them.
LEMMA CommitFields ==
  ASSUME Inv
  PROVE  /\ \A w \in Worker : worker[w].pc = "commit" =>
              /\ worker[w].batch \in Batch /\ worker[w].snap \in BatchRec
              /\ worker[w].new \in BatchRec /\ batches[worker[w].batch].status # "absent"
         /\ recon.pc = "commit" =>
              /\ recon.batch \in Batch /\ recon.snap \in BatchRec /\ recon.new \in BatchRec
              /\ batches[recon.batch].status # "absent"
<1>1. ASSUME NEW w \in Worker, worker[w].pc = "commit"
      PROVE  /\ worker[w].batch \in Batch /\ worker[w].snap \in BatchRec
             /\ worker[w].new \in BatchRec /\ batches[worker[w].batch].status # "absent"
  BY <1>1, WorkerFields DEF Inv, SafeInv, WorkerOk, NewOk, GoodWorker, WorkerRec
<1>2. recon.pc = "commit" =>
              /\ recon.batch \in Batch /\ recon.snap \in BatchRec /\ recon.new \in BatchRec
              /\ batches[recon.batch].status # "absent"
  BY DEF Inv, SafeInv, ReconOk, NewOk, TypeInv, Typed, GoodRecon, ReconRec
<1> QED
  BY <1>1, <1>2

\* A worker that commits is idle afterwards.
LEMMA CommitIdles ==
  ASSUME Inv, NEW w \in Worker, WorkerCommit(w)
  PROVE  worker'[w].pc # "commit"
<1>1. Hold(w, IdleWorker)
  BY DEF WorkerCommit, JobEnds
<1>2. worker'[w] = IdleWorker
  BY <1>1, WorkerAt
<1> QED
  BY <1>2 DEF IdleWorker

\* A step that sets no existing batch running keeps what the advancers hold.
LEMMA PointsKept ==
  ASSUME Inv, PointInv, [Next]_vars, RunningPointsAtProfile',
         \A b \in Batch : batches[b].status \notin {"absent", "running"}
           => batches'[b].status # "running",
         \A b \in Batch : batches[b].status # "absent" =>
           batches'[b].requested = batches[b].requested
  PROVE  PointInv'
<1>1. ASSUME NEW w \in Worker, worker'[w].pc = "commit" PROVE WorkerPoints(w)'
  <2>1. CASE worker'[w] = worker[w]
    <3>1. WorkerPoints(w) /\ worker[w].batch \in Batch /\ batches[worker[w].batch].status # "absent"
      BY <1>1, <2>1, CommitFields DEF PointInv
    <3> QED
      BY <2>1, <3>1 DEF WorkerPoints, PointsAhead, Recorded
  <2>2. CASE WorkerAdvance(w)
    <3>1. PICK b \in Batch, p \in Profile :
             /\ Ended(b, p)
             /\ ~ AdvanceIgnored(batches[b], <<b, p>>, runs[<<b, p>>])
             /\ worker'[w].batch = b /\ worker'[w].snap = batches[b]
             /\ worker'[w].new = Advanced(batches[b], <<b, p>>, runs[<<b, p>>])
             /\ UNCHANGED <<batches, runs>>
      BY <1>1, <2>2, WorkerAdvances
    <3>2. PointsAhead(b, batches[b], worker'[w].new)
      BY <3>1, AdvancePoints
    <3> QED
      BY <3>1, <3>2 DEF WorkerPoints, PointsAhead, Recorded
  <2> QED
    BY <1>1, <2>1, <2>2, AdvancersFrame
<1>2. ASSUME recon'.pc = "commit" PROVE HookPoints'
  <2>1. CASE recon' = recon
    <3>1. HookPoints /\ recon.batch \in Batch /\ batches[recon.batch].status # "absent"
      BY <1>2, <2>1, CommitFields DEF PointInv
    <3> QED
      BY <2>1, <3>1 DEF HookPoints, PointsAhead, Recorded
  <2>2. CASE ReconcileRead
    <3>1. PICK b \in Batch, p \in Profile :
             /\ batches[b].status = "running" /\ Ended(b, p)
             /\ ~ AdvanceIgnored(batches[b], <<b, p>>, runs[<<b, p>>])
             /\ recon'.batch = b /\ recon'.snap = batches[b]
             /\ recon'.new = Advanced(batches[b], <<b, p>>, runs[<<b, p>>])
             /\ UNCHANGED <<batches, runs>>
      BY <1>2, <2>2, HookAdvances DEF PointInv
    <3>2. PointsAhead(b, batches[b], recon'.new)
      BY <3>1, AdvancePoints
    <3> QED
      BY <3>1, <3>2 DEF HookPoints, PointsAhead, Recorded
  <2> QED
    BY <1>2, <2>1, <2>2, AdvancersFrame
<1> QED
  BY <1>1, <1>2 DEF PointInv

\* Every step keeps it: only commits of advances point somewhere new.
LEMMA PointNext ==
  ASSUME Inv, OneWorker, PointInv, [Next]_vars
  PROVE  PointInv'
<1>1. Step
  BY SafeNext DEF Safe
<1>2. \A b \in Batch : batches[b].status # "absent" =>
        batches'[b].requested = batches[b].requested
  BY <1>1 DEF Step, BatchStep
<1>3. CASE AllSteady
  <2>1. RunningPointsAtProfile'
    BY <1>2, <1>3 DEF AllSteady, Steady, PointInv, RunningPointsAtProfile
  <2>2. \A b \in Batch : batches[b].status \notin {"absent", "running"}
          => batches'[b].status # "running"
    BY <1>3 DEF AllSteady, Steady
  <2> QED
    BY <2>1, <2>2, PointsKept, <1>2
<1>4. ASSUME NEW v \in Worker, WorkerCommit(v) PROVE PointInv'
  <2>1. worker[v].pc = "commit" /\ UNCHANGED recon
    BY <1>4 DEF WorkerCommit
  <2>2. RunningPointsAtProfile'
    BY <1>4, <2>1, CommitFields, CommitPoints DEF WorkerCommit, PointInv, WorkerPoints
  <2>3. \A w \in Worker : worker'[w].pc # "commit"
    BY <1>4, CommitIdles DEF OneWorker
  <2>4. recon.pc = "commit" => HookPoints'
    BY <1>2, <2>1, CommitFields DEF PointInv, HookPoints, PointsAhead
  <2> QED
    BY <2>1, <2>2, <2>3, <2>4 DEF PointInv
<1>5. CASE ReconcileCommit
  <2>1. recon.pc = "commit"
    BY <1>5 DEF ReconcileCommit
  <2>2. /\ RunningPointsAtProfile'
        /\ \A b \in Batch : batches[b].status # "running" => batches'[b].status # "running"
    BY <1>5, <2>1, CommitFields, CommitPoints DEF ReconcileCommit, PointInv, HookPoints
  <2> QED
    BY <2>2, PointsKept, <1>2
<1> QED
  BY <1>3, <1>4, <1>5, BatchesFrame

LEMMA PointInit == Init => PointInv
  BY DEF Init, PointInv, RunningPointsAtProfile, NoBatch, IdleWorker, Up

\* With one worker, for any number of profiles, batches, scans, requests, faults
\* and restarts: a running batch names one of its requested profiles as current.
THEOREM RunningBatchesPointAtProfile == OneWorker => (Spec => []RunningPointsAtProfile)
<1> SUFFICES ASSUME OneWorker PROVE Spec => []RunningPointsAtProfile
  OBVIOUS
<1>1. Init => PointInv
  BY PointInit
<1>2. Inv /\ PointInv /\ [Next]_vars => PointInv'
  BY PointNext
<1>3. PointInv => RunningPointsAtProfile
  BY DEF PointInv
<1> QED
  BY <1>1, <1>2, <1>3, SafetyInvariant, PTL DEF Spec

-----------------------------------------------------------------------------
(* One worker and no restart: what the worker read is still there when it  *)
(* commits, but for the status, which a failing request may have changed.  *)

WorkerFresh(w) ==
  LET b    == worker[w].batch
      snap == worker[w].snap
      new  == worker[w].new
  IN
  /\ snap.completed = batches[b].completed /\ snap.completed \subseteq new.completed
  /\ snap.failed = batches[b].failed /\ snap.failed \subseteq new.failed

FreshInv ==
  /\ recon.pc = "up"
  /\ RunningPointsAtUnrecorded
  /\ \A w \in Worker : worker[w].pc = "commit" => WorkerFresh(w)

\* Without a restart the startup hook has nothing to do.
LEMMA NoHook ==
  ASSUME Inv, MaxRestarts = 0, recon.pc = "up", [Next]_vars
  PROVE  recon' = recon
<1>1. ~ BackendCrash /\ ~ Reconcile
  BY DEF BackendCrash, Reconcile, ReconcileRead, ReconcileCommit, Inv, TypeInv, Typed
<1>2. ASSUME NEW v \in Worker, WorkerStep(v) \/ WorkerCrash(v) PROVE UNCHANGED recon
  BY <1>2 DEF WorkerStep, WorkerTake, WorkerClose, WorkerStart, WorkerTimeout, WorkerFinish,
              WorkerAdvance, WorkerCommit, WorkerCrash
<1>3. ASSUME NEW r \in Run, RqCleanup(r) PROVE UNCHANGED recon
  BY <1>3 DEF RqCleanup
<1> QED
  BY <1>1, <1>2, <1>3, RequestsAlone DEF Next, vars

\* Steps that commit no advance leave the records as they are.
LEMMA FreshSteady ==
  ASSUME Inv, FreshInv, AllSteady, [Next]_vars
  PROVE  /\ RunningPointsAtUnrecorded'
         /\ \A w \in Worker : worker'[w].pc = "commit" => WorkerFresh(w)'
<1>1. \A b \in Batch : batches[b].status # "absent" =>
        /\ batches'[b].requested = batches[b].requested
        /\ batches'[b].completed = batches[b].completed
        /\ batches'[b].failed = batches[b].failed
  BY SafeNext DEF Safe, Step, BatchStep, AllSteady, Steady
<1>2. RunningPointsAtUnrecorded'
  <2> SUFFICES ASSUME NEW b \in Batch, batches'[b].status = "running"
               PROVE  batches'[b].current \in batches'[b].requested \ Recorded(batches'[b])
    BY DEF RunningPointsAtUnrecorded, Recorded
  <2>1. Steady(b)
    BY DEF AllSteady
  <2> QED
    BY <1>1, <2>1 DEF Steady, FreshInv, RunningPointsAtUnrecorded, Recorded
<1>3. ASSUME NEW w \in Worker, worker'[w].pc = "commit" PROVE WorkerFresh(w)'
  <2>1. CASE worker'[w] = worker[w]
    <3>1. WorkerFresh(w) /\ worker[w].batch \in Batch /\ batches[worker[w].batch].status # "absent"
      BY <1>3, <2>1, CommitFields DEF FreshInv
    <3> QED
      BY <1>1, <2>1, <3>1 DEF WorkerFresh
  <2>2. CASE WorkerAdvance(w)
    <3>1. PICK b \in Batch, p \in Profile :
             /\ Ended(b, p)
             /\ ~ AdvanceIgnored(batches[b], <<b, p>>, runs[<<b, p>>])
             /\ worker'[w].batch = b /\ worker'[w].snap = batches[b]
             /\ worker'[w].new = Advanced(batches[b], <<b, p>>, runs[<<b, p>>])
             /\ UNCHANGED <<batches, runs>>
      BY <1>3, <2>2, WorkerAdvances
    <3>2. batches[b].completed \subseteq worker'[w].new.completed
          /\ batches[b].failed \subseteq worker'[w].new.failed
      BY <3>1, AdvancePoints
    <3> QED
      BY <3>1, <3>2 DEF WorkerFresh
  <2> QED
    BY <1>3, <2>1, <2>2, AdvancersFrame
<1> QED
  BY <1>2, <1>3

\* The commit of the only worker writes exactly what it computed.
LEMMA FreshCommit ==
  ASSUME Inv, PointInv, FreshInv, NEW w \in Worker, WorkerCommit(w)
  PROVE  RunningPointsAtUnrecorded'
<1> DEFINE b == worker[w].batch
           snap == worker[w].snap
           new == worker[w].new
<1>1. worker[w].pc = "commit" /\ CommitAdvance(b, snap, new)
  BY DEF WorkerCommit
<1>2. /\ b \in Batch /\ snap \in BatchRec /\ new \in BatchRec
      /\ snap.completed = batches[b].completed /\ snap.completed \subseteq new.completed
      /\ snap.failed = batches[b].failed /\ snap.failed \subseteq new.failed
      /\ PointsAhead(b, snap, new)
      /\ snap.status # "running" => batches[b].status # "running"
  BY <1>1, CommitFields DEF FreshInv, WorkerFresh, PointInv, WorkerPoints
<1> HIDE DEF b, snap, new
<1>3. CASE UNCHANGED batches
  BY <1>3 DEF FreshInv, RunningPointsAtUnrecorded
<1>4. CASE batches' # batches
  <2>1. /\ \A a \in Batch : a # b => batches'[a] = batches[a]
        /\ batches'[b].requested = batches[b].requested
        /\ batches'[b].status = Column(batches[b].status, snap.status, new.status)
        /\ batches'[b].current = Column(batches[b].current, snap.current, new.current)
        /\ batches'[b].completed = Column(batches[b].completed, snap.completed, new.completed)
        /\ batches'[b].failed = Column(batches[b].failed, snap.failed, new.failed)
    BY <1>1, <1>2, <1>4, CommitColumns
  <2>2. batches'[b].completed = new.completed /\ batches'[b].failed = new.failed
    BY <1>2, <2>1 DEF Column
  <2>3. batches'[b].status = "running" =>
          batches'[b].current \in batches'[b].requested \ Recorded(batches'[b])
    BY <1>2, <2>1, <2>2 DEF Column, PointsAhead, Recorded
  <2> QED
    BY <2>1, <2>3 DEF FreshInv, RunningPointsAtUnrecorded, Recorded
<1> QED
  BY <1>3, <1>4

LEMMA FreshNext ==
  ASSUME Inv, OneWorker, MaxRestarts = 0, PointInv, FreshInv, [Next]_vars
  PROVE  FreshInv'
<1>1. recon' = recon /\ recon.pc = "up"
  BY NoHook DEF FreshInv
<1>2. CASE AllSteady
  BY <1>1, <1>2, FreshSteady DEF FreshInv
<1>3. ASSUME NEW v \in Worker, WorkerCommit(v) PROVE FreshInv'
  <2>1. \A w \in Worker : worker'[w].pc # "commit"
    BY <1>3, CommitIdles DEF OneWorker
  <2> QED
    BY <1>1, <1>3, <2>1, FreshCommit DEF FreshInv
<1>4. ~ ReconcileCommit
  BY <1>1 DEF ReconcileCommit
<1> QED
  BY <1>2, <1>3, <1>4, BatchesFrame

LEMMA FreshInit == Init => FreshInv
  BY DEF Init, FreshInv, RunningPointsAtUnrecorded, NoBatch, IdleWorker, Up

LEMMA FreshInvariant == OneWorker /\ MaxRestarts = 0 => (Spec => [](Inv /\ PointInv /\ FreshInv))
<1> SUFFICES ASSUME OneWorker, MaxRestarts = 0 PROVE Spec => [](Inv /\ PointInv /\ FreshInv)
  OBVIOUS
<1>1. Init => PointInv /\ FreshInv
  BY PointInit, FreshInit
<1>2. Inv /\ PointInv /\ FreshInv /\ [Next]_vars => PointInv' /\ FreshInv'
  BY PointNext, FreshNext
<1> QED
  BY <1>1, <1>2, SafetyInvariant, PTL DEF Spec

\* With one worker and no restart, for any number of profiles, batches, scans,
\* requests and faults: a running batch waits for a profile it has not recorded.
THEOREM RunningBatchesWait ==
  OneWorker /\ MaxRestarts = 0 => (Spec => []RunningPointsAtUnrecorded)
<1> SUFFICES ASSUME OneWorker, MaxRestarts = 0 PROVE Spec => []RunningPointsAtUnrecorded
  OBVIOUS
<1>1. FreshInv => RunningPointsAtUnrecorded
  BY DEF FreshInv
<1>2. Spec => [](Inv /\ PointInv /\ FreshInv)
  BY FreshInvariant
<1> QED
  BY <1>1, <1>2, PTL

-----------------------------------------------------------------------------
(* Jobs that RQ has finished, without single scans.                        *)

EndedJobs == \A r \in BatchRun : job[r] = "finished" => runs[r].status \in TERMINAL_STATUSES

\* A job is finished only by the worker that leaves its run ended.
LEMMA FinishedByWorker ==
  ASSUME Inv, [Next]_vars, NEW r \in BatchRun, job[r] # "finished", job'[r] = "finished"
  PROVE  runs'[r].status \in TERMINAL_STATUSES
<1>0. r \in Run
  BY BatchRunType
<1>1. ASSUME NEW c \in Api, ApiBegin(c) PROVE FALSE
  BY <1>1 DEF ApiBegin, RunAllBegin, ScanBegin, CancelRead
<1>2. ASSUME NEW q, Enqueue(q) PROVE FALSE
  BY <1>0, <1>2 DEF Enqueue, Inv, TypeInv, Typed
<1>3. ASSUME NEW c \in Api, ApiStep(c) PROVE FALSE
  BY <1>2, <1>3 DEF ApiStep, RunAllClose, RunAllPlan, RunAllInsert, RunAllCreate, RunAllEnqueue,
              RunAllMark, ScanClose, ScanCreate, ScanEnqueue, ScanMark, cancel_batch
<1>4. ASSUME NEW c \in Api, ApiError(c) PROVE FALSE
  BY <1>4 DEF ApiError, RunAllInsertInvalid, RunAllCreateInvalid, RunAllEnqueueFails,
              ScanEnqueueFails
<1>5. ASSUME NEW w \in Worker, WorkerStep(w) \/ WorkerCrash(w)
      PROVE  runs'[r].status \in TERMINAL_STATUSES
  <2>1. ~ WorkerTake(w) /\ ~ WorkerClose(w) /\ ~ WorkerTimeout(w) /\ ~ WorkerCrash(w)
    BY <1>0 DEF WorkerTake, WorkerClose, WorkerTimeout, WorkerCrash, Inv, TypeInv, Typed
  <2>2. JobEnds(w) => worker[w].run = r
    BY <1>0 DEF JobEnds, Inv, TypeInv, Typed
  <2>3. CASE WorkerStart(w)
    BY <2>2, <2>3 DEF WorkerStart
  <2>4. CASE WorkerFinish(w)
    <3>1. PICK s \in FinalStatus(worker[w].pc) : runs' = [runs EXCEPT ![worker[w].run].status = s]
      BY <2>4 DEF WorkerFinish
    <3>2. s \in TERMINAL_STATUSES
      BY ConstantsAssumption, AbsentNotTerminal DEF FinalStatus
    <3>3. worker[w].run = r
      BY <2>2, <2>4 DEF WorkerFinish
    <3>4. runs[r] \in RunRec /\ runs'[r] = [runs[r] EXCEPT !.status = s]
      BY <1>0, <3>1, <3>3 DEF Inv, TypeInv, Typed, GoodRun
    <3> QED
      BY <3>2, <3>4 DEF RunRec
  <2>5. CASE WorkerAdvance(w) \/ WorkerCommit(w)
    <3>1. worker[w].run = r /\ worker[w].pc \in {"advance", "commit"} /\ UNCHANGED runs
      BY <2>2, <2>5 DEF WorkerAdvance, WorkerCommit
    <3> QED
      BY <3>1 DEF Inv, SafeInv, WorkerOk, Ended
  <2> QED
    BY <1>5, <2>1, <2>3, <2>4, <2>5 DEF WorkerStep
<1>6. ~ (\E q \in Run : RqCleanup(q)) /\ ~ BackendCrash /\ ~ Reconcile
  BY <1>0 DEF RqCleanup, BackendCrash, Reconcile, ReconcileRead, ReconcileCommit, Inv, TypeInv,
              Typed
<1> QED
  BY <1>1, <1>3, <1>4, <1>5, <1>6 DEF Next, vars

\* Without single scans, for any number of profiles, batches, requests, workers,
\* faults and restarts: a run that RQ has finished is not reported active.
THEOREM FinishedRunsAreNotActive == MaxScans = 0 => (Spec => []EndedJobIsNotActive)
<1> SUFFICES ASSUME MaxScans = 0 PROVE Spec => []EndedJobIsNotActive
  OBVIOUS
<1>1. Init => EndedJobs
  BY BatchRunType DEF Init, EndedJobs
<1>2. Inv /\ EndedJobs /\ [Next]_vars => EndedJobs'
  <2> SUFFICES ASSUME Inv, EndedJobs, [Next]_vars, NEW r \in BatchRun, job'[r] = "finished"
               PROVE  runs'[r].status \in TERMINAL_STATUSES
    BY DEF EndedJobs
  <2>1. CASE job[r] = "finished"
    BY <2>1, SafeNext DEF EndedJobs, Safe, Step, RunStep
  <2>2. CASE job[r] # "finished"
    BY <2>2, FinishedByWorker
  <2> QED
    BY <2>1, <2>2
<1>3. EndedJobs => EndedJobIsNotActive
  <2>1. Run = BatchRun
    BY DEF Run, BatchRun, Scan
  <2>2. TERMINAL_STATUSES \cap ACTIVE_RUN_STATUSES = {}
    BY DEF TERMINAL_STATUSES, ACTIVE_RUN_STATUSES, SUCCESS_RUN_STATUSES, FAILED_RUN_STATUSES
  <2> QED
    BY <2>1, <2>2 DEF EndedJobs, EndedJobIsNotActive
<1> QED
  BY <1>1, <1>2, <1>3, SafetyInvariant, PTL DEF Spec

-----------------------------------------------------------------------------
(* What a batch reports is true, when nobody closes lost runs meanwhile.   *)

\* One batch and no single scan: no second request looks for lost runs.
OneRequest == MaxBatches <= 1 /\ MaxScans = 0

TrueOf(b, bt) ==
  /\ \A p \in bt.completed : runs[<<b, p>>].status \in SUCCESS_RUN_STATUSES
  /\ \A p \in bt.failed : runs[<<b, p>>].status \in FAILED_RUN_STATUSES

WorkerTrue(w) ==
  /\ worker[w].pc = "commit" => TrueOf(worker[w].batch, worker[w].new)
  /\ worker[w].pc # "close" => worker[w].seen = {}
  /\ \A r \in worker[w].seen : runs[r].status = "running"
  /\ worker[w].pc \in {"exec", "tail"} =>
       \A b \in Batch : \A p \in Recorded(batches[b]) : worker[w].run # <<b, p>>

OutcomeInv ==
  /\ \A b \in Batch : TrueOf(b, batches[b])
  /\ \A c \in Api : api[c].seen = {}
  /\ \A w \in Worker : WorkerTrue(w)

\* A request begins only while there is no batch, so there is no run to close.
LEMMA NothingLost ==
  ASSUME Inv, OneRequest, NEW c \in Api
  PROVE  /\ RunAllBegin(c) => RunningWithTask = {}
         /\ \A p \in Profile : ~ ScanBegin(c, p)
         /\ Run = BatchRun
<1>1. Run = BatchRun /\ FreeScans = {}
  BY DEF Run, BatchRun, Scan, OneRequest, FreeScans
<1>2. ASSUME RunAllBegin(c), NEW r \in RunningWithTask PROVE FALSE
  <2>1. PICK b \in Batch : batches[b].status = "absent"
    BY <1>2 DEF RunAllBegin, FreeBatches
  <2>2. r \in BatchRun /\ runs[r].status = "running"
    BY <1>1, <1>2 DEF RunningWithTask
  <2>3. r[1] \in Batch /\ r[2] \in Profile /\ r = <<r[1], r[2]>>
    BY <2>2, BatchRunType
  <2>4. r[1] = b
    BY <2>1, <2>3, ConstantsAssumption DEF Batch, OneRequest
  <2>5. OwnedOk(b, r[2])
    BY <2>1, <2>3 DEF Inv, SafeInv, RowsOk
  <2> QED
    BY <2>1, <2>2, <2>3, <2>4, <2>5 DEF OwnedOk
<1> QED
  BY <1>1, <1>2 DEF ScanBegin

\* So no request ever has a run to close.
LEMMA SeenNothing ==
  ASSUME Inv, OneRequest, OutcomeInv, [Next]_vars
  PROVE  \A c \in Api : api'[c].seen = {}
<1> SUFFICES ASSUME NEW c \in Api, api'[c] # api[c] PROVE api'[c].seen = {}
  BY DEF OutcomeInv
<1>1. \A d \in Api : \A next : Goto(d, next) => d = c /\ api'[c] = next
  BY DEF Goto, Inv, TypeInv, Typed
<1>3. ASSUME NEW d \in Api, NEW pc, NEW b, NEW r, NEW S
      PROVE  /\ Goto(d, IdleApi) => api'[c].seen = {}
             /\ Goto(d, [IdleApi EXCEPT !.pc = pc, !.batch = b, !.seen = {}]) => api'[c].seen = {}
             /\ Goto(d, [IdleApi EXCEPT !.pc = pc, !.batch = b]) => api'[c].seen = {}
             /\ Goto(d, [api[d] EXCEPT !.pc = pc]) => api'[c].seen = {}
             /\ Goto(d, [api[d] EXCEPT !.pc = pc, !.seen = {}]) => api'[c].seen = {}
             /\ Goto(d, [api[d] EXCEPT !.pc = pc, !.todo = S]) => api'[c].seen = {}
             /\ Goto(d, [api[d] EXCEPT !.pc = pc, !.run = r]) => api'[c].seen = {}
             /\ Goto(d, [api[d] EXCEPT !.pc = pc, !.run = r, !.todo = S]) => api'[c].seen = {}
  <2>1. api[d] \in ApiRec /\ api[d].seen = {}
    BY ApiFields DEF Inv, OutcomeInv
  <2>2. /\ IdleApi.seen = {}
        /\ [IdleApi EXCEPT !.pc = pc, !.batch = b, !.seen = {}].seen = {}
        /\ [IdleApi EXCEPT !.pc = pc, !.batch = b].seen = {}
        /\ [api[d] EXCEPT !.pc = pc].seen = {}
        /\ [api[d] EXCEPT !.pc = pc, !.seen = {}].seen = {}
        /\ [api[d] EXCEPT !.pc = pc, !.todo = S].seen = {}
        /\ [api[d] EXCEPT !.pc = pc, !.run = r].seen = {}
        /\ [api[d] EXCEPT !.pc = pc, !.run = r, !.todo = S].seen = {}
    BY <2>1 DEF IdleApi, ApiRec
  <2> QED
    BY <1>1, <2>2
<1>4. ASSUME NEW d \in Api, ApiBegin(d) PROVE api'[c].seen = {}
  BY <1>1, <1>3, <1>4, NothingLost DEF ApiBegin, RunAllBegin, CancelRead
<1>5. ASSUME NEW d \in Api, ApiStep(d) PROVE api'[c].seen = {}
  <2>1. CASE RunAllClose(d) \/ RunAllPlan(d) \/ RunAllInsert(d)
    BY <1>1, <1>3, <2>1 DEF RunAllClose, RunAllPlan, RunAllInsert
  <2>2. CASE RunAllCreate(d) \/ RunAllEnqueue(d) \/ RunAllMark(d)
    BY <1>1, <1>3, <2>2 DEF RunAllCreate, RunAllEnqueue, RunAllMark
  <2>3. CASE ScanClose(d) \/ ScanCreate(d) \/ ScanEnqueue(d) \/ ScanMark(d) \/ cancel_batch(d)
    BY <1>1, <1>3, <2>3 DEF ScanClose, ScanCreate, ScanEnqueue, ScanMark, cancel_batch
  <2> QED
    BY <1>5, <2>1, <2>2, <2>3 DEF ApiStep
<1>6. ASSUME NEW d \in Api, ApiError(d) PROVE api'[c].seen = {}
  BY <1>1, <1>3, <1>6 DEF ApiError, RunAllInsertInvalid, RunAllCreateInvalid, RunAllEnqueueFails,
                   ScanEnqueueFails
<1>7. ASSUME NEW v \in Worker, WorkerStep(v) \/ WorkerCrash(v) PROVE FALSE
  BY <1>7 DEF WorkerStep, WorkerTake, WorkerClose, WorkerStart, WorkerTimeout, WorkerFinish,
              WorkerAdvance, WorkerCommit, WorkerCrash
<1>8. ~ (\E r \in Run : RqCleanup(r)) /\ ~ Reconcile
  BY DEF RqCleanup, Reconcile, ReconcileRead, ReconcileCommit
<1>9. BackendCrash => api'[c].seen = {}
  BY DEF BackendCrash, IdleApi
<1> QED
  BY <1>4, <1>5, <1>6, <1>7, <1>8, <1>9 DEF Next, vars

\* Closing no run, or one that is running, changes no run that ended.
LEMMA ClosesRunning ==
  ASSUME Inv, NEW seen, \A r \in seen : runs[r].status = "running", NEW lost,
         fail_orphaned(seen, lost), NEW r \in Run, runs[r].status # "running"
  PROVE  runs'[r] = runs[r]
  BY DEF fail_orphaned

\* A step of a request leaves running and ended batch runs as they are.
LEMMA RequestsLeaveRuns ==
  ASSUME Inv, OneRequest, OutcomeInv, NEW c \in Api, ApiBegin(c) \/ ApiStep(c) \/ ApiError(c),
         NEW r \in Run, runs[r].status \in TERMINAL_STATUSES \cup {"running"}
  PROVE  runs'[r].status = runs[r].status
<1>0. /\ "running" \notin TERMINAL_STATUSES /\ runs[r].status \notin {"absent", "pending"}
      /\ r \in BatchRun
  BY AbsentNotTerminal, NothingLost
     DEF TERMINAL_STATUSES, SUCCESS_RUN_STATUSES, FAILED_RUN_STATUSES
<1>1. CASE ApiBegin(c)
  BY <1>1 DEF ApiBegin, RunAllBegin, ScanBegin, CancelRead
<1>2. \A lost : fail_orphaned(api[c].seen, lost) => runs'[r] = runs[r]
  BY DEF fail_orphaned, OutcomeInv
<1>3. ~ (api[c].pc \in ScanPcs)
  BY ScanFields, NothingLost
<1>4. CASE RunAllClose(c)
  BY <1>2, <1>4 DEF RunAllClose
<1>5. CASE RunAllInsert(c) \/ RunAllCreate(c)
  <2>1. PICK q : /\ runs[q].status = "absent"
                 /\ UNCHANGED runs \/ \E p \in Profile : runs' = [runs EXCEPT ![q] = NewRun(p)]
    <3>1. CASE RunAllCreate(c)
      <4>1. /\ api[c].pc = "create" /\ TodoOk(c) /\ api[c].batch \in Batch /\ api[c].todo # {}
            /\ api[c].todo \in SUBSET Profile
        BY <3>1, ApiFields DEF RunAllCreate, Serving, Inv, SafeInv, ApiOk, Late, GoodApi
      <4>2. First(api[c].todo) \in api[c].todo /\ First(api[c].todo) \in Profile
        BY <4>1, FirstProfile
      <4> QED
        BY <3>1, <4>1, <4>2 DEF RunAllCreate, TodoOk
    <3>2. CASE RunAllInsert(c)
      <4>1. /\ batches[api[c].batch].status = "absent" /\ api[c].batch \in Batch
            /\ api[c].todo \in SUBSET Profile
        BY <3>2, ApiFields DEF RunAllInsert, Serving, Inv, SafeInv, ApiOk, Early, GoodApi
      <4>2. \A p \in Profile : runs[<<api[c].batch, p>>].status = "absent"
        BY <4>1 DEF Inv, SafeInv, RowsOk, OwnedOk
      <4>3. CASE api[c].todo # {}
        <5>1. First(api[c].todo) \in Profile
          BY <4>1, <4>3, FirstProfile
        <5> QED
          BY <3>2, <4>1, <4>2, <5>1 DEF RunAllInsert
      <4>4. CASE api[c].todo = {}
        <5>1. 1 \in Profile
          BY ConstantsAssumption DEF Profile
        <5> QED
          BY <3>2, <4>1, <4>2, <4>4, <5>1 DEF RunAllInsert
      <4> QED
        BY <4>3, <4>4
    <3> QED
      BY <1>5, <3>1, <3>2
  <2>2. r # q
    BY <1>0, <2>1
  <2>3. runs'[r] = runs[r]
    BY <2>1, <2>2 DEF Inv, TypeInv, Typed
  <2> QED
    BY <2>3
<1>6. CASE RunAllMark(c) \/ RunAllEnqueueFails(c)
  <2>1. runs[api[c].run].status = "pending"
    BY <1>6 DEF RunAllMark, RunAllEnqueueFails, Serving, Inv, SafeInv, ApiOk, CurrentOk
  <2> QED
    BY <1>0, <1>6, <2>1 DEF RunAllMark, RunAllEnqueueFails, Inv, TypeInv, Typed
<1>7. CASE RunAllPlan(c) \/ RunAllEnqueue(c) \/ cancel_batch(c) \/ RunAllInsertInvalid(c)
           \/ RunAllCreateInvalid(c)
  BY <1>7 DEF RunAllPlan, RunAllEnqueue, cancel_batch, RunAllInsertInvalid, RunAllCreateInvalid
<1>8. /\ ~ ScanClose(c) /\ ~ ScanCreate(c) /\ ~ ScanEnqueue(c)
      /\ ~ ScanMark(c) /\ ~ ScanEnqueueFails(c)
  BY <1>3 DEF ScanClose, ScanCreate, ScanEnqueue, ScanMark, ScanEnqueueFails, Serving, ScanPcs
<1> QED
  BY <1>1, <1>4, <1>5, <1>6, <1>7, <1>8 DEF ApiStep, ApiError

\* Only the worker that executes a run writes over its outcome.
LEMMA StatusFrame ==
  ASSUME Inv, OneRequest, OutcomeInv, recon.pc = "up", MaxRestarts = 0, [Next]_vars,
         NEW r \in Run, runs[r].status \in TERMINAL_STATUSES
  PROVE  \/ runs'[r].status = runs[r].status
         \/ \E w \in Worker : worker[w].pc \in {"exec", "tail"} /\ worker[w].run = r
<1>0. "running" \notin TERMINAL_STATUSES
  BY DEF TERMINAL_STATUSES, SUCCESS_RUN_STATUSES, FAILED_RUN_STATUSES
<1>1. ASSUME NEW c \in Api, ApiBegin(c) \/ ApiStep(c) \/ ApiError(c)
      PROVE  runs'[r].status = runs[r].status
  BY <1>1, RequestsLeaveRuns
<1>2. ASSUME NEW w \in Worker, WorkerStep(w) \/ WorkerCrash(w)
      PROVE  \/ runs'[r].status = runs[r].status
             \/ worker[w].pc \in {"exec", "tail"} /\ worker[w].run = r
  <2>1. CASE WorkerTake(w) \/ WorkerAdvance(w) \/ WorkerCommit(w) \/ WorkerCrash(w)
    BY <2>1 DEF WorkerTake, WorkerAdvance, WorkerCommit, WorkerCrash
  <2>2. CASE WorkerClose(w)
    BY <1>0, <2>2, ClosesRunning DEF WorkerClose, OutcomeInv, WorkerTrue
  <2>3. CASE WorkerStart(w)
    <3>1. runs[worker[w].run].status \in TERMINAL_STATUSES => UNCHANGED runs
      BY <2>3 DEF WorkerStart
    <3> QED
      BY <2>3, <3>1 DEF WorkerStart, Inv, TypeInv, Typed
  <2>4. CASE WorkerTimeout(w) \/ WorkerFinish(w)
    BY <2>4 DEF WorkerTimeout, WorkerFinish, Inv, TypeInv, Typed
  <2> QED
    BY <1>2, <2>1, <2>2, <2>3, <2>4 DEF WorkerStep
<1>3. (\E q \in Run : RqCleanup(q)) \/ BackendCrash \/ Reconcile => UNCHANGED runs
  BY DEF RqCleanup, BackendCrash, Reconcile, ReconcileRead, ReconcileCommit
<1> QED
  BY <1>1, <1>2, <1>3 DEF Next, vars

\* advance_batch records the outcome of the run it is called for.
LEMMA AdvanceIsTrue ==
  ASSUME Inv, NEW b \in Batch, NEW p \in Profile, Ended(b, p), TrueOf(b, batches[b])
  PROVE  TrueOf(b, Advanced(batches[b], <<b, p>>, runs[<<b, p>>]))
<1> DEFINE bt  == batches[b]
           r   == <<b, p>>
           run == runs[r]
           old == WithOutcome(bt, run)
           new == Advanced(bt, r, run)
           fatal == run.profile = MetadataOnly /\ ~ Succeeded(run)
           stop  == Remaining(old) = {} \/ old.cancel \/ fatal
           current == IF stop THEN None ELSE First(Remaining(old))
           status == IF stop THEN ClosedStatus(old, fatal) ELSE "running"
<1>1. bt \in BatchRec /\ run.profile = p /\ run.status \in TERMINAL_STATUSES
  BY AbsentNotTerminal DEF Inv, SafeInv, RowsOk, OwnedOk, Ended, TypeInv, Typed
<1>2. old \in BatchRec
  BY <1>1 DEF WithOutcome, Appended, BatchRec
<1>3. IF run.status \in SUCCESS_RUN_STATUSES
        THEN old.completed = bt.completed \cup {p} /\ old.failed = bt.failed
        ELSE old.completed = bt.completed /\ old.failed = bt.failed \cup {p}
  BY <1>1 DEF WithOutcome, Appended, Succeeded, BatchRec
<1>4. new = [old EXCEPT !.last = r, !.current = current, !.status = status]
  BY DEF Advanced
<1>5. run.status \in SUCCESS_RUN_STATUSES \/ run.status \in FAILED_RUN_STATUSES
  BY <1>1 DEF TERMINAL_STATUSES
<1> HIDE DEF old, new, current, status
<1>6. new.completed = old.completed /\ new.failed = old.failed
  BY <1>2, <1>4 DEF BatchRec
<1>7. TrueOf(b, new)
  BY <1>3, <1>5, <1>6 DEF TrueOf
<1> QED
  BY <1>7 DEF new

\* What is recorded, or about to be, keeps its outcome.
LEMMA OutcomesKept ==
  ASSUME Inv, OneWorker, OneRequest, MaxRestarts = 0, recon.pc = "up", OutcomeInv, [Next]_vars,
         NEW b \in Batch, NEW bt \in BatchRec, TrueOf(b, bt),
         \/ bt = batches[b]
         \/ \E w \in Worker : worker[w].pc = "commit" /\ worker[w].batch = b /\ worker[w].new = bt
  PROVE  TrueOf(b, bt)'
<1>1. \A p \in Recorded(bt) : p \in Profile /\ Ended(b, p)
  <2>1. Recorded(bt) \subseteq Profile
    BY RecordedType
  <2>2. \A p \in Recorded(bt) : Ended(b, p)
    BY DEF Inv, SafeInv, RowsOk, RecordedRunsEnded, Ended, WorkerOk, NewOk
  <2> QED
    BY <2>1, <2>2
<1>2. ASSUME NEW p \in Recorded(bt) PROVE runs'[<<b, p>>].status = runs[<<b, p>>].status
  <2>1. <<b, p>> \in Run /\ runs[<<b, p>>].status \in TERMINAL_STATUSES
    BY <1>1, BatchRunType DEF Ended
  <2>2. ASSUME NEW w \in Worker, worker[w].pc \in {"exec", "tail"}, worker[w].run = <<b, p>>
        PROVE  FALSE
    <3>1. bt = batches[b]
      BY <2>2 DEF OneWorker
    <3> QED
      BY <2>2, <3>1 DEF OutcomeInv, WorkerTrue
  <2> QED
    BY <2>1, <2>2, StatusFrame
<1> QED
  BY <1>2 DEF TrueOf, Recorded

\* A step of the only worker.
LEMMA WorkerStaysTrue ==
  ASSUME Inv, OneWorker, OutcomeInv, NEW w \in Worker, WorkerStep(w) \/ WorkerCrash(w)
  PROVE  /\ worker'[w].pc # "close" => worker'[w].seen = {}
         /\ \A r \in worker'[w].seen : runs'[r].status = "running"
         /\ worker'[w].pc \in {"exec", "tail"} =>
              \A b \in Batch : \A p \in Recorded(batches'[b]) : worker'[w].run # <<b, p>>
<1>1. WorkerTrue(w) /\ worker[w] \in WorkerRec
  BY WorkerFields DEF OutcomeInv, Inv
<1>2. ASSUME NEW next, Hold(w, next) PROVE worker'[w] = next
  BY <1>2, WorkerAt
<1>3. IdleWorker.pc = "idle" /\ IdleWorker.seen = {}
  BY DEF IdleWorker
<1>4. CASE WorkerTake(w)
  <2> DEFINE next == [IdleWorker EXCEPT !.pc = "close", !.run = Head(queue),
                                        !.seen = RunningWithTask \ {Head(queue)}]
  <2>1. next.pc = "close" /\ next.seen \subseteq RunningWithTask
    BY DEF IdleWorker
  <2>2. worker'[w] = next /\ UNCHANGED runs
    BY <1>2, <1>4 DEF WorkerTake
  <2> HIDE DEF next
  <2> QED
    BY <2>1, <2>2 DEF RunningWithTask
<1>5. CASE WorkerClose(w)
  <2> DEFINE next == [worker[w] EXCEPT !.pc = "start", !.seen = {}]
  <2>1. next.pc = "start" /\ next.seen = {}
    BY <1>1 DEF WorkerRec
  <2>2. worker'[w] = next
    BY <1>2, <1>5 DEF WorkerClose
  <2> HIDE DEF next
  <2> QED
    BY <2>1, <2>2
<1>6. CASE WorkerStart(w)
  <2>1. CASE Hold(w, IdleWorker)
    BY <1>2, <1>3, <2>1
  <2>2. CASE ~ Hold(w, IdleWorker)
    <3> DEFINE next == [worker[w] EXCEPT !.pc = "exec"]
    <3>1. /\ worker'[w] = next /\ UNCHANGED batches
          /\ runs[worker[w].run].status \notin TERMINAL_STATUSES
      BY <1>2, <1>6, <2>2 DEF WorkerStart, JobEnds
    <3>2. next.seen = {} /\ next.run = worker[w].run
      BY <1>1, <1>6 DEF WorkerRec, WorkerTrue, WorkerStart
    <3>3. \A b \in Batch : \A p \in Recorded(batches[b]) : worker[w].run # <<b, p>>
      BY <3>1 DEF Inv, SafeInv, RowsOk, RecordedRunsEnded
    <3> HIDE DEF next
    <3> QED
      BY <3>1, <3>2, <3>3
  <2> QED
    BY <2>1, <2>2
<1>7. CASE WorkerTimeout(w)
  <2> DEFINE next == [worker[w] EXCEPT !.pc = "tail"]
  <2>1. next.seen = {} /\ next.run = worker[w].run
    BY <1>1, <1>7 DEF WorkerRec, WorkerTrue, WorkerTimeout
  <2>2. worker'[w] = next /\ UNCHANGED batches
    BY <1>2, <1>7 DEF WorkerTimeout
  <2> HIDE DEF next
  <2> QED
    BY <1>1, <1>7, <2>1, <2>2 DEF WorkerTrue, WorkerTimeout
<1>8. CASE WorkerFinish(w)
  <2> DEFINE next == [worker[w] EXCEPT !.pc = "advance", !.batch = runs[worker[w].run].batch]
  <2>1. next.seen = {} /\ next.pc = "advance"
    BY <1>1, <1>8 DEF WorkerRec, WorkerTrue, WorkerFinish
  <2>2. worker'[w] = next \/ worker'[w] = IdleWorker
    BY <1>2, <1>8 DEF WorkerFinish, JobEnds
  <2> HIDE DEF next
  <2> QED
    BY <1>3, <2>1, <2>2
<1>9. CASE WorkerAdvance(w)
  <2> DEFINE bt == batches[worker[w].batch]
             next == [worker[w] EXCEPT !.pc = "commit", !.snap = bt,
                        !.new = Advanced(bt, worker[w].run, runs[worker[w].run])]
  <2>1. next.seen = {} /\ next.pc = "commit"
    BY <1>1, <1>9 DEF WorkerRec, WorkerTrue, WorkerAdvance
  <2>2. worker'[w] = next \/ worker'[w] = IdleWorker
    BY <1>2, <1>9 DEF WorkerAdvance, JobEnds
  <2> HIDE DEF next
  <2> QED
    BY <1>3, <2>1, <2>2
<1>10. CASE WorkerCommit(w) \/ WorkerCrash(w)
  BY <1>2, <1>3, <1>10 DEF WorkerCommit, WorkerCrash, JobEnds
<1> QED
  BY <1>4, <1>5, <1>6, <1>7, <1>8, <1>9, <1>10 DEF WorkerStep

LEMMA OutcomeNext ==
  ASSUME Inv, OneWorker, OneRequest, MaxRestarts = 0, recon.pc = "up", OutcomeInv, [Next]_vars
  PROVE  OutcomeInv'
<1>1. \A c \in Api : api'[c].seen = {}
  BY SeenNothing
<1>2. ~ ReconcileCommit /\ ~ BackendCrash /\ ~ Reconcile
  BY DEF ReconcileCommit, BackendCrash, Reconcile, ReconcileRead, Inv, TypeInv, Typed
<1>3. ASSUME NEW b \in Batch PROVE TrueOf(b, batches[b])'
  <2>1. batches[b] \in BatchRec /\ TrueOf(b, batches[b])
    BY DEF Inv, TypeInv, Typed, OutcomeInv
  <2>2. /\ \A p \in batches[b].completed : runs'[<<b, p>>].status \in SUCCESS_RUN_STATUSES
        /\ \A p \in batches[b].failed : runs'[<<b, p>>].status \in FAILED_RUN_STATUSES
    BY <2>1, OutcomesKept DEF TrueOf
  <2>3. CASE AllSteady
    <3>1. \/ batches'[b].completed = batches[b].completed /\ batches'[b].failed = batches[b].failed
          \/ batches'[b].completed = {} /\ batches'[b].failed = {}
      BY <2>3 DEF AllSteady, Steady, Recorded
    <3> QED
      BY <2>2, <3>1 DEF TrueOf
  <2>4. ASSUME NEW w \in Worker, WorkerCommit(w) PROVE TrueOf(b, batches[b])'
    <3> DEFINE new == worker[w].new
               snap == worker[w].snap
    <3>1. /\ worker[w].pc = "commit" /\ CommitAdvance(worker[w].batch, snap, new)
          /\ worker[w].batch \in Batch /\ snap \in BatchRec /\ new \in BatchRec
          /\ TrueOf(worker[w].batch, new)
      BY <2>4, CommitFields DEF WorkerCommit, OutcomeInv, WorkerTrue
    <3>2. worker[w].batch = b =>
            /\ \A p \in new.completed : runs'[<<b, p>>].status \in SUCCESS_RUN_STATUSES
            /\ \A p \in new.failed : runs'[<<b, p>>].status \in FAILED_RUN_STATUSES
      BY <3>1, OutcomesKept DEF TrueOf
    <3> HIDE DEF new, snap
    <3>3. CASE UNCHANGED batches
      BY <2>2, <3>3 DEF TrueOf
    <3>4. CASE batches' # batches
      <4>1. /\ worker[w].batch # b => batches'[b] = batches[b]
            /\ worker[w].batch = b =>
                 /\ batches'[b].completed =
                      Column(batches[b].completed, snap.completed, new.completed)
                 /\ batches'[b].failed = Column(batches[b].failed, snap.failed, new.failed)
        BY <3>1, <3>4, CommitColumns
      <4> QED
        BY <2>2, <3>2, <4>1 DEF TrueOf, Column
    <3> QED
      BY <3>3, <3>4
  <2> QED
    BY <1>2, <2>3, <2>4, BatchesFrame
<1>4. ASSUME NEW w \in Worker, worker'[w].pc = "commit"
      PROVE  TrueOf(worker[w].batch, worker[w].new)'
  <2>1. CASE worker'[w] = worker[w]
    <3>1. /\ worker[w].pc = "commit" /\ worker[w].batch \in Batch /\ worker[w].new \in BatchRec
          /\ TrueOf(worker[w].batch, worker[w].new)
      BY <1>4, <2>1, CommitFields DEF OutcomeInv, WorkerTrue
    <3>2. /\ \A p \in worker[w].new.completed :
               runs'[<<worker[w].batch, p>>].status \in SUCCESS_RUN_STATUSES
          /\ \A p \in worker[w].new.failed :
               runs'[<<worker[w].batch, p>>].status \in FAILED_RUN_STATUSES
      BY <3>1, OutcomesKept DEF TrueOf
    <3> QED
      BY <2>1, <3>2 DEF TrueOf
  <2>2. CASE WorkerAdvance(w)
    <3>1. PICK b \in Batch, p \in Profile :
             /\ Ended(b, p)
             /\ worker'[w].batch = b
             /\ worker'[w].new = Advanced(batches[b], <<b, p>>, runs[<<b, p>>])
             /\ UNCHANGED <<batches, runs>>
      BY <1>4, <2>2, WorkerAdvances
    <3>2. TrueOf(b, worker'[w].new)
      BY <3>1, AdvanceIsTrue DEF OutcomeInv
    <3> QED
      BY <3>1, <3>2 DEF TrueOf
  <2> QED
    BY <1>4, <2>1, <2>2, AdvancersFrame
<1>5. ASSUME NEW w \in Worker
      PROVE  /\ worker'[w].pc # "close" => worker'[w].seen = {}
             /\ \A r \in worker'[w].seen : runs'[r].status = "running"
             /\ worker'[w].pc \in {"exec", "tail"} =>
                  \A b \in Batch : \A p \in Recorded(batches'[b]) : worker'[w].run # <<b, p>>
  <2>1. CASE WorkerStep(w) \/ WorkerCrash(w)
    BY <2>1, WorkerStaysTrue
  <2>2. CASE ~ (WorkerStep(w) \/ WorkerCrash(w))
    <3>1. \A v \in Worker : ~ (WorkerStep(v) \/ WorkerCrash(v))
      BY <2>2 DEF OneWorker
    <3>2. AllSteady
      BY <1>2, <3>1, BatchesFrame DEF WorkerStep
    <3>3. \A b \in Batch : Recorded(batches'[b]) \subseteq Recorded(batches[b])
      BY <3>2 DEF AllSteady, Steady, Recorded
    <3>4. UNCHANGED worker
      <4>1. ASSUME NEW r \in Run, RqCleanup(r) PROVE UNCHANGED worker
        BY <4>1 DEF RqCleanup
      <4> QED
        BY <1>2, <3>1, <4>1, RequestsAlone DEF Next, vars
    <3>5. ASSUME NEW r \in worker[w].seen PROVE runs'[r].status = "running"
      <4>1. r \in Run /\ runs[r].status = "running"
        BY WorkerFields DEF Inv, WorkerRec, OutcomeInv, WorkerTrue
      <4>2. ASSUME NEW c \in Api, ApiBegin(c) \/ ApiStep(c) \/ ApiError(c)
            PROVE  runs'[r].status = "running"
        BY <4>1, <4>2, RequestsLeaveRuns
      <4>3. (\E q \in Run : RqCleanup(q)) \/ UNCHANGED vars => UNCHANGED runs
        BY DEF RqCleanup, vars
      <4> QED
        BY <1>2, <3>1, <4>1, <4>2, <4>3 DEF Next
    <3> QED
      BY <3>3, <3>4, <3>5 DEF OutcomeInv, WorkerTrue
  <2> QED
    BY <2>1, <2>2
<1>6. \A w \in Worker : WorkerTrue(w)'
  BY <1>4, <1>5 DEF WorkerTrue
<1> QED
  BY <1>1, <1>3, <1>6 DEF OutcomeInv

LEMMA OutcomeInit == Init => OutcomeInv
  BY DEF Init, OutcomeInv, TrueOf, WorkerTrue, NoBatch, IdleApi, IdleWorker

\* With one worker, one batch, no single scan and no restart, for any number of
\* profiles, requests and faults: what the batch reports of a profile is how its
\* run ended.
THEOREM RecordedOutcomesAreTrue ==
  OneWorker /\ OneRequest /\ MaxRestarts = 0 => (Spec => []RecordedOutcomeIsTrue)
<1> SUFFICES ASSUME OneWorker, OneRequest, MaxRestarts = 0 PROVE Spec => []RecordedOutcomeIsTrue
  OBVIOUS
<1>1. Inv /\ FreshInv /\ OutcomeInv /\ [Next]_vars => OutcomeInv'
  BY OutcomeNext DEF FreshInv
<1>2. OutcomeInv => RecordedOutcomeIsTrue
  BY DEF OutcomeInv, TrueOf, RecordedOutcomeIsTrue
<1>3. Spec => [](Inv /\ PointInv /\ FreshInv)
  BY FreshInvariant
<1> QED
  BY <1>1, <1>2, <1>3, OutcomeInit, PTL DEF Spec

=============================================================================
