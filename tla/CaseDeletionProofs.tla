------------------------- MODULE CaseDeletionProofs -------------------------
(***************************************************************************)
(* Theorems about CaseDeletion: the ingest of EvidenceIngest, the AI jobs  *)
(* and the deletion of the case, for every set of jobs and requests.       *)
(***************************************************************************)
EXTENDS CaseDeletion, EvidenceIngestProofs

AiRow    == {"none", "unqueued"} \cup AiActive \cup AiEnded
AiRec    == [row : AiRow,
             rq : {"none", "queued", "started", "gone"}, overdue : BOOLEAN]
StartRec == [pc : {"idle", "enqueue", "commit", "fail"}, job : AiJobs \cup {NoAi}]

RequestsTyped ==
  /\ ai \in [AiJobs -> AiRec]
  /\ start \in StartRec
  /\ last \in AiJobs \cup {NoAi}
  /\ deletion \in {"idle", "checked", "committed", "done", "kept", "abandoned"}
  /\ inFlight \subseteq Jobs

CaseTyped == Typed /\ RequestsTyped

\* CaseTyped is CaseTypeOK with a name for each record type.
LEMMA CaseTypedIsCaseTypeOK == CaseTyped <=> CaseTypeOK
  BY TypedIsTypeOK DEF CaseTyped, RequestsTyped, CaseTypeOK, AiRec, AiRow, StartRec

LEMMA CaseInitType == CaseInit => CaseTyped
  BY InitType DEF CaseInit, CaseTyped, RequestsTyped, AiRec, AiRow, StartRec, AiActive, AiEnded

LEMMA AiRecords ==
  ASSUME NEW x \in AiRec
  PROVE  /\ \A s \in AiRow : [x EXCEPT !.row = s] \in AiRec
         /\ \A q \in {"none", "queued", "started", "gone"} : [x EXCEPT !.rq = q] \in AiRec
         /\ \A s \in AiRow :
              [x EXCEPT !.rq = "gone", !.row = s] \in AiRec
         /\ [x EXCEPT !.overdue = TRUE] \in AiRec
         /\ [row |-> "running", rq |-> "started", overdue |-> FALSE] \in AiRec
  BY DEF AiRec, AiRow, AiActive

LEMMA CaseTypeNext ==
  ASSUME CaseTyped, [CaseNext]_allVars PROVE CaseTyped'
<1>1. CASE IngestPart
  BY <1>1, TypeIngest, JobStartType DEF IngestPart, caseVars, CaseTyped, RequestsTyped
<1>2. CASE AiCreate
  <2>1. Typed'
    BY <1>2, TypeStutter DEF AiCreate, CaseTyped
  <2>2. ai' \in [AiJobs -> AiRec]
    <3>1. PICK k \in AiJobs : ai' = [ai EXCEPT ![k].row = "queued"]
      BY <1>2 DEF AiCreate
    <3>2. [ai[k] EXCEPT !.row = "queued"] \in AiRec
      BY AiRecords DEF CaseTyped, RequestsTyped, AiRow, AiActive
    <3> QED
      BY <3>1, <3>2 DEF CaseTyped, RequestsTyped
  <2> QED
    BY <1>2, <2>1, <2>2 DEF AiCreate, CaseTyped, RequestsTyped, StartRec
<1>3. CASE AiEnqueue
  <2>1. Typed'
    BY <1>3, TypeStutter DEF AiEnqueue, CaseTyped
  <2> QED
    BY <1>3, <2>1, AiRecords DEF AiEnqueue, CaseTyped, RequestsTyped, StartRec, AiActive, AiEnded
<1>4. CASE AiCommit
  <2>1. Typed'
    BY <1>4, TypeStutter DEF AiCommit, CaseTyped
  <2> QED
    BY <1>4, <2>1, AiRecords DEF AiCommit, CaseTyped, RequestsTyped, StartRec, AiActive, AiEnded
<1>5. CASE AiEnqueueFails
  <2>1. Typed'
    BY <1>5, TypeStutter DEF AiEnqueueFails, CaseTyped
  <2>2. ai' \in [AiJobs -> AiRec]
    <3>1. PICK q \in {"none", "queued"} : ai' = [ai EXCEPT ![start.job].rq = q]
      BY <1>5 DEF AiEnqueueFails
    <3> QED
      BY <3>1, AiRecords DEF CaseTyped, RequestsTyped
  <2> QED
    BY <1>5, <2>1, <2>2 DEF AiEnqueueFails, CaseTyped, RequestsTyped, StartRec
<1>6. CASE AiFail
  <2>1. Typed'
    BY <1>6, TypeStutter DEF AiFail, CaseTyped
  <2>2. ai' \in [AiJobs -> AiRec]
    <3>1. CASE start.job \in AiJobs
      <4>1. PICK s \in AiRow : ai' = [ai EXCEPT ![start.job].row = s]
        BY <1>6, <3>1 DEF AiFail, CaseTyped, RequestsTyped, AiRec, AiRow
      <4>2. [ai[start.job] EXCEPT !.row = s] \in AiRec
        BY <3>1, AiRecords DEF CaseTyped, RequestsTyped
      <4> QED
        BY <3>1, <4>1, <4>2 DEF CaseTyped, RequestsTyped
    <3>2. CASE start.job \notin AiJobs
      BY <1>6, <3>2 DEF AiFail, CaseTyped, RequestsTyped
    <3> QED
      BY <3>1, <3>2
  <2> QED
    BY <1>6, <2>1, <2>2 DEF AiFail, CaseTyped, RequestsTyped, StartRec
<1>7. ASSUME NEW k \in AiJobs, AiRun(k) PROVE CaseTyped'
  <2>1. Typed'
    BY <1>7, TypeStutter DEF AiRun, CaseTyped
  <2> QED
    BY <1>7, <2>1, AiRecords DEF AiRun, CaseTyped, RequestsTyped, StartRec, AiActive, AiEnded
<1>8. ASSUME NEW k \in AiJobs, AiFinish(k) PROVE CaseTyped'
  <2>1. Typed'
    BY <1>8, TypeStutter DEF AiFinish, CaseTyped
  <2>2. ai' \in [AiJobs -> AiRec]
    <3>1. PICK s \in AiRow :
            ai' = [ai EXCEPT ![k] = [ai[k] EXCEPT !.rq = "gone", !.row = s]]
      BY <1>8 DEF AiFinish, CaseTyped, RequestsTyped, AiRec, AiRow
    <3>2. [ai[k] EXCEPT !.rq = "gone", !.row = s] \in AiRec
      BY AiRecords DEF CaseTyped, RequestsTyped
    <3> QED
      BY <3>1, <3>2 DEF CaseTyped, RequestsTyped
  <2> QED
    BY <1>8, <2>1, <2>2 DEF AiFinish, CaseTyped, RequestsTyped, StartRec
<1>9. ASSUME NEW k \in AiJobs, AiKilled(k) PROVE CaseTyped'
  <2>1. Typed'
    BY <1>9, TypeStutter DEF AiKilled, CaseTyped
  <2> QED
    BY <1>9, <2>1, AiRecords DEF AiKilled, CaseTyped, RequestsTyped, StartRec, AiActive, AiEnded
<1>10. ASSUME NEW k \in AiJobs, AiAges(k) PROVE CaseTyped'
  <2>1. Typed'
    BY <1>10, TypeStutter DEF AiAges, CaseTyped
  <2> QED
    BY <1>10, <2>1, AiRecords DEF AiAges, CaseTyped, RequestsTyped, StartRec, AiActive, AiEnded
<1>11. CASE DeleteCheck
  <2>1. Typed'
    BY <1>11, TypeStutter DEF DeleteCheck, CaseTyped
  <2> QED
    BY <1>11, <2>1, AiRecords DEF DeleteCheck, CaseTyped, RequestsTyped, StartRec, AiActive, AiEnded
<1>12. CASE DeleteCommit
  <2>1. Typed'
    BY <1>12 DEF DeleteCommit, CaseTyped, Typed, RowRec
  <2>2. ai' \in [AiJobs -> AiRec]
    BY <1>12 DEF DeleteCommit, CaseTyped, RequestsTyped, AiRec, AiRow
  <2> QED
    BY <1>12, <2>1, <2>2 DEF DeleteCommit, CaseTyped, RequestsTyped
<1>13. CASE DeleteIndex
  <2>1. Typed'
    BY <1>13 DEF DeleteIndex, CaseTyped, Typed
  <2> QED
    BY <1>13, <2>1 DEF DeleteIndex, CaseTyped, RequestsTyped
<1>14. CASE DeleteDies
  <2>1. Typed'
    BY <1>14, TypeStutter DEF DeleteDies, CaseTyped
  <2> QED
    BY <1>14, <2>1, AiRecords DEF DeleteDies, CaseTyped, RequestsTyped, StartRec, AiActive, AiEnded
<1>15. ASSUME NEW j \in Jobs, JobLosesRow(j) PROVE CaseTyped'
  <2>1. Typed'
    BY <1>15, EndJobType DEF JobLosesRow, others, CaseTyped, Typed
  <2> QED
    BY <1>15, <2>1 DEF JobLosesRow, caseVars, CaseTyped, RequestsTyped
<1>16. CASE UNCHANGED allVars
  BY <1>16, TypeStutter DEF allVars, caseVars, CaseTyped, RequestsTyped
<1> QED
  BY <1>1, <1>2, <1>3, <1>4, <1>5, <1>7, <1>8, <1>9, <1>10, <1>11, <1>12, <1>13, <1>14, <1>15, <1>16,
     <1>6
  DEF CaseNext, AiStep, Deletion

\* The rows, jobs and requests of the case keep their types through its deletion.
THEOREM CaseTypeCorrect == CaseSpec => []CaseTypeOK
<1>1. CaseSpec => []CaseTyped
  BY CaseInitType, CaseTypeNext, PTL DEF CaseSpec
<1> QED
  BY <1>1, CaseTypedIsCaseTypeOK, PTL

-----------------------------------------------------------------------------
(* The outcome of an AI job.                                                 *)

\* What makes an outcome final: a job is put on the queue once and taken from it once, so
\* nothing can start a job that has ended.  The deletion may remove the row at any point,
\* and a request whose enqueue raised may call a queued or running job unqueued.
AiOrder ==
  /\ start.pc = "enqueue" => /\ start.job \in AiJobs
                             /\ ai[start.job].rq = "none"
                             /\ ai[start.job].row \in {"queued", "none"}
  /\ start.pc = "fail" => start.job \in AiJobs
  /\ \A k \in AiJobs : ai[k].rq = "queued" => ai[k].row \in {"queued", "unqueued", "none"}
  /\ \A k \in AiJobs : ai[k].rq = "started" => ai[k].row \in {"running", "unqueued", "none"}

AiKept == \A k \in AiJobs : ai[k].row \in AiEnded =>
            ai'[k].row \in {ai[k].row, "none"} \/ (AiFail /\ k = start.job)

\* Steps that leave the AI jobs and the request for one alone.
LEMMA AiFrame ==
  ASSUME AiOrder, UNCHANGED <<ai, start>> PROVE AiOrder' /\ AiKept
  BY DEF AiOrder, AiKept

\* The order is kept, and so is every outcome, step by step.
LEMMA AiNext ==
  ASSUME CaseTyped, AiOrder, [CaseNext]_allVars PROVE AiOrder' /\ AiKept
<1>1. CASE IngestPart
  BY <1>1, AiFrame DEF IngestPart, caseVars
<1>2. CASE AiCreate
  BY <1>2 DEF AiCreate, AiOrder, AiKept, CaseTyped, RequestsTyped, AiRec, AiRow, StartRec, AiEnded
<1>3. CASE AiEnqueue
  BY <1>3 DEF AiEnqueue, AiOrder, AiKept, CaseTyped, RequestsTyped, AiRec, AiRow, StartRec, AiEnded
<1>4. CASE AiCommit
  BY <1>4 DEF AiCommit, AiOrder, AiKept, CaseTyped, RequestsTyped, AiRec, AiRow, StartRec, AiEnded
<1>5. CASE AiEnqueueFails
  BY <1>5 DEF AiEnqueueFails, AiOrder, AiKept, CaseTyped, RequestsTyped, AiRec, AiRow, StartRec, AiEnded
<1>6. CASE AiFail
  BY <1>6 DEF AiFail, AiOrder, AiKept, CaseTyped, RequestsTyped, AiRec, AiRow, StartRec, AiEnded
<1>7. ASSUME NEW k \in AiJobs, AiRun(k) PROVE AiOrder' /\ AiKept
  BY <1>7 DEF AiRun, AiOrder, AiKept, CaseTyped, RequestsTyped, AiRec, AiRow, StartRec, AiEnded
<1>8. ASSUME NEW k \in AiJobs, AiFinish(k) PROVE AiOrder' /\ AiKept
  BY <1>8 DEF AiFinish, AiOrder, AiKept, CaseTyped, RequestsTyped, AiRec, AiRow, StartRec, AiEnded
<1>9. ASSUME NEW k \in AiJobs, AiKilled(k) PROVE AiOrder' /\ AiKept
  BY <1>9 DEF AiKilled, AiOrder, AiKept, CaseTyped, RequestsTyped, AiRec, AiRow, StartRec, AiEnded
<1>10. ASSUME NEW k \in AiJobs, AiAges(k) PROVE AiOrder' /\ AiKept
  BY <1>10 DEF AiAges, AiOrder, AiKept, CaseTyped, RequestsTyped, AiRec, AiRow, StartRec, AiEnded
<1>11. CASE DeleteCheck
  BY <1>11, AiFrame DEF DeleteCheck
<1>12. CASE DeleteCommit
  BY <1>12 DEF DeleteCommit, AiOrder, AiKept, CaseTyped, RequestsTyped, AiRec, AiRow, StartRec, AiEnded
<1>13. CASE DeleteIndex
  BY <1>13, AiFrame DEF DeleteIndex
<1>14. CASE DeleteDies
  BY <1>14, AiFrame DEF DeleteDies
<1>15. ASSUME NEW j \in Jobs, JobLosesRow(j) PROVE AiOrder' /\ AiKept
  BY <1>15, AiFrame DEF JobLosesRow, caseVars
<1>16. CASE UNCHANGED allVars
  BY <1>16, AiFrame DEF allVars, caseVars
<1> QED
  BY <1>1, <1>2, <1>3, <1>4, <1>5, <1>7, <1>8, <1>9, <1>10, <1>11, <1>12, <1>13, <1>14, <1>15, <1>16,
     <1>6
  DEF CaseNext, AiStep, Deletion

\* The outcome the worker commits for an AI job stays in its row, through the later commit
\* of the request that queued it, a second request for a job that passed for stalled, a
\* killed worker and the deletion of the case (run_ai_job).  Only start_ai_job writes over
\* it, when its enqueue raised although Redis had taken the job.
THEOREM AiOutcomeStays == CaseSpec => AiOutcomeIsFinal
<1>1. CaseInit => AiOrder
  BY DEF CaseInit, AiOrder
<1>2. CaseSpec => [](CaseTyped /\ AiOrder)
  BY <1>1, CaseInitType, CaseTypeNext, AiNext, PTL DEF CaseSpec
<1>3. ASSUME CaseTyped, AiOrder, [CaseNext]_allVars
      PROVE  [AiKept]_allVars
  BY <1>3, AiNext
<1> QED
  BY <1>2, <1>3, PTL DEF CaseSpec, AiOutcomeIsFinal, AiKept

-----------------------------------------------------------------------------
(* The events of a deleted case.                                             *)

\* The inductive invariant: once the rows are gone no job starts, so every running job
\* was running when they went; and the events left after delete_case_index are of those
\* jobs alone.
Deleted ==
  /\ ~ CaseThere => ~ row.there
  /\ ~ row.there => \A j \in Jobs : Running(j) => j \in inFlight
  /\ deletion = "done" => indexed \subseteq inFlight

\* What the ingest's steps may do to a deleted case: start no job, and index events of
\* running jobs only.
Quiet ==
  /\ row'.there = row.there
  /\ \A j \in Jobs : Running(j)' => Running(j)
  /\ \A j \in indexed' : j \in indexed \/ (j \in Jobs /\ Running(j))

LEMMA QuietFrame ==
  ASSUME UNCHANGED <<jobs, indexed>>, row'.there = row.there PROVE Quiet
  BY DEF Quiet, Running

LEMMA QuietJob ==
  ASSUME NEW j \in Jobs, UNCHANGED indexed, row'.there = row.there,
         \A i \in Jobs : i # j => jobs'[i] = jobs[i],
         jobs'[j].state = "started" => jobs[j].state = "started"
  PROVE  Quiet
  BY DEF Quiet, Running

LEMMA CommitThere ==
  ASSUME Typed, NEW s, NEW m, NEW old, Commit(s, m, old) PROVE row'.there = row.there
  BY DEF Commit, Typed, RowRec

\* enqueue_ingest leaves a job as it is, or queues it.
LEMMA EnqueueIs ==
  ASSUME Typed, NEW r, EnqueueJob(r)
  PROVE  \A j \in Jobs : jobs'[j] = jobs[j] \/ jobs'[j].state = "queued"
<1>1. CASE UNCHANGED jobs
  BY <1>1
<1>2. ASSUME NEW i \in Jobs, jobs' = [jobs EXCEPT ![i].state = "queued", ![i].asked = r]
      PROVE  \A j \in Jobs : jobs'[j] = jobs[j] \/ jobs'[j].state = "queued"
  BY <1>2 DEF Typed, JobRec
<1> QED
  BY <1>1, <1>2 DEF EnqueueJob

\* Every step of the ingest but the start of a job is quiet ...
LEMMA IngestIsQuiet ==
  ASSUME Typed, IngestStep PROVE Quiet
<1>1. ASSUME NEW a \in Api, NEW r \in Runs, ReprocessRead(a, r) PROVE Quiet
  BY <1>1, QuietFrame DEF ReprocessRead
<1>2. ASSUME NEW a \in Api, ReprocessCommit(a) PROVE Quiet
  BY <1>2, QuietFrame DEF ReprocessCommit, Typed, RowRec
<1>3. ASSUME NEW a \in Api, Enqueue(a) PROVE Quiet
  <2>1. \A j \in Jobs : jobs'[j] = jobs[j] \/ jobs'[j].state = "queued"
    BY <1>3, EnqueueIs DEF Enqueue
  <2> QED
    BY <1>3, <2>1 DEF Enqueue, Quiet, Running
<1>4. ASSUME NEW a \in Api, EnqueueFails(a) PROVE Quiet
  BY <1>4, QuietFrame DEF EnqueueFails, Typed, RowRec
<1>5. ASSUME NEW a \in Api, RequestDies(a) PROVE Quiet
  BY <1>5, QuietFrame DEF RequestDies
<1>6. CASE Cancel
  BY <1>6, QuietFrame DEF Cancel
<1>7. CASE Pause
  BY <1>7, QuietFrame DEF Pause
<1>8. CASE PauseStarted
  BY <1>8, QuietFrame DEF PauseStarted
<1>9. CASE PauseQueued
  <2>1. \A j \in Jobs : jobs'[j] = jobs[j] \/ jobs'[j].state = "finished"
    BY <1>9 DEF PauseQueued, NoJob, Typed
  <2> QED
    BY <1>9, <2>1 DEF PauseQueued, Quiet, Running
<1>10. CASE HaltRelease
  BY <1>10, QuietFrame, CommitThere DEF HaltRelease
<1>11. CASE HaltDies
  BY <1>11, QuietFrame DEF HaltDies
<1>12. CASE WatchLook
  BY <1>12, QuietFrame DEF WatchLook
<1>13. CASE WatchQueue
  BY <1>13, QuietFrame DEF WatchQueue
<1>14. CASE WatchRelease
  BY <1>14, QuietFrame, CommitThere DEF WatchRelease
<1>15. CASE TimePasses
  BY <1>15, QuietFrame DEF TimePasses, Typed, RowRec
<1>16. ASSUME NEW j \in Jobs, JobLoad(j) PROVE Quiet
  BY <1>16, QuietJob DEF JobLoad, Running, Typed, JobRec
<1>17. ASSUME NEW j \in Jobs, JobPrepare(j) PROVE Quiet
  <2>1. row'.there = row.there
    BY <1>17, CommitThere DEF JobPrepare
  <2>2. jobs'[j].state = jobs[j].state /\ \A i \in Jobs : i # j => jobs'[i] = jobs[i]
    BY <1>17, GotoReadIs DEF JobPrepare
  <2> QED
    BY <1>17, <2>1, <2>2, QuietJob DEF JobPrepare, others
<1>18. ASSUME NEW j \in Jobs, JobClean(j) PROVE Quiet
  BY <1>18, CommitThere, QuietJob, GotoIs DEF JobClean, Report
<1>19. ASSUME NEW j \in Jobs, JobWipe(j) PROVE Quiet
  BY <1>19 DEF JobWipe, At, Quiet, Running, Typed, JobRec
<1>20. ASSUME NEW j \in Jobs, JobWipeFails(j) PROVE Quiet
  BY <1>20 DEF JobWipeFails, At, Quiet, Running, Typed, JobRec
<1>21. ASSUME NEW j \in Jobs, JobWiped(j) PROVE Quiet
  BY <1>21, CommitThere, QuietJob, GotoReadIs DEF JobWiped
<1>22. ASSUME NEW j \in Jobs, JobBegin(j) PROVE Quiet
  BY <1>22, CommitThere, QuietJob, GotoIs DEF JobBegin
<1>23. ASSUME NEW j \in Jobs, JobAnnounce(j) PROVE Quiet
  BY <1>23, CommitThere, QuietJob, GotoIs DEF JobAnnounce, Report
<1>24. ASSUME NEW j \in Jobs, JobExtracted(j) PROVE Quiet
  BY <1>24, CommitThere, QuietJob, GotoIs DEF JobExtracted
<1>25. ASSUME NEW j \in Jobs, JobIndex(j) PROVE Quiet
  BY <1>25 DEF JobIndex, At, Quiet, Running, Typed, JobRec
<1>26. ASSUME NEW j \in Jobs, JobBeat(j) PROVE Quiet
  BY <1>26, CommitThere, QuietJob, GotoIs DEF JobBeat, Report
<1>27. ASSUME NEW j \in Jobs, JobFinalize(j) PROVE Quiet
  BY <1>27, CommitThere, QuietJob, GotoIs DEF JobFinalize
<1>28. ASSUME NEW j \in Jobs, JobClose(j) PROVE Quiet
  BY <1>28, CommitThere, QuietJob, GotoIs DEF JobClose
<1>29. ASSUME NEW j \in Jobs, JobLast(j) PROVE Quiet
  <2>1. row'.there = row.there
    BY <1>29, CommitThere DEF JobLast, Report
  <2> QED
    BY <1>29, <2>1, QuietJob, EndJobIs DEF JobLast
<1>30. ASSUME NEW j \in Jobs, JobExtracts(j) PROVE Quiet
  BY <1>30, QuietFrame DEF JobExtracts, Typed, RowRec
<1>31. ASSUME NEW j \in Jobs, JobFails(j) PROVE Quiet
  <2>1. row'.there = row.there
    BY <1>31 DEF JobFails, Typed, RowRec
  <2> QED
    BY <1>31, <2>1, QuietJob, EndJobIs DEF JobFails
<1>32. ASSUME NEW j \in Jobs, JobStopped(j) PROVE Quiet
  BY <1>32, QuietJob, EndJobIs DEF JobStopped
<1>33. ASSUME NEW j \in Jobs, HorseKilled(j) PROVE Quiet
  BY <1>33, QuietJob, EndJobIs DEF HorseKilled
<1>34. ASSUME NEW j \in Jobs, WorkerDies(j) PROVE Quiet
  BY <1>34, QuietJob, EndJobIs DEF WorkerDies
<1>35. ASSUME NEW j \in Jobs, GhostExpires(j) PROVE Quiet
  BY <1>35, QuietJob, EndJobIs DEF GhostExpires
<1> QED
  BY <1>1, <1>2, <1>3, <1>4, <1>5, <1>6, <1>7, <1>8, <1>9, <1>10, <1>11, <1>12,
     <1>13, <1>14, <1>15, <1>16, <1>17, <1>18, <1>19, <1>20, <1>21, <1>22, <1>23, <1>24,
     <1>25, <1>26, <1>27, <1>28, <1>29, <1>30, <1>31, <1>32, <1>33, <1>34, <1>35
  DEF IngestStep, Request, Halt, Watch, JobSteps

\* ... and so is the start of a job whose evidence is gone: it ends at once.
LEMMA StartIsQuiet ==
  ASSUME Typed, ~ row.there, NEW j \in Jobs, JobStart(j) PROVE Quiet
  BY QuietJob, EndJobIs DEF JobStart

\* Quiet steps of the ingest keep the invariant.
LEMMA DeletedQuiet ==
  ASSUME CaseTyped, Deleted, Quiet, UNCHANGED <<deletion, inFlight>> PROVE Deleted'
<1>1. (~ CaseThere => ~ row.there)'
  BY DEF Deleted, Quiet, CaseThere
<1>2. (~ row.there => \A j \in Jobs : Running(j) => j \in inFlight)'
  BY DEF Deleted, Quiet
<1>3. (deletion = "done" => indexed \subseteq inFlight)'
  BY DEF Deleted, Quiet, CaseThere
<1> QED
  BY <1>1, <1>2, <1>3 DEF Deleted

\* Every step of the case keeps it.
LEMMA DeletedNext ==
  ASSUME CaseTyped, Deleted, [CaseNext]_allVars PROVE Deleted'
<1>1. CASE IngestPart
  <2>1. CASE IngestStep
    BY <1>1, <2>1, IngestIsQuiet, DeletedQuiet DEF IngestPart, caseVars, CaseTyped
  <2>2. ASSUME NEW j \in Jobs, JobStart(j) PROVE Deleted'
    <3>1. CASE ~ row.there
      BY <1>1, <2>2, <3>1, StartIsQuiet, DeletedQuiet DEF IngestPart, caseVars, CaseTyped
    <3>2. CASE row.there
      BY <1>1, <2>2, <3>2 DEF IngestPart, caseVars, JobStart, Deleted, CaseThere
    <3> QED
      BY <3>1, <3>2
  <2> QED
    BY <1>1, <2>1, <2>2 DEF IngestPart
<1>2. CASE AiCreate
  BY <1>2, QuietFrame, DeletedQuiet DEF AiCreate, vars
<1>3. CASE AiEnqueue
  BY <1>3, QuietFrame, DeletedQuiet DEF AiEnqueue, vars
<1>4. CASE AiCommit
  BY <1>4, QuietFrame, DeletedQuiet DEF AiCommit, vars
<1>5. CASE AiEnqueueFails
  BY <1>5, QuietFrame, DeletedQuiet DEF AiEnqueueFails, vars
<1>6. CASE AiFail
  BY <1>6, QuietFrame, DeletedQuiet DEF AiFail, vars
<1>7. ASSUME NEW k \in AiJobs, AiRun(k) PROVE Deleted'
  BY <1>7, QuietFrame, DeletedQuiet DEF AiRun, vars
<1>8. ASSUME NEW k \in AiJobs, AiFinish(k) PROVE Deleted'
  BY <1>8, QuietFrame, DeletedQuiet DEF AiFinish, vars
<1>9. ASSUME NEW k \in AiJobs, AiKilled(k) PROVE Deleted'
  BY <1>9, QuietFrame, DeletedQuiet DEF AiKilled, vars
<1>10. ASSUME NEW k \in AiJobs, AiAges(k) PROVE Deleted'
  BY <1>10, QuietFrame, DeletedQuiet DEF AiAges, vars
<1>11. CASE DeleteCheck
  BY <1>11 DEF DeleteCheck, vars, Deleted, CaseThere, Running
<1>12. CASE DeleteCommit
  <2>1. ~ row'.there
    BY <1>12 DEF DeleteCommit, CaseTyped, Typed, RowRec
  <2>2. \A j \in Jobs : Running(j)' => j \in inFlight'
    BY <1>12 DEF DeleteCommit, Running
  <2> QED
    BY <1>12, <2>1, <2>2 DEF DeleteCommit, Deleted
<1>13. CASE DeleteIndex
  BY <1>13 DEF DeleteIndex, Deleted, CaseThere, Running
<1>14. CASE DeleteDies
  BY <1>14 DEF DeleteDies, vars, Deleted, CaseThere, Running
<1>15. ASSUME NEW j \in Jobs, JobLosesRow(j) PROVE Deleted'
  <2>1. Quiet
    BY <1>15, QuietJob, EndJobIs DEF JobLosesRow, CaseTyped
  <2> QED
    BY <1>15, <2>1, DeletedQuiet DEF JobLosesRow, caseVars
<1>16. CASE UNCHANGED allVars
  BY <1>16, QuietFrame, DeletedQuiet DEF allVars, vars, caseVars
<1> QED
  BY <1>1, <1>2, <1>3, <1>4, <1>5, <1>7, <1>8, <1>9, <1>10, <1>11, <1>12, <1>13, <1>14, <1>15, <1>16,
     <1>6
  DEF CaseNext, AiStep, Deletion

\* After a delete_case that reports the index deleted, the only events that are or become
\* searchable are of ingests that ran when the rows were deleted, whatever was requested,
\* queued, cancelled, paused and watched meanwhile, and whoever crashed.
THEOREM DeletionRemovesEvents == CaseSpec => []DeletedCaseKeepsNoEvents
<1>1. CaseInit => Deleted
  <2> SUFFICES ASSUME CaseInit PROVE Deleted
    OBVIOUS
  <2>1. deletion = "idle"
    BY DEF CaseInit
  <2>2. row.there = TRUE
    BY DEF CaseInit, Init
  <2> QED
    BY <2>1, <2>2 DEF Deleted, CaseThere
<1>2. CaseSpec => [](CaseTyped /\ Deleted)
  BY <1>1, CaseInitType, CaseTypeNext, DeletedNext, PTL DEF CaseSpec
<1>3. Deleted => DeletedCaseKeepsNoEvents
  BY DEF Deleted, DeletedCaseKeepsNoEvents
<1> QED
  BY <1>2, <1>3, PTL

-----------------------------------------------------------------------------
(* The ingest keeps its promise while the case is deleted around it.         *)

\* The deletion and the AI jobs do not disturb the marker and the one ingest.
LEMMA CaseOneIngestNext ==
  ASSUME Typed, OneIngest, [CaseNext]_allVars PROVE OneIngest'
<1>0. ASSUME UNCHANGED vars PROVE OneIngest'
  BY <1>0, OneFrame, TypeStutter DEF vars
<1>1. CASE IngestPart
  <2>1. CASE IngestStep
    BY <2>1, OneIngestStep
  <2>2. ASSUME NEW j \in Jobs, JobStart(j) PROVE OneIngest'
    BY <2>2, OneIngestStart
  <2> QED
    BY <1>1, <2>1, <2>2 DEF IngestPart
<1>2. CASE AiStep
  BY <1>0, <1>2 DEF AiStep, AiCreate, AiEnqueue, AiCommit, AiEnqueueFails, AiFail, AiRun, AiFinish,
                    AiKilled, AiAges
<1>3. CASE DeleteCheck \/ DeleteDies \/ UNCHANGED allVars
  BY <1>0, <1>3 DEF DeleteCheck, DeleteDies, allVars
<1>4. CASE DeleteCommit
  <2>1. Kept
    BY <1>4 DEF DeleteCommit, Kept, Typed, RowRec
  <2> QED
    BY <1>4, <2>1, OneFrame DEF DeleteCommit
<1>5. CASE DeleteIndex
  <2>1. indexed' = indexed \/ indexed' = {}
    BY <1>5 DEF DeleteIndex
  <2>2. UNCHANGED <<row, jobs, api, blame>>
    BY <1>5 DEF DeleteIndex
  <2> QED
    BY <2>1, <2>2 DEF OneIngest, OneAlive, Alive, Marked, Queued, Running
<1>6. ASSUME NEW j \in Jobs, JobLosesRow(j) PROVE OneIngest'
  <2>1. \A i \in Jobs : jobs'[i] = jobs[i] \/ jobs'[i].state \in {"finished", "failed", "ghost"}
    BY <1>6, EndJobIs DEF JobLosesRow
  <2>2. Kept
    BY <1>6 DEF JobLosesRow, Kept
  <2> QED
    BY <1>6, <2>1, <2>2, OneEnd DEF JobLosesRow, others
<1> QED
  BY <1>1, <1>2, <1>3, <1>4, <1>5, <1>6 DEF CaseNext, Deletion

\* EventsOfOneIngest holds also while AI jobs share the worker and the case is deleted
\* under the ingest.
THEOREM CaseEventsOfOneIngest == CaseSpec => []EventsAreOneIngest
<1>1. CaseInit => CaseTyped /\ OneIngest
  BY CaseInitType, OneIngestInit DEF CaseInit
<1>2. ASSUME CaseTyped, OneIngest, [CaseNext]_allVars PROVE OneIngest'
  BY <1>2, CaseOneIngestNext DEF CaseTyped
<1>3. CaseSpec => [](CaseTyped /\ OneIngest)
  BY <1>1, <1>2, CaseTypeNext, PTL DEF CaseSpec
<1> QED
  BY <1>3, OneIngestEvents, PTL

=============================================================================
