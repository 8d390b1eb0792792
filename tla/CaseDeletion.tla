---------------------------- MODULE CaseDeletion ----------------------------
(***************************************************************************)
(* A case with one evidence and its AI jobs (services/ai/jobs.py), and the  *)
(* deletion of the case (services/case_deletion.py) while ingests and AI    *)
(* jobs are requested and run.  Ingest and AI jobs share the one worker of  *)
(* workers/worker.py, which takes an ingest first.                          *)
(***************************************************************************)
EXTENDS EvidenceIngest

CONSTANTS AiJobs,    \* ids of AI jobs of one kind and target
          NoAi       \* no AI job

ASSUME AiConstants == NoAi \notin AiJobs

VARIABLES ai,        \* the CaseAnalysisJob rows and their RQ jobs
          start,     \* the request start_ai_job
          last,      \* the job created last
          deletion,  \* the request delete_case
          inFlight   \* ingest jobs running when the deletion was committed

caseVars == <<ai, start, last, deletion, inFlight>>
allVars == <<vars, caseVars>>

AiActive == {"queued", "running"}
\* The outcomes the worker writes; "unqueued" is the failed of start_ai_job, with its
\* own message.
AiEnded == {"completed", "failed"}

CaseInit ==
  /\ Init
  \* row is the status of the job's row, rq its place in RQ, overdue: past its timeout
  /\ ai = [k \in AiJobs |-> [row |-> "none", rq |-> "none", overdue |-> FALSE]]
  /\ start = [pc |-> "idle", job |-> NoAi]
  /\ last = NoAi
  /\ deletion = "idle"
  /\ inFlight = {}

CaseThere == deletion \in {"idle", "checked"}
AiRuns == \E k \in AiJobs : ai[k].rq = "started"

-----------------------------------------------------------------------------
(* AI jobs.                                                                  *)

\* start_ai_job: a job that is active and not _stalled is returned, else one is
\* made (one request at a time).
AiCreate ==
  /\ CaseThere /\ start.pc = "idle"
  /\ \A k \in AiJobs : k = last => ai[k].row \notin AiActive \/ ai[k].overdue
  /\ \E k \in AiJobs :
       /\ ai[k].row = "none" /\ ai[k].rq = "none"
       /\ ai' = [ai EXCEPT ![k].row = "queued"]
       /\ start' = [pc |-> "enqueue", job |-> k]
       /\ last' = k
  /\ UNCHANGED <<vars, deletion, inFlight>>

\* enqueue_ai_job puts the job on the queue ...
AiEnqueue ==
  /\ start.pc = "enqueue"
  /\ ai' = [ai EXCEPT ![start.job].rq = "queued"]
  /\ start' = [start EXCEPT !.pc = "commit"]
  /\ UNCHANGED <<vars, last, deletion, inFlight>>

\* Mutant: the request writes back the whole row it created.
AiCommitMut ==
  /\ start.pc = "commit"
  /\ start' = [pc |-> "idle", job |-> NoAi]
  /\ ai' = [ai EXCEPT ![start.job].row = IF CaseThere THEN "queued" ELSE @]
  /\ UNCHANGED <<vars, last, deletion, inFlight>>

\* ... and its id is committed, the one column the request has changed since.
AiCommit ==
  /\ start.pc = "commit"
  /\ start' = [pc |-> "idle", job |-> NoAi]
  /\ UNCHANGED <<vars, ai, last, deletion, inFlight>>

\* Redis does not answer, whether or not it has taken the job ...
AiEnqueueFails ==
  /\ start.pc = "enqueue"
  /\ \E rq \in {"none", "queued"} : ai' = [ai EXCEPT ![start.job].rq = rq]
  /\ start' = [start EXCEPT !.pc = "fail"]
  /\ UNCHANGED <<vars, last, deletion, inFlight>>

\* Mutant: a status the column does not know.
AiFailMut ==
  /\ start.pc = "fail"
  /\ ai' = [ai EXCEPT ![start.job].row = IF CaseThere THEN "error" ELSE @]
  /\ start' = [pc |-> "idle", job |-> NoAi]
  /\ UNCHANGED <<vars, last, deletion, inFlight>>

\* ... and the row says so, if it is still there.
AiFail ==
  /\ start.pc = "fail"
  /\ ai' = [ai EXCEPT ![start.job].row = IF CaseThere THEN "unqueued" ELSE @]
  /\ start' = [pc |-> "idle", job |-> NoAi]
  /\ UNCHANGED <<vars, last, deletion, inFlight>>

\* The worker takes an AI job when no ingest waits; run_ai_job returns if the
\* row is gone.
AiRun(k) ==
  /\ ai[k].rq = "queued" /\ WorkerFree /\ ~ AiRuns
  /\ \A j \in Jobs : ~ Queued(j)
  /\ ai' = [ai EXCEPT ![k] = IF @.row = "none" THEN [@ EXCEPT !.rq = "gone"]
                             ELSE [row |-> "running", rq |-> "started", overdue |-> FALSE]]
  /\ UNCHANGED <<vars, start, last, deletion, inFlight>>

\* The result, an error or the job's timeout is committed, unless the row is gone.
AiFinish(k) ==
  /\ ai[k].rq = "started"
  /\ \E s \in AiEnded :
       ai' = [ai EXCEPT ![k].rq = "gone", ![k].row = IF @ = "none" THEN "none" ELSE s]
  /\ UNCHANGED <<vars, start, last, deletion, inFlight>>

\* The worker dies with the AI job; nothing tells the row.
AiKilled(k) ==
  /\ ai[k].rq = "started"
  /\ ai' = [ai EXCEPT ![k].rq = "gone"]
  /\ UNCHANGED <<vars, start, last, deletion, inFlight>>

\* An active job grows older than its timeout: it waits behind an ingest, its worker
\* died, or the computer slept while it ran.
AiAges(k) ==
  /\ ai[k].row \in AiActive /\ ~ ai[k].overdue
  /\ ai' = [ai EXCEPT ![k].overdue = TRUE]
  /\ UNCHANGED <<vars, start, last, deletion, inFlight>>

-----------------------------------------------------------------------------
(* Deletion of the case.                                                     *)

\* delete_case begins with case_has_active_processing: an evidence that is being
\* processed or an active AI job refuses it, a pending evidence does not.
DeleteCheck ==
  /\ deletion = "idle"
  /\ row.status # "processing"
  /\ \A k \in AiJobs : ai[k].row \notin AiActive
  /\ deletion' = "checked"
  /\ UNCHANGED <<vars, ai, start, last, inFlight>>

\* The rows go in one transaction.
DeleteCommit ==
  /\ deletion = "checked"
  /\ deletion' = "committed"
  /\ row' = [row EXCEPT !.there = FALSE]
  /\ ai' = [k \in AiJobs |-> [ai[k] EXCEPT !.row = "none"]]
  /\ inFlight' = {j \in Jobs : Running(j)}
  /\ UNCHANGED <<jobs, stops, indexed, api, halt, watch, blame, issued, released, upsets, start, last>>

\* A commit or a read of the ingest finds the row deleted; its exception handler finds
\* it gone too, and fails.
JobLosesRow(j) ==
  /\ Running(j) /\ ~ row.there
  /\ jobs[j].pc \notin {"wipe", "parse"} \/ ~ jobs[j].loaded
  /\ EndJob(j, "failed")
  /\ UNCHANGED <<row, indexed, blame, others, caseVars>>

\* Mutant: the events are looked up by the evidence rows, which are gone by now.
DeleteIndexMut ==
  /\ deletion = "committed"
  /\ deletion' = "done"
  /\ indexed' = IF row.there THEN {} ELSE indexed
  /\ UNCHANGED <<row, jobs, stops, api, halt, watch, blame, issued, released, upsets,
                 ai, start, last, inFlight>>

\* delete_case_index, after the commit, and what it returns to be reported: "done", or
\* "kept" when OpenSearch refuses, which it logs and no more.
DeleteIndex ==
  /\ deletion = "committed"
  /\ \/ deletion' = "done" /\ indexed' = {}
     \/ deletion' = "kept" /\ UNCHANGED indexed
  /\ UNCHANGED <<row, jobs, stops, api, halt, watch, blame, issued, released, upsets,
                 ai, start, last, inFlight>>

\* The server dies in between.
DeleteDies ==
  /\ deletion \in {"checked", "committed"}
  /\ deletion' = IF deletion = "checked" THEN "idle" ELSE "abandoned"
  /\ UNCHANGED <<vars, ai, start, last, inFlight>>

-----------------------------------------------------------------------------

Deletion == DeleteCheck \/ DeleteCommit \/ DeleteIndex \/ DeleteDies

AiStep ==
  \/ AiCreate \/ AiEnqueue \/ AiCommit \/ AiEnqueueFails \/ AiFail
  \/ \E k \in AiJobs : AiRun(k) \/ AiFinish(k) \/ AiKilled(k) \/ AiAges(k)

\* The worker takes an ingest only when it is not busy with an AI job.
IngestPart == (IngestStep \/ (~ AiRuns /\ \E j \in Jobs : JobStart(j))) /\ UNCHANGED caseVars

CaseNext == IngestPart \/ AiStep \/ Deletion \/ \E j \in Jobs : JobLosesRow(j)

CaseSpec == CaseInit /\ [][CaseNext]_allVars

-----------------------------------------------------------------------------
(* Properties.                                                               *)

\* The rows and requests have their declared type.
CaseTypeOK ==
  /\ TypeOK
  /\ ai \in [AiJobs -> [row : {"none", "unqueued"} \cup AiActive \cup AiEnded,
                        rq : {"none", "queued", "started", "gone"}, overdue : BOOLEAN]]
  /\ start \in [pc : {"idle", "enqueue", "commit", "fail"}, job : AiJobs \cup {NoAi}]
  /\ last \in AiJobs \cup {NoAi}
  /\ deletion \in {"idle", "checked", "committed", "done", "kept", "abandoned"}
  /\ inFlight \subseteq Jobs

\* When delete_case reports the index of the case deleted, the only events that are or
\* become searchable again are of ingests that ran when the rows were deleted, although
\* others were requested, queued and watched meanwhile (case_deletion.py
\* delete_case; a job that starts later finds no evidence).
DeletedCaseKeepsNoEvents == deletion = "done" => indexed \subseteq inFlight

\* The outcome the worker has committed for an AI job stays in its row: the commit of
\* the request that queued it may come later, and a job that passed for stalled may
\* have been queued a second time.  Only a request whose enqueue raised after Redis
\* had taken the job writes over it, that the job could not be queued (ai/jobs.py:81).
\* What serialize_job makes of an overdue row is not the row.
AiOutcomeIsFinal ==
  [][\A k \in AiJobs : ai[k].row \in AiEnded =>
       ai'[k].row \in {ai[k].row, "none"} \/ (AiFail /\ k = start.job)]_allVars
=============================================================================
