--------------------------- MODULE EvidenceIngest ---------------------------
(***************************************************************************)
(* The ingest of one evidence: reprocess, cancel and pause requests         *)
(* (api/routes_evidence.py), the RQ job ingest_evidence (workers/tasks.py)  *)
(* and the watchdog that releases a dead one (services/job_watchdog.py).    *)
(*                                                                          *)
(* They share the Evidence row.  Its metadata is one JSON column: whoever   *)
(* commits it writes back every key of the copy it had read, so a step that *)
(* is slow between its read and its commit is two actions here.  A session  *)
(* re-reads the row at the first access after a commit (JobLoad).           *)
(***************************************************************************)
EXTENDS Integers, FiniteSets

CONSTANTS Runs,       \* run ids of reprocess requests
          FirstRun,   \* the run id ingest-<evidence id> of an ingest nobody requested
          NoRun,      \* a key that holds None
          Absent,     \* a key that is not in the metadata
          Jobs,       \* RQ job ids
          FirstJob,   \* the job queued when the evidence was uploaded
          Api,        \* concurrent reprocess requests
          Errors,     \* may OpenSearch, Redis or a parser fail an ingest
          MaxUpsets   \* bound on cancels, pauses and crashes

AllRuns == Runs \cup {FirstRun}

ASSUME IngestConstants ==
  /\ FirstRun \notin Runs
  /\ {NoRun, Absent} \cap AllRuns = {}
  /\ NoRun # Absent
  /\ FirstJob \in Jobs
  /\ MaxUpsets \in Nat

VARIABLES row,       \* the Evidence row
          jobs,      \* the RQ jobs of the evidence
          stops,     \* jobs whose stop command is on its way to the worker
          indexed,   \* jobs whose events are in OpenSearch
          api,       \* reprocess requests
          halt,      \* the analyst's cancel or pause request
          watch,     \* the watchdog's visit of the evidence
          blame,     \* history: "marker" lost to an old copy, "wipe" that failed
          issued,    \* run ids given out
          released,  \* runs the watchdog released
          upsets

vars == <<row, jobs, stops, indexed, api, halt, watch, blame, issued, released, upsets>>

ActiveStatus == {"pending", "processing"}
\* "failed" stands for completed_with_errors too, which nothing here tells apart.
Ended == {"completed", "failed"}

\* The keys of metadata_json that steer the ingest: current_ingest_run_id,
\* reprocess_request, "cleanup" for reprocess_cleanup_pending and
\* reconciliation_baseline_pending, "beat" for the age of heartbeat_at.  The history
\* in ingest_runs is written but not read by what is modelled here.
Metas == [current : AllRuns \cup {NoRun, Absent}, request : Runs \cup {NoRun, Absent},
          cleanup : BOOLEAN, beat : {"absent", "fresh", "stale"}]
NewMeta == [current |-> Absent, request |-> Absent, cleanup |-> FALSE, beat |-> "absent"]

Copies == [status : ActiveStatus \cup Ended, meta : Metas]
NoCopy == [status |-> "pending", meta |-> NewMeta]
Seen == [status |-> row.status, meta |-> row.meta]

\* A commit of the column by somebody who had read it as "old".  If the row has been
\* given the cleanup marker since, writing the old copy back takes it away.
Commit(status, meta, old) ==
  /\ row' = [row EXCEPT !.status = status, !.meta = meta]
  /\ blame' = IF row.meta.cleanup /\ ~ old.cleanup /\ ~ meta.cleanup
              THEN blame \cup {"marker"} ELSE blame

NoJob == [state |-> "none", pc |-> "prepare", asked |-> NoRun, loaded |-> FALSE,
          copy |-> NoCopy, md |-> NewMeta]
IdleApi == [pc |-> "idle", run |-> NoRun, copy |-> NoCopy]
Idle == [pc |-> "idle", copy |-> NoCopy]

-----------------------------------------------------------------------------
(* The metadata (services/evidence_runs.py).                                 *)

\* merge_evidence_metadata: dict.update.  A key the patch has dropped stays.
Merge(old, patch) ==
  LET key(a, b) == IF b = Absent THEN a ELSE b
  IN [current |-> key(old.current, patch.current),
      request |-> key(old.request, patch.request),
      cleanup |-> old.cleanup \/ patch.cleanup,
      beat |-> IF patch.beat = "absent" THEN old.beat ELSE patch.beat]

\* start_ingest_run
StartRun(m, r) == [m EXCEPT !.current = r]

\* The run progress is filed under: the current one, else the requested one.
ActiveRun(m) ==
  IF m.current \in AllRuns THEN m.current
  ELSE IF m.request \in AllRuns THEN m.request ELSE NoRun

\* _update_progress on the metadata of a loaded row.
Progress(m) == [m EXCEPT !.beat = "fresh"]

\* No run is current or requested any more.
Closed(m) == [m EXCEPT !.current = NoRun, !.request = NoRun]

\* Mutant: the metadata of a released run is dropped, the marker included.
ReleaseMut(m) == [status |-> "failed", meta |-> [Closed(m) EXCEPT !.cleanup = FALSE]]

\* release_stale_ingest_lock
Release(m) == [status |-> "failed", meta |-> Closed(m)]

-----------------------------------------------------------------------------
(* RQ: one worker process, which forks a work-horse per job.                 *)

Queued(j) == jobs[j].state = "queued"
Running(j) == jobs[j].state = "started"
\* StartedJobRegistry also lists the job of a dead worker until its entry expires.
Listed(j) == jobs[j].state \in {"started", "ghost"}
WorkerFree == \A j \in Jobs : ~ Running(j)

\* The work-horse is gone: its memory with it.
EndJob(j, state) ==
  /\ jobs' = [jobs EXCEPT ![j] = [NoJob EXCEPT !.state = state]]
  /\ stops' = stops \ {j}

Init ==
  /\ \/ \* uploaded, the first ingest queued
        /\ row = [there |-> TRUE, status |-> "pending", meta |-> NewMeta]
        /\ jobs = [j \in Jobs |->
                     IF j = FirstJob THEN [NoJob EXCEPT !.state = "queued", !.asked = FirstRun]
                     ELSE NoJob]
        /\ indexed = {}
     \/ \* ingested long ago
        /\ row = [there |-> TRUE, status |-> "completed",
                  meta |-> [NewMeta EXCEPT !.current = NoRun, !.beat = "stale"]]
        /\ jobs = [j \in Jobs |->
                     IF j = FirstJob THEN [NoJob EXCEPT !.state = "finished"] ELSE NoJob]
        /\ indexed = {FirstJob}
  /\ stops = {}
  /\ api = [a \in Api |-> IdleApi]
  /\ halt = Idle
  /\ watch = Idle
  /\ blame = {}
  /\ issued = {}
  /\ released = {}
  /\ upsets = 0

\* One of the bounded number of cancels, pauses and crashes.
Upset == upsets < MaxUpsets /\ upsets' = upsets + 1

-----------------------------------------------------------------------------
(* Requests (api/routes_evidence.py).                                        *)

\* _queue_reprocess_request up to its commit: an active run is returned as it is.
ReprocessRead(a, r) ==
  /\ row.there /\ api[a].pc = "idle"
  /\ r \notin issued /\ issued' = issued \cup {r}
  /\ ~ (row.status \in ActiveStatus /\ ActiveRun(row.meta) \in AllRuns)
  /\ api' = [api EXCEPT ![a] = [pc |-> "commit", run |-> r, copy |-> Seen]]
  /\ UNCHANGED <<row, jobs, stops, indexed, halt, watch, blame, released, upsets>>

\* The metadata of the new run is merged into the copy; the old heartbeat stays.
Requested(m, r) == StartRun([m EXCEPT !.request = r, !.cleanup = TRUE], r)

\* A row that is gone makes the commit fail.
ReprocessCommit(a) ==
  /\ api[a].pc = "commit"
  /\ IF row.there
     THEN /\ row' = [row EXCEPT !.status = "pending",
                                !.meta = Requested(api[a].copy.meta, api[a].run)]
          /\ api' = [api EXCEPT ![a].pc = "enqueue", ![a].copy = NoCopy]
     ELSE api' = [api EXCEPT ![a] = IdleApi] /\ UNCHANGED row
  /\ UNCHANGED <<jobs, stops, indexed, halt, watch, blame, issued, released, upsets>>

\* enqueue_ingest: a queued or started job of the evidence is taken for this one.
EnqueueJob(r) ==
  IF \E j \in Jobs : Queued(j) \/ Listed(j)
  THEN UNCHANGED jobs
  ELSE \E j \in Jobs :
         /\ jobs[j].state = "none"
         /\ jobs' = [jobs EXCEPT ![j].state = "queued", ![j].asked = r]

Enqueue(a) ==
  /\ api[a].pc = "enqueue"
  /\ EnqueueJob(api[a].run)
  /\ api' = [api EXCEPT ![a] = IdleApi]
  /\ UNCHANGED <<row, stops, indexed, halt, watch, blame, issued, released, upsets>>

\* The enqueue fails (OpenSearch blocked: _mark_evidence_blocked_before_ingest, or
\* any other error): so does the evidence.
EnqueueFails(a) ==
  /\ Errors /\ row.there /\ api[a].pc = "enqueue"
  /\ row' = [row EXCEPT !.status = "failed", !.meta = Closed(@)]
  /\ api' = [api EXCEPT ![a] = IdleApi]
  /\ UNCHANGED <<jobs, stops, indexed, halt, watch, blame, issued, released, upsets>>

\* The server dies before the request has queued its job.
RequestDies(a) ==
  /\ api[a].pc # "idle" /\ Upset
  /\ api' = [api EXCEPT ![a] = IdleApi]
  /\ UNCHANGED <<row, jobs, stops, indexed, halt, watch, blame, issued, released>>

\* cancel_evidence_indexing reads the row, no matter what its status is.
Cancel ==
  /\ row.there /\ halt.pc = "idle" /\ Upset
  /\ halt' = [pc |-> "release", copy |-> Seen]
  /\ UNCHANGED <<row, jobs, stops, indexed, api, watch, blame, issued, released>>

\* pause_evidence_indexing reads an active row ...
Pause ==
  /\ row.there /\ row.status \in ActiveStatus /\ halt.pc = "idle" /\ Upset
  /\ halt' = [pc |-> "stop", copy |-> Seen]
  /\ UNCHANGED <<row, jobs, stops, indexed, api, watch, blame, issued, released>>

\* ... has a started job sent the stop command ...
PauseStarted ==
  /\ halt.pc = "stop"
  /\ IF \E j \in Jobs : Listed(j)
     THEN stops' = stops \cup {j \in Jobs : Running(j)} /\ halt' = [halt EXCEPT !.pc = "release"]
     ELSE halt' = [halt EXCEPT !.pc = "queue"] /\ UNCHANGED stops
  /\ UNCHANGED <<row, jobs, indexed, api, watch, blame, issued, released, upsets>>

\* ... or else a queued one cancelled, and waits for neither.
PauseQueued ==
  /\ halt.pc = "queue"
  /\ jobs' = [j \in Jobs |-> IF Queued(j) THEN [NoJob EXCEPT !.state = "finished"] ELSE jobs[j]]
  /\ halt' = [halt EXCEPT !.pc = "release"]
  /\ UNCHANGED <<row, stops, indexed, api, watch, blame, issued, released, upsets>>

\* The lock is released: the commit of both, from the copy they read.
HaltRelease ==
  /\ halt.pc = "release"
  /\ IF row.there
     THEN LET copy == Release(halt.copy.meta) IN Commit(copy.status, copy.meta, halt.copy.meta)
     ELSE UNCHANGED <<row, blame>>
  /\ halt' = Idle
  /\ UNCHANGED <<jobs, stops, indexed, api, watch, issued, released, upsets>>

\* The server dies before the commit.
HaltDies ==
  /\ halt.pc # "idle"
  /\ halt' = Idle
  /\ UNCHANGED <<row, jobs, stops, indexed, api, watch, blame, issued, released, upsets>>

-----------------------------------------------------------------------------
(* The watchdog: every look at the evidence page, and every start of the      *)
(* backend.                                                                   *)


\* maybe_reconcile_stale_ingest and reconcile_stale_ingests: an active evidence
\* with an old heartbeat; _find_ingest_job reads the started jobs first.
WatchLook ==
  /\ watch.pc = "idle" /\ row.there
  /\ row.status \in ActiveStatus
  /\ row.meta.beat = "stale"
  /\ ~ \E j \in Jobs : Listed(j)
  /\ watch' = [pc |-> "queue", copy |-> Seen]
  /\ UNCHANGED <<row, jobs, stops, indexed, api, halt, blame, issued, released, upsets>>

\* ... and the queue after them.
WatchQueue ==
  /\ watch.pc = "queue"
  /\ watch' = IF \E j \in Jobs : Queued(j) THEN Idle ELSE [watch EXCEPT !.pc = "release"]
  /\ UNCHANGED <<row, jobs, stops, indexed, api, halt, blame, issued, released, upsets>>

\* The release works on the copy the visit began with.
WatchRelease ==
  /\ watch.pc = "release"
  /\ IF row.there
     THEN /\ LET copy == Release(watch.copy.meta)
             IN Commit(copy.status, copy.meta, watch.copy.meta)
          /\ released' = released \cup (AllRuns \cap {watch.copy.meta.current})
     ELSE UNCHANGED <<row, blame, released>>
  /\ watch' = Idle
  /\ UNCHANGED <<jobs, stops, indexed, api, halt, issued, upsets>>

\* The heartbeat grows old.
TimePasses ==
  /\ row.there /\ row.meta.beat = "fresh"
  /\ row' = [row EXCEPT !.meta.beat = "stale"]
  /\ UNCHANGED <<jobs, stops, indexed, api, halt, watch, blame, issued, released, upsets>>

-----------------------------------------------------------------------------
(* The job ingest_evidence (workers/tasks.py).                               *)

others == <<api, halt, watch, issued, released, upsets>>

\* The job is at a step of its code with the row loaded.
At(j, pc) == Running(j) /\ jobs[j].pc = pc /\ jobs[j].loaded

\* The job's next step; the commit it made has expired the row it had loaded.
Goto(j, pc, md) ==
  jobs' = [jobs EXCEPT ![j].pc = pc, ![j].md = md, ![j].loaded = FALSE, ![j].copy = NoCopy]

\* A step that ends with db.refresh has the row re-read.
GotoRead(j, pc, md, seen) ==
  jobs' = [jobs EXCEPT ![j].pc = pc, ![j].md = md, ![j].loaded = TRUE, ![j].copy = seen]

\* Progress is committed with the loaded copy.
Report(j) == Commit(row.status, Progress(jobs[j].copy.meta), jobs[j].copy.meta)

\* The worker takes the job; an evidence that is gone ends it.
JobStart(j) ==
  /\ Queued(j) /\ WorkerFree
  /\ IF row.there
     THEN /\ jobs' = [jobs EXCEPT ![j].state = "started", ![j].pc = "prepare", ![j].loaded = TRUE,
                                  ![j].copy = Seen, ![j].md = row.meta]
          /\ UNCHANGED stops
     ELSE EndJob(j, "finished")
  /\ UNCHANGED <<row, indexed, blame, others>>

\* First access to the row since a commit.
JobLoad(j) ==
  /\ Running(j) /\ ~ jobs[j].loaded /\ row.there
  /\ jobs' = [jobs EXCEPT ![j].loaded = TRUE, ![j].copy = Seen]
  /\ UNCHANGED <<row, stops, indexed, blame, others>>

\* The parser options are committed with the rest of the copy.
JobPrepare(j) ==
  /\ At(j, "prepare") /\ row.there
  /\ LET seen == [Seen EXCEPT !.meta = jobs[j].copy.meta]
     IN /\ Commit(row.status, seen.meta, seen.meta)
        /\ GotoRead(j, IF jobs[j].md.cleanup THEN "clean" ELSE "begin", jobs[j].md, seen)
  /\ UNCHANGED <<stops, indexed, others>>

\* Phase cleanup_previous_run is announced.
JobClean(j) ==
  /\ At(j, "clean") /\ row.there
  /\ Report(j)
  /\ Goto(j, "wipe", jobs[j].md)
  /\ UNCHANGED <<stops, indexed, others>>

\* _run_pending_reprocess_cleanup deletes the events of the evidence ...
JobWipe(j) ==
  /\ At(j, "wipe")
  /\ indexed' = {}
  /\ jobs' = [jobs EXCEPT ![j].pc = "wiped"]
  /\ UNCHANGED <<row, stops, blame, others>>

\* delete_events_by_evidence logs an error of OpenSearch and returns: the job goes on.
JobWipeFails(j) ==
  /\ Errors /\ At(j, "wipe")
  /\ blame' = blame \cup {"wipe"}
  /\ jobs' = [jobs EXCEPT ![j].pc = "wiped"]
  /\ UNCHANGED <<row, stops, indexed, others>>

\* ... and merges the metadata read at the start of the job: cleanup_pending was
\* popped from the patch, which leaves it in the row.
JobWiped(j) ==
  /\ At(j, "wiped") /\ row.there
  /\ LET m == Merge(jobs[j].copy.meta, [jobs[j].md EXCEPT !.cleanup = FALSE])
     IN /\ Commit(row.status, m, jobs[j].copy.meta)
        /\ GotoRead(j, "begin", m, [Seen EXCEPT !.meta = m])
  /\ UNCHANGED <<stops, indexed, others>>

\* The run the job files its work under if none is current.
OwnRun(m) == IF ActiveRun(m) \in AllRuns THEN ActiveRun(m) ELSE FirstRun

\* The run is opened unless one is current, the evidence marked processing.
JobBegin(j) ==
  /\ At(j, "begin") /\ row.there
  /\ LET md == jobs[j].md
         opened == IF md.current \in AllRuns THEN md ELSE StartRun(md, OwnRun(md))
         m == Merge(jobs[j].copy.meta, opened)
     IN /\ Commit("processing", m, jobs[j].copy.meta)
        /\ Goto(j, "announce", m)
  /\ UNCHANGED <<stops, indexed, others>>

\* The first progress of the extraction.
JobAnnounce(j) ==
  /\ At(j, "announce") /\ row.there
  /\ Report(j)
  /\ Goto(j, "extract", jobs[j].md)
  /\ UNCHANGED <<stops, indexed, others>>

\* _safe_update_progress_isolated: a session of its own, read and committed at once.
JobExtracts(j) ==
  /\ Running(j) /\ jobs[j].pc = "extract" /\ row.there
  /\ row' = [row EXCEPT !.meta = Progress(@)]
  /\ UNCHANGED <<jobs, stops, indexed, blame, others>>

\* The inventory is stored by replacing the column with the copy of JobBegin.
JobExtracted(j) ==
  /\ At(j, "extract") /\ row.there
  /\ Commit(row.status, jobs[j].md, jobs[j].md)
  /\ Goto(j, "parse", NewMeta)
  /\ UNCHANGED <<stops, indexed, others>>

\* bulk_index_events_with_report: an artifact's events reach the index.  The row
\* is loaded before it (hosts, case id) and not read again.
JobIndex(j) ==
  /\ At(j, "parse")
  /\ indexed' = indexed \cup {j}
  /\ jobs' = [jobs EXCEPT ![j].pc = "progress"]
  /\ UNCHANGED <<row, stops, blame, others>>

\* Progress after an artifact.
JobBeat(j) ==
  /\ At(j, "progress") /\ row.there
  /\ Report(j)
  /\ Goto(j, "reopen", NewMeta)
  /\ UNCHANGED <<stops, indexed, others>>

\* The finalization opens a session of its own (JobLoad), looks for mass
\* encryption, then commits the outcome and the copy.
JobFinalize(j) ==
  /\ At(j, "reopen") /\ row.there
  /\ \E s \in IF Errors THEN Ended ELSE {"completed"} :
       Commit(s, jobs[j].copy.meta, jobs[j].copy.meta)
  /\ Goto(j, "close", NewMeta)
  /\ UNCHANGED <<stops, indexed, others>>

\* The run is closed.
JobClose(j) ==
  /\ At(j, "close") /\ row.there
  /\ LET m == jobs[j].copy.meta
     IN Commit(row.status, [m EXCEPT !.current = IF @ \in AllRuns THEN NoRun ELSE @], m)
  /\ Goto(j, "last", NewMeta)
  /\ UNCHANGED <<stops, indexed, others>>

\* Reconciliation, the last progress, the follow-up jobs.
JobLast(j) ==
  /\ At(j, "last") /\ row.there
  /\ Report(j)
  /\ EndJob(j, "finished")
  /\ UNCHANGED <<indexed, others>>

\* The exception handler: a session of its own closes the run and the evidence,
\* then reports progress; RQ sees the job finished.
JobFails(j) ==
  /\ Errors /\ Running(j) /\ row.there
  /\ row' = [row EXCEPT !.status = "failed", !.meta = Progress([@ EXCEPT !.current = NoRun])]
  /\ EndJob(j, "finished")
  /\ UNCHANGED <<indexed, blame, others>>

JobSteps(j) ==
  \/ JobLoad(j) \/ JobPrepare(j) \/ JobClean(j) \/ JobWipe(j) \/ JobWipeFails(j) \/ JobWiped(j)
  \/ JobBegin(j) \/ JobAnnounce(j) \/ JobExtracted(j) \/ JobIndex(j) \/ JobBeat(j)
  \/ JobFinalize(j) \/ JobClose(j) \/ JobLast(j)

-----------------------------------------------------------------------------
(* What RQ does to a job.                                                    *)

\* The stop command reaches the worker: the work-horse is killed, the row untouched.
JobStopped(j) ==
  /\ Running(j) /\ j \in stops
  /\ EndJob(j, "failed")
  /\ UNCHANGED <<row, indexed, blame, others>>

\* The kernel kills the work-horse; the worker notices and files the job as failed.
HorseKilled(j) ==
  /\ Running(j) /\ Upset
  /\ EndJob(j, "failed")
  /\ UNCHANGED <<row, indexed, api, halt, watch, blame, issued, released>>

\* The worker itself dies and is restarted: the registry still lists the job.
WorkerDies(j) ==
  /\ Running(j) /\ Upset
  /\ EndJob(j, "ghost")
  /\ UNCHANGED <<row, indexed, api, halt, watch, blame, issued, released>>

\* The registry entry expires.
GhostExpires(j) ==
  /\ jobs[j].state = "ghost"
  /\ EndJob(j, "failed")
  /\ UNCHANGED <<row, indexed, blame, others>>

-----------------------------------------------------------------------------

Request(a) == ReprocessCommit(a) \/ Enqueue(a)
Halt == PauseStarted \/ PauseQueued \/ HaltRelease
Watch == WatchLook \/ WatchQueue \/ WatchRelease

\* What happens apart from the worker taking a job.
IngestStep ==
  \/ \E a \in Api : \/ \E r \in Runs : ReprocessRead(a, r)
                    \/ Request(a) \/ EnqueueFails(a) \/ RequestDies(a)
  \/ Cancel \/ Pause \/ Halt \/ HaltDies \/ Watch \/ TimePasses
  \/ \E j \in Jobs : \/ JobSteps(j) \/ JobExtracts(j) \/ JobFails(j)
                     \/ JobStopped(j) \/ HorseKilled(j) \/ WorkerDies(j) \/ GhostExpires(j)

Next == IngestStep \/ \E j \in Jobs : JobStart(j)

Spec == Init /\ [][Next]_vars

\* The worker, RQ and the server go on; time passes; somebody looks at an
\* evidence that is being processed.
IngestFairness ==
  /\ \A a \in Api : WF_vars(Request(a))
  /\ WF_vars(Halt) /\ WF_vars(Watch) /\ WF_vars(TimePasses)
  /\ \A j \in Jobs : /\ WF_vars(JobSteps(j)) /\ WF_vars(JobStart(j))
                     /\ WF_vars(JobStopped(j)) /\ WF_vars(GhostExpires(j))

FairSpec == Spec /\ IngestFairness

-----------------------------------------------------------------------------
(* Properties.                                                               *)

JobPc == {"prepare", "clean", "wipe", "wiped", "begin", "announce", "extract", "parse",
          "progress", "reopen", "close", "last"}

\* The row, the jobs and every copy of the row have their declared type.
TypeOK ==
  /\ row \in [there : BOOLEAN, status : ActiveStatus \cup Ended, meta : Metas]
  /\ jobs \in [Jobs -> [state : {"none", "queued", "started", "ghost", "finished", "failed"},
                        pc : JobPc, asked : AllRuns \cup {NoRun}, loaded : BOOLEAN,
                        copy : Copies, md : Metas]]
  /\ stops \subseteq Jobs
  /\ indexed \subseteq Jobs
  /\ api \in [Api -> [pc : {"idle", "commit", "enqueue"}, run : Runs \cup {NoRun}, copy : Copies]]
  /\ halt \in [pc : {"idle", "stop", "queue", "release"}, copy : Copies]
  /\ watch \in [pc : {"idle", "queue", "release"}, copy : Copies]
  /\ blame \subseteq {"marker", "wipe"}
  /\ issued \subseteq Runs
  /\ released \subseteq AllRuns
  /\ upsets \in 0..MaxUpsets

\* The search index holds the events of two ingests of the evidence only if a delete
\* failed or a cleanup marker was overwritten by a copy read before it was set.  Event
\* ids are new in every ingest, so nothing but the wipe keeps an event from being found
\* twice (tasks.py _run_pending_reprocess_cleanup), whatever was cancelled, paused,
\* killed or released in between, in the first ingest and in every reprocess.
EventsAreOneIngest == blame = {} => Cardinality(indexed) <= 1

\* An evidence in process that has a heartbeat ends up in a final status, whoever
\* dies on the way: the job's outcome or the watchdog sees to it
\* (job_watchdog.py maybe_reconcile_stale_ingest).
Active == row.there /\ row.status \in ActiveStatus /\ row.meta.beat # "absent"

\* The run the watchdog cancels has no job: none is running for it afterwards
\* (job_watchdog.py release_stale_ingest_lock, "a dead/orphaned job the caller
\* already confirmed is not running").
ReleasedIsDead == \A j \in Jobs : Running(j) => jobs[j].asked \notin released
=============================================================================
