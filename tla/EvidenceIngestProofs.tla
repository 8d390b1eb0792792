------------------------ MODULE EvidenceIngestProofs ------------------------
(***************************************************************************)
(* Theorems about EvidenceIngest for every set of runs, jobs and requests, *)
(* and any number of cancels, pauses, crashes and watchdog visits.         *)
(***************************************************************************)
EXTENDS EvidenceIngest, FiniteSetTheorems, TLAPS

RowRec   == [there : BOOLEAN, status : ActiveStatus \cup Ended, meta : Metas]
JobRec   == [state : {"none", "queued", "started", "ghost", "finished", "failed"},
             pc : JobPc, asked : AllRuns \cup {NoRun}, loaded : BOOLEAN, copy : Copies, md : Metas]
ApiRec   == [pc : {"idle", "commit", "enqueue"}, run : Runs \cup {NoRun}, copy : Copies]
HaltRec  == [pc : {"idle", "stop", "queue", "release"}, copy : Copies]
WatchRec == [pc : {"idle", "queue", "release"}, copy : Copies]
Blames   == {"marker", "wipe"}

Typed ==
  /\ row \in RowRec
  /\ jobs \in [Jobs -> JobRec]
  /\ stops \subseteq Jobs
  /\ indexed \subseteq Jobs
  /\ api \in [Api -> ApiRec]
  /\ halt \in HaltRec
  /\ watch \in WatchRec
  /\ blame \subseteq Blames
  /\ issued \subseteq Runs
  /\ released \subseteq AllRuns
  /\ upsets \in 0 .. MaxUpsets

\* Typed is TypeOK with a name for each record type.
LEMMA TypedIsTypeOK == Typed <=> TypeOK
  BY DEF Typed, TypeOK, RowRec, JobRec, ApiRec, HaltRec, WatchRec, Blames

-----------------------------------------------------------------------------
(* The operators the actions are built from.                               *)

LEMMA NewTypes ==
  /\ NewMeta \in Metas
  /\ NoCopy \in Copies
  /\ IdleApi \in ApiRec
  /\ Idle \in HaltRec \cap WatchRec
  /\ \A s \in {"none", "queued", "started", "ghost", "finished", "failed"} :
       [NoJob EXCEPT !.state = s] \in JobRec
<1>1. NewMeta \in Metas
  BY DEF NewMeta, Metas
<1>2. NoCopy \in Copies
  BY <1>1 DEF NoCopy, Copies, ActiveStatus
<1>3. IdleApi \in ApiRec /\ Idle \in HaltRec \cap WatchRec
  BY <1>2 DEF IdleApi, Idle, ApiRec, HaltRec, WatchRec
<1>4. NoJob \in JobRec
  BY <1>1, <1>2 DEF NoJob, JobRec, JobPc
<1> QED
  BY <1>1, <1>2, <1>3, <1>4 DEF JobRec

\* merge_evidence_metadata never drops the cleanup marker: a key missing from the
\* patch stays (dict.update).
LEMMA MergeType ==
  ASSUME NEW old \in Metas, NEW patch \in Metas
  PROVE  Merge(old, patch) \in Metas /\ Merge(old, patch).cleanup = (old.cleanup \/ patch.cleanup)
  BY DEF Merge, Metas

\* What the other writers of metadata_json make of it: all of them keep the marker,
\* and _queue_reprocess_request sets it.
LEMMA MetaTypes ==
  ASSUME NEW m \in Metas
  PROVE  /\ \A r \in AllRuns : StartRun(m, r) \in Metas /\ StartRun(m, r).cleanup = m.cleanup
         /\ Progress(m) \in Metas /\ Progress(m).cleanup = m.cleanup
         /\ Closed(m) \in Metas /\ Closed(m).cleanup = m.cleanup
         /\ Release(m) \in Copies /\ Release(m).meta.cleanup = m.cleanup
         /\ \A r \in Runs \cup {NoRun} : Requested(m, r) \in Metas /\ Requested(m, r).cleanup
         /\ OwnRun(m) \in AllRuns
         /\ [m EXCEPT !.cleanup = FALSE] \in Metas
<1>1. \A r \in AllRuns : StartRun(m, r) \in Metas /\ StartRun(m, r).cleanup = m.cleanup
  BY DEF StartRun, Metas
<1>2. Progress(m) \in Metas /\ Progress(m).cleanup = m.cleanup
  BY DEF Progress, Metas
<1>3. Closed(m) \in Metas /\ Closed(m).cleanup = m.cleanup
  BY DEF Closed, Metas
<1>4. Release(m) \in Copies /\ Release(m).meta.cleanup = m.cleanup
  BY <1>3 DEF Release, Copies, Ended
<1>5. \A r \in Runs \cup {NoRun} : Requested(m, r) \in Metas /\ Requested(m, r).cleanup
  BY DEF Requested, StartRun, Metas, AllRuns
<1>6. OwnRun(m) \in AllRuns
  BY DEF OwnRun, ActiveRun, AllRuns
<1>7. [m EXCEPT !.cleanup = FALSE] \in Metas
  BY DEF Metas
<1> QED
  BY <1>1, <1>2, <1>3, <1>4, <1>5, <1>6, <1>7

\* A copy of the row holds its metadata.
LEMMA SeenType ==
  ASSUME Typed PROVE Seen \in Copies /\ Seen.meta = row.meta
  BY DEF Typed, RowRec, Seen, Copies

LEMMA RowTypes ==
  ASSUME Typed
  PROVE  /\ \A m \in Metas : [row EXCEPT !.meta = m] \in RowRec
         /\ \A m \in Metas : \A s \in ActiveStatus \cup Ended :
              [row EXCEPT !.status = s, !.meta = m] \in RowRec
  BY DEF Typed, RowRec

\* A step that neither fails to wipe nor takes the cleanup marker out of the row.
Kept == blame' = {} => blame = {} /\ (row.meta.cleanup => row'.meta.cleanup)

\* A commit of metadata that has the marker whenever the copy it is made from has it.
LEMMA CommitIs ==
  ASSUME Typed, NEW s \in ActiveStatus \cup Ended, NEW m \in Metas, NEW old \in Metas,
         old.cleanup => m.cleanup, Commit(s, m, old)
  PROVE  row' \in RowRec /\ blame' \subseteq Blames /\ Kept
<1>1. row' \in RowRec /\ row'.meta = m
  BY DEF Commit, Typed, RowRec
<1>2. blame' \subseteq Blames
  BY DEF Commit, Typed, Blames
<1>3. Kept
  BY <1>1 DEF Commit, Kept
<1> QED
  BY <1>1, <1>2, <1>3

LEMMA ReportIs ==
  ASSUME Typed, NEW j \in Jobs, Report(j)
  PROVE  row' \in RowRec /\ blame' \subseteq Blames /\ Kept
<1>1. row.status \in ActiveStatus \cup Ended /\ jobs[j].copy.meta \in Metas
  BY DEF Typed, RowRec, JobRec, Copies
<1>2. Progress(jobs[j].copy.meta) \in Metas
      /\ Progress(jobs[j].copy.meta).cleanup = jobs[j].copy.meta.cleanup
  BY <1>1, MetaTypes
<1> QED
  BY <1>1, <1>2, CommitIs DEF Report

LEMMA ReleaseIs ==
  ASSUME Typed, NEW old \in Metas, Commit(Release(old).status, Release(old).meta, old)
  PROVE  row' \in RowRec /\ blame' \subseteq Blames /\ Kept
<1>1. /\ Release(old).status \in ActiveStatus \cup Ended
      /\ Release(old).meta \in Metas
      /\ Release(old).meta.cleanup = old.cleanup
  BY MetaTypes DEF Copies
<1> QED
  BY <1>1, CommitIs

LEMMA EndJobType ==
  ASSUME Typed, NEW j \in Jobs,
         NEW s \in {"none", "queued", "started", "ghost", "finished", "failed"}, EndJob(j, s)
  PROVE  jobs' \in [Jobs -> JobRec] /\ stops' \subseteq Jobs
<1>1. [NoJob EXCEPT !.state = s] \in JobRec
  BY NewTypes
<1> QED
  BY <1>1 DEF EndJob, Typed

LEMMA GotoType ==
  ASSUME Typed, NEW j \in Jobs, NEW pc \in JobPc, NEW md \in Metas, Goto(j, pc, md)
  PROVE  jobs' \in [Jobs -> JobRec]
<1>1. [jobs[j] EXCEPT !.pc = pc, !.md = md, !.loaded = FALSE, !.copy = NoCopy] \in JobRec
  BY NewTypes DEF Typed, JobRec
<1>2. jobs' = [jobs EXCEPT ![j] =
                 [jobs[j] EXCEPT !.pc = pc, !.md = md, !.loaded = FALSE, !.copy = NoCopy]]
  BY DEF Goto, Typed
<1> QED
  BY <1>1, <1>2 DEF Typed

LEMMA GotoReadType ==
  ASSUME Typed, NEW j \in Jobs, NEW pc \in JobPc, NEW md \in Metas, NEW seen \in Copies,
         GotoRead(j, pc, md, seen)
  PROVE  jobs' \in [Jobs -> JobRec]
<1>1. [jobs[j] EXCEPT !.pc = pc, !.md = md, !.loaded = TRUE, !.copy = seen] \in JobRec
  BY DEF Typed, JobRec
<1>2. jobs' = [jobs EXCEPT ![j] =
                 [jobs[j] EXCEPT !.pc = pc, !.md = md, !.loaded = TRUE, !.copy = seen]]
  BY DEF GotoRead, Typed
<1> QED
  BY <1>1, <1>2 DEF Typed

LEMMA UpsetType ==
  ASSUME Typed, Upset PROVE upsets' \in 0 .. MaxUpsets
  BY IngestConstants DEF Typed, Upset

LEMMA InitType == Init => Typed
<1> SUFFICES ASSUME Init PROVE Typed
  OBVIOUS
<1>1. [NewMeta EXCEPT !.current = NoRun, !.beat = "stale"] \in Metas
  BY DEF NewMeta, Metas
<1>2. row \in RowRec
  <2> DEFINE old == [NewMeta EXCEPT !.current = NoRun, !.beat = "stale"]
  <2>1. \/ row = [there |-> TRUE, status |-> "pending", meta |-> NewMeta]
        \/ row = [there |-> TRUE, status |-> "completed", meta |-> old]
    BY DEF Init
  <2>2. old \in Metas /\ NewMeta \in Metas
    BY <1>1, NewTypes
  <2>3. \A m \in Metas : /\ [there |-> TRUE, status |-> "pending", meta |-> m] \in RowRec
                         /\ [there |-> TRUE, status |-> "completed", meta |-> m] \in RowRec
    BY DEF RowRec, ActiveStatus, Ended
  <2> HIDE DEF old
  <2>4. CASE row = [there |-> TRUE, status |-> "pending", meta |-> NewMeta]
    BY <2>2, <2>3, <2>4
  <2>5. CASE row = [there |-> TRUE, status |-> "completed", meta |-> old]
    BY <2>2, <2>3, <2>5
  <2> QED
    BY <2>1, <2>4, <2>5
<1>3. [NoJob EXCEPT !.state = "queued", !.asked = FirstRun] \in JobRec
  <2>1. [NoJob EXCEPT !.state = "queued"] \in JobRec /\ FirstRun \in AllRuns
    BY NewTypes DEF AllRuns
  <2> QED
    BY <2>1 DEF NoJob, JobRec
<1>4. NoJob \in JobRec
  BY NewTypes DEF NoJob, JobRec, JobPc
<1>5. jobs \in [Jobs -> JobRec]
  BY <1>3, <1>4, NewTypes DEF Init
<1>6. indexed \subseteq Jobs
  BY IngestConstants DEF Init
<1> QED
  BY <1>2, <1>5, <1>6, NewTypes, IngestConstants DEF Init, Typed

-----------------------------------------------------------------------------
(* Every action keeps the types.                                             *)

LEMMA ReprocessReadType ==
  ASSUME Typed, NEW a \in Api, NEW r \in Runs, ReprocessRead(a, r) PROVE Typed' /\ Kept
<1>1. [pc |-> "commit", run |-> r, copy |-> Seen] \in ApiRec
  BY SeenType DEF ApiRec
<1> QED
  BY <1>1 DEF ReprocessRead, Typed, Kept

LEMMA ReprocessCommitType ==
  ASSUME Typed, NEW a \in Api, ReprocessCommit(a)
  PROVE  Typed' /\ Kept /\ (row.there => row'.meta.cleanup)
<1>1. api[a] \in ApiRec /\ api[a].copy.meta \in Metas
  BY DEF Typed, ApiRec, Copies
<1>2. CASE row.there
  <2>1. api[a].run \in Runs \cup {NoRun}
    BY <1>1 DEF ApiRec
  <2>2. row' \in RowRec /\ row'.meta.cleanup
    <3> DEFINE m == Requested(api[a].copy.meta, api[a].run)
    <3>1. m \in Metas /\ m.cleanup
      BY <1>1, <2>1, MetaTypes
    <3>2. row' = [row EXCEPT !.status = "pending", !.meta = m]
      BY <1>2 DEF ReprocessCommit
    <3> HIDE DEF m
    <3> QED
      BY <3>1, <3>2 DEF Typed, RowRec, ActiveStatus
  <2>3. [api[a] EXCEPT !.pc = "enqueue", !.copy = NoCopy] \in ApiRec
    BY <1>1, NewTypes DEF ApiRec
  <2>4. api' \in [Api -> ApiRec]
    BY <1>2, <2>3 DEF ReprocessCommit, Typed
  <2> QED
    BY <2>2, <2>4 DEF ReprocessCommit, Typed, Kept
<1>3. CASE ~ row.there
  BY <1>3, NewTypes DEF ReprocessCommit, Typed, Kept
<1> QED
  BY <1>2, <1>3

LEMMA EnqueueType ==
  ASSUME Typed, NEW a \in Api, Enqueue(a) PROVE Typed' /\ Kept
<1>1. jobs' \in [Jobs -> JobRec]
  <2>1. api[a].run \in AllRuns \cup {NoRun}
    BY DEF Typed, ApiRec, AllRuns
  <2>2. \A j \in Jobs : [jobs[j] EXCEPT !.state = "queued", !.asked = api[a].run] \in JobRec
    BY <2>1 DEF Typed, JobRec
  <2>3. CASE UNCHANGED jobs
    BY <2>3 DEF Typed
  <2>4. CASE \E j \in Jobs : jobs' = [jobs EXCEPT ![j].state = "queued", ![j].asked = api[a].run]
    <3>1. PICK j \in Jobs : jobs' = [jobs EXCEPT ![j].state = "queued", ![j].asked = api[a].run]
      BY <2>4
    <3>2. jobs' = [jobs EXCEPT ![j] = [jobs[j] EXCEPT !.state = "queued", !.asked = api[a].run]]
      BY <3>1 DEF Typed
    <3> QED
      BY <2>2, <3>2 DEF Typed, Kept
  <2> QED
    BY <2>3, <2>4 DEF Enqueue, EnqueueJob
<1> QED
  BY <1>1, NewTypes DEF Enqueue, Typed, Kept

LEMMA EnqueueFailsType ==
  ASSUME Typed, NEW a \in Api, EnqueueFails(a) PROVE Typed' /\ Kept
<1>1. row.meta \in Metas
  BY DEF Typed, RowRec
<1>2. row' \in RowRec /\ row'.meta = Closed(row.meta)
  BY <1>1, MetaTypes DEF EnqueueFails, Typed, RowRec, Ended
<1>3. Closed(row.meta).cleanup = row.meta.cleanup
  BY <1>1, MetaTypes
<1> QED
  BY <1>2, <1>3, NewTypes DEF EnqueueFails, Typed, Kept

LEMMA RequestDiesType ==
  ASSUME Typed, NEW a \in Api, RequestDies(a) PROVE Typed' /\ Kept
  BY NewTypes, UpsetType DEF RequestDies, Typed, Kept

LEMMA CancelType ==
  ASSUME Typed, Cancel PROVE Typed' /\ Kept
<1>1. [pc |-> "release", copy |-> Seen] \in HaltRec
  BY SeenType DEF HaltRec
<1> QED
  BY <1>1, UpsetType DEF Cancel, Typed, Kept

LEMMA PauseType ==
  ASSUME Typed, Pause PROVE Typed' /\ Kept
<1>1. [pc |-> "stop", copy |-> Seen] \in HaltRec
  BY SeenType DEF HaltRec
<1> QED
  BY <1>1, UpsetType DEF Pause, Typed, Kept

LEMMA PauseStartedType ==
  ASSUME Typed, PauseStarted PROVE Typed' /\ Kept
<1>1. halt' \in HaltRec /\ stops' \subseteq Jobs
  BY DEF PauseStarted, Typed, HaltRec
<1> QED
  BY <1>1 DEF PauseStarted, Typed, Kept

LEMMA PauseQueuedType ==
  ASSUME Typed, PauseQueued PROVE Typed' /\ Kept
<1>1. halt' \in HaltRec
  BY DEF PauseQueued, Typed, HaltRec
<1>2. jobs' \in [Jobs -> JobRec]
  BY NewTypes DEF PauseQueued, Typed
<1> QED
  BY <1>1, <1>2 DEF PauseQueued, Typed, Kept

LEMMA HaltReleaseType ==
  ASSUME Typed, HaltRelease PROVE Typed' /\ Kept
<1>1. halt.copy.meta \in Metas
  BY DEF Typed, HaltRec, Copies
<1>2. row' \in RowRec /\ blame' \subseteq Blames /\ Kept
  <2>1. CASE row.there
    BY <1>1, <2>1, ReleaseIs DEF HaltRelease
  <2>2. CASE ~ row.there
    BY <2>2 DEF HaltRelease, Typed, Kept
  <2> QED
    BY <2>1, <2>2
<1> QED
  BY <1>2, NewTypes DEF HaltRelease, Typed

LEMMA HaltDiesType ==
  ASSUME Typed, HaltDies PROVE Typed' /\ Kept
  BY NewTypes DEF HaltDies, Typed, Kept

LEMMA WatchLookType ==
  ASSUME Typed, WatchLook PROVE Typed' /\ Kept
  BY SeenType DEF WatchLook, Typed, WatchRec, Kept

LEMMA WatchQueueType ==
  ASSUME Typed, WatchQueue PROVE Typed' /\ Kept
  BY NewTypes DEF WatchQueue, Typed, WatchRec, Kept

LEMMA WatchReleaseType ==
  ASSUME Typed, WatchRelease PROVE Typed' /\ Kept
<1>1. watch.copy.meta \in Metas
  BY DEF Typed, WatchRec, Copies
<1>2. row' \in RowRec /\ blame' \subseteq Blames /\ Kept
  <2>1. CASE row.there
    BY <1>1, <2>1, ReleaseIs DEF WatchRelease
  <2>2. CASE ~ row.there
    BY <2>2 DEF WatchRelease, Typed, Kept
  <2> QED
    BY <2>1, <2>2
<1>3. released' \subseteq AllRuns
  BY DEF WatchRelease, Typed
<1> QED
  BY <1>2, <1>3, NewTypes DEF WatchRelease, Typed

LEMMA TimePassesType ==
  ASSUME Typed, TimePasses PROVE Typed' /\ Kept
<1>1. row' \in RowRec /\ row'.meta.cleanup = row.meta.cleanup
  BY DEF TimePasses, Typed, RowRec, Metas
<1> QED
  BY <1>1 DEF TimePasses, Typed, Kept

LEMMA JobLoadType ==
  ASSUME Typed, NEW j \in Jobs, JobLoad(j) PROVE Typed' /\ Kept
<1>1. [jobs[j] EXCEPT !.loaded = TRUE, !.copy = Seen] \in JobRec
  BY SeenType DEF Typed, JobRec
<1>2. jobs' = [jobs EXCEPT ![j] = [jobs[j] EXCEPT !.loaded = TRUE, !.copy = Seen]]
  BY DEF JobLoad, Typed
<1> QED
  BY <1>1, <1>2 DEF JobLoad, others, Typed, Kept

LEMMA JobPrepareType ==
  ASSUME Typed, NEW j \in Jobs, JobPrepare(j) PROVE Typed' /\ Kept
<1>1. jobs[j].md \in Metas /\ jobs[j].copy.meta \in Metas /\ row.status \in ActiveStatus \cup Ended
  BY DEF Typed, JobRec, Copies, RowRec
<1> DEFINE seen == [Seen EXCEPT !.meta = jobs[j].copy.meta]
<1>2. seen \in Copies /\ seen.meta = jobs[j].copy.meta
  BY <1>1, SeenType DEF Copies
<1>3. /\ Commit(row.status, seen.meta, seen.meta)
      /\ GotoRead(j, IF jobs[j].md.cleanup THEN "clean" ELSE "begin", jobs[j].md, seen)
  BY DEF JobPrepare
<1> HIDE DEF seen
<1>4. row' \in RowRec /\ blame' \subseteq Blames /\ Kept
  BY <1>1, <1>2, <1>3, CommitIs
<1>5. jobs' \in [Jobs -> JobRec]
  BY <1>1, <1>2, <1>3, GotoReadType DEF JobPc
<1> QED
  BY <1>4, <1>5 DEF JobPrepare, others, Typed

LEMMA JobCleanType ==
  ASSUME Typed, NEW j \in Jobs, JobClean(j) PROVE Typed' /\ Kept
<1>1. row' \in RowRec /\ blame' \subseteq Blames /\ Kept
  BY ReportIs DEF JobClean
<1>2. jobs' \in [Jobs -> JobRec]
  <2>1. jobs[j].md \in Metas
    BY NewTypes DEF Typed, JobRec
  <2> QED
    BY <2>1, GotoType DEF JobClean, JobPc
<1> QED
  BY <1>1, <1>2 DEF JobClean, others, Typed

LEMMA JobWipeType ==
  ASSUME Typed, NEW j \in Jobs, JobWipe(j) PROVE Typed' /\ Kept
<1>1. [jobs[j] EXCEPT !.pc = "wiped"] \in JobRec
  BY DEF Typed, JobRec, JobPc
<1> QED
  BY <1>1 DEF JobWipe, others, Typed, Kept

LEMMA JobWipeFailsType ==
  ASSUME Typed, NEW j \in Jobs, JobWipeFails(j) PROVE Typed' /\ Kept /\ blame' # {}
<1>1. [jobs[j] EXCEPT !.pc = "wiped"] \in JobRec
  BY DEF Typed, JobRec, JobPc
<1>2. blame' \subseteq Blames /\ blame' # {}
  BY DEF JobWipeFails, Typed, Blames
<1> QED
  BY <1>1, <1>2 DEF JobWipeFails, others, Typed, Kept

LEMMA JobWipedType ==
  ASSUME Typed, NEW j \in Jobs, JobWiped(j) PROVE Typed' /\ Kept
<1> DEFINE m == Merge(jobs[j].copy.meta, [jobs[j].md EXCEPT !.cleanup = FALSE])
           seen == [Seen EXCEPT !.meta = m]
<1>1. jobs[j].copy.meta \in Metas /\ jobs[j].md \in Metas /\ row.status \in ActiveStatus \cup Ended
  BY DEF Typed, JobRec, Copies, RowRec
<1>2. [jobs[j].md EXCEPT !.cleanup = FALSE] \in Metas
  BY <1>1, MetaTypes
<1>3. m \in Metas /\ (jobs[j].copy.meta.cleanup => m.cleanup)
  BY <1>1, <1>2, MergeType
<1>4. /\ Commit(row.status, m, jobs[j].copy.meta)
      /\ GotoRead(j, "begin", m, seen)
  BY DEF JobWiped
<1> HIDE DEF m
<1>5. seen \in Copies
  BY <1>3, SeenType DEF Copies
<1> HIDE DEF seen
<1>6. row' \in RowRec /\ blame' \subseteq Blames /\ Kept
  BY <1>1, <1>3, <1>4, CommitIs
<1>7. jobs' \in [Jobs -> JobRec]
  BY <1>3, <1>4, <1>5, GotoReadType DEF JobPc
<1> QED
  BY <1>6, <1>7 DEF JobWiped, others, Typed

LEMMA JobBeginType ==
  ASSUME Typed, NEW j \in Jobs, JobBegin(j) PROVE Typed' /\ Kept
<1> DEFINE md == jobs[j].md
           opened == IF md.current \in AllRuns THEN md ELSE StartRun(md, OwnRun(md))
           m == Merge(jobs[j].copy.meta, opened)
<1>1. opened \in Metas /\ jobs[j].copy.meta \in Metas
  BY MetaTypes DEF Typed, JobRec, Copies
<1>2. Commit("processing", m, jobs[j].copy.meta) /\ Goto(j, "announce", m)
  BY DEF JobBegin
<1> HIDE DEF opened
<1>3. m \in Metas /\ (jobs[j].copy.meta.cleanup => m.cleanup)
  BY <1>1, MergeType
<1> HIDE DEF m
<1>4. row' \in RowRec /\ blame' \subseteq Blames /\ Kept
  BY <1>1, <1>2, <1>3, CommitIs DEF ActiveStatus
<1>5. jobs' \in [Jobs -> JobRec]
  BY <1>2, <1>3, GotoType DEF JobPc
<1> QED
  BY <1>4, <1>5 DEF JobBegin, others, Typed

LEMMA JobAnnounceType ==
  ASSUME Typed, NEW j \in Jobs, JobAnnounce(j) PROVE Typed' /\ Kept
<1>1. row' \in RowRec /\ blame' \subseteq Blames /\ Kept
  BY ReportIs DEF JobAnnounce
<1>2. jobs' \in [Jobs -> JobRec]
  <2>1. jobs[j].md \in Metas
    BY NewTypes DEF Typed, JobRec
  <2> QED
    BY <2>1, GotoType DEF JobAnnounce, JobPc
<1> QED
  BY <1>1, <1>2 DEF JobAnnounce, others, Typed

LEMMA JobExtractedType ==
  ASSUME Typed, NEW j \in Jobs, JobExtracted(j) PROVE Typed' /\ Kept
<1>1. jobs[j].md \in Metas /\ row.status \in ActiveStatus \cup Ended
  BY DEF Typed, JobRec, RowRec
<1>2. row' \in RowRec /\ blame' \subseteq Blames /\ Kept
  BY <1>1, CommitIs DEF JobExtracted
<1>3. jobs' \in [Jobs -> JobRec]
  BY GotoType, NewTypes DEF JobExtracted, JobPc
<1> QED
  BY <1>2, <1>3 DEF JobExtracted, others, Typed

LEMMA JobIndexType ==
  ASSUME Typed, NEW j \in Jobs, JobIndex(j) PROVE Typed' /\ Kept
<1>1. [jobs[j] EXCEPT !.pc = "progress"] \in JobRec
  BY DEF Typed, JobRec, JobPc
<1> QED
  BY <1>1 DEF JobIndex, others, Typed, Kept

LEMMA JobBeatType ==
  ASSUME Typed, NEW j \in Jobs, JobBeat(j) PROVE Typed' /\ Kept
<1>1. row' \in RowRec /\ blame' \subseteq Blames /\ Kept
  BY ReportIs DEF JobBeat
<1>2. jobs' \in [Jobs -> JobRec]
  <2>1. NewMeta \in Metas
    BY NewTypes DEF Typed, JobRec
  <2> QED
    BY <2>1, GotoType DEF JobBeat, JobPc
<1> QED
  BY <1>1, <1>2 DEF JobBeat, others, Typed

LEMMA JobFinalizeType ==
  ASSUME Typed, NEW j \in Jobs, JobFinalize(j) PROVE Typed' /\ Kept
<1>1. jobs[j].copy.meta \in Metas
  BY DEF Typed, JobRec, Copies
<1>2. PICK s \in Ended : Commit(s, jobs[j].copy.meta, jobs[j].copy.meta)
  BY DEF JobFinalize, Ended
<1>3. row' \in RowRec /\ blame' \subseteq Blames /\ Kept
  BY <1>1, <1>2, CommitIs
<1>4. jobs' \in [Jobs -> JobRec]
  BY GotoType, NewTypes DEF JobFinalize, JobPc
<1> QED
  BY <1>3, <1>4 DEF JobFinalize, others, Typed

LEMMA JobCloseType ==
  ASSUME Typed, NEW j \in Jobs, JobClose(j) PROVE Typed' /\ Kept
<1> DEFINE m == [jobs[j].copy.meta EXCEPT !.current = IF @ \in AllRuns THEN NoRun ELSE @]
<1>1. jobs[j].copy.meta \in Metas /\ row.status \in ActiveStatus \cup Ended
  BY DEF Typed, JobRec, Copies, RowRec
<1>2. m \in Metas /\ m.cleanup = jobs[j].copy.meta.cleanup
  BY <1>1 DEF Metas
<1>3. Commit(row.status, m, jobs[j].copy.meta)
  BY DEF JobClose
<1> HIDE DEF m
<1>4. row' \in RowRec /\ blame' \subseteq Blames /\ Kept
  BY <1>1, <1>2, <1>3, CommitIs
<1>5. jobs' \in [Jobs -> JobRec]
  BY GotoType, NewTypes DEF JobClose, JobPc
<1> QED
  BY <1>4, <1>5 DEF JobClose, others, Typed

LEMMA JobLastType ==
  ASSUME Typed, NEW j \in Jobs, JobLast(j) PROVE Typed' /\ Kept
<1>1. row' \in RowRec /\ blame' \subseteq Blames /\ Kept
  BY ReportIs DEF JobLast
<1> QED
  BY <1>1, EndJobType DEF JobLast, others, Typed

LEMMA JobExtractsType ==
  ASSUME Typed, NEW j \in Jobs, JobExtracts(j) PROVE Typed' /\ Kept
<1>1. row.meta \in Metas
  BY DEF Typed, RowRec
<1>2. row' \in RowRec /\ row'.meta = Progress(row.meta)
  BY <1>1, MetaTypes DEF JobExtracts, Typed, RowRec
<1>3. Progress(row.meta).cleanup = row.meta.cleanup
  BY <1>1, MetaTypes
<1> QED
  BY <1>2, <1>3 DEF JobExtracts, others, Typed, Kept

LEMMA JobFailsType ==
  ASSUME Typed, NEW j \in Jobs, JobFails(j) PROVE Typed' /\ Kept
<1> DEFINE m == [row.meta EXCEPT !.current = NoRun]
<1>1. m \in Metas /\ m.cleanup = row.meta.cleanup
  BY DEF Typed, RowRec, Metas
<1>2. row' = [row EXCEPT !.status = "failed", !.meta = Progress(m)]
  BY DEF JobFails, Typed, RowRec
<1> HIDE DEF m
<1>3. Progress(m) \in Metas /\ Progress(m).cleanup = row.meta.cleanup
  BY <1>1, MetaTypes
<1>4. row' \in RowRec /\ row'.meta.cleanup = row.meta.cleanup
  BY <1>2, <1>3 DEF Typed, RowRec, Ended
<1> QED
  BY <1>4, EndJobType DEF JobFails, others, Typed, Kept

LEMMA JobStoppedType ==
  ASSUME Typed, NEW j \in Jobs, JobStopped(j) PROVE Typed' /\ Kept
  BY EndJobType DEF JobStopped, others, Typed, Kept

LEMMA HorseKilledType ==
  ASSUME Typed, NEW j \in Jobs, HorseKilled(j) PROVE Typed' /\ Kept
  BY EndJobType, UpsetType DEF HorseKilled, Typed, Kept

LEMMA WorkerDiesType ==
  ASSUME Typed, NEW j \in Jobs, WorkerDies(j) PROVE Typed' /\ Kept
  BY EndJobType, UpsetType DEF WorkerDies, Typed, Kept

LEMMA GhostExpiresType ==
  ASSUME Typed, NEW j \in Jobs, GhostExpires(j) PROVE Typed' /\ Kept
  BY EndJobType DEF GhostExpires, others, Typed, Kept

LEMMA JobStartType ==
  ASSUME Typed, NEW j \in Jobs, JobStart(j) PROVE Typed' /\ Kept
<1>1. CASE row.there
  <2>1. [jobs[j] EXCEPT !.state = "started", !.pc = "prepare", !.loaded = TRUE, !.copy = Seen,
                        !.md = row.meta] \in JobRec
    <3>1. row.meta \in Metas /\ jobs[j] \in JobRec
      BY DEF Typed, RowRec
    <3> QED
      BY <3>1, SeenType DEF JobRec, JobPc
  <2>2. jobs' = [jobs EXCEPT ![j] = [jobs[j] EXCEPT !.state = "started", !.pc = "prepare",
                                       !.loaded = TRUE, !.copy = Seen, !.md = row.meta]]
    BY <1>1 DEF JobStart, Typed
  <2> QED
    BY <1>1, <2>1, <2>2 DEF JobStart, others, Typed, Kept
<1>2. CASE ~ row.there
  BY <1>2, EndJobType DEF JobStart, others, Typed, Kept
<1> QED
  BY <1>1, <1>2

\* Every step but the worker's taking of a job; CaseDeletion composes it.
LEMMA TypeIngest ==
  ASSUME Typed, IngestStep PROVE Typed' /\ Kept
<1>1. ASSUME NEW a \in Api, NEW r \in Runs, ReprocessRead(a, r) PROVE Typed' /\ Kept
  BY <1>1, ReprocessReadType
<1>2. ASSUME NEW a \in Api, ReprocessCommit(a) PROVE Typed' /\ Kept
  BY <1>2, ReprocessCommitType
<1>3. ASSUME NEW a \in Api, Enqueue(a) PROVE Typed' /\ Kept
  BY <1>3, EnqueueType
<1>4. ASSUME NEW a \in Api, EnqueueFails(a) PROVE Typed' /\ Kept
  BY <1>4, EnqueueFailsType
<1>5. ASSUME NEW a \in Api, RequestDies(a) PROVE Typed' /\ Kept
  BY <1>5, RequestDiesType
<1>6. CASE Cancel
  BY <1>6, CancelType
<1>7. CASE Pause
  BY <1>7, PauseType
<1>8. CASE PauseStarted
  BY <1>8, PauseStartedType
<1>9. CASE PauseQueued
  BY <1>9, PauseQueuedType
<1>10. CASE HaltRelease
  BY <1>10, HaltReleaseType
<1>11. CASE HaltDies
  BY <1>11, HaltDiesType
<1>12. CASE WatchLook
  BY <1>12, WatchLookType
<1>13. CASE WatchQueue
  BY <1>13, WatchQueueType
<1>14. CASE WatchRelease
  BY <1>14, WatchReleaseType
<1>15. CASE TimePasses
  BY <1>15, TimePassesType
<1>16. ASSUME NEW j \in Jobs, JobLoad(j) PROVE Typed' /\ Kept
  BY <1>16, JobLoadType
<1>17. ASSUME NEW j \in Jobs, JobPrepare(j) PROVE Typed' /\ Kept
  BY <1>17, JobPrepareType
<1>18. ASSUME NEW j \in Jobs, JobClean(j) PROVE Typed' /\ Kept
  BY <1>18, JobCleanType
<1>19. ASSUME NEW j \in Jobs, JobWipe(j) PROVE Typed' /\ Kept
  BY <1>19, JobWipeType
<1>20. ASSUME NEW j \in Jobs, JobWipeFails(j) PROVE Typed' /\ Kept
  BY <1>20, JobWipeFailsType
<1>21. ASSUME NEW j \in Jobs, JobWiped(j) PROVE Typed' /\ Kept
  BY <1>21, JobWipedType
<1>22. ASSUME NEW j \in Jobs, JobBegin(j) PROVE Typed' /\ Kept
  BY <1>22, JobBeginType
<1>23. ASSUME NEW j \in Jobs, JobAnnounce(j) PROVE Typed' /\ Kept
  BY <1>23, JobAnnounceType
<1>24. ASSUME NEW j \in Jobs, JobExtracted(j) PROVE Typed' /\ Kept
  BY <1>24, JobExtractedType
<1>25. ASSUME NEW j \in Jobs, JobIndex(j) PROVE Typed' /\ Kept
  BY <1>25, JobIndexType
<1>26. ASSUME NEW j \in Jobs, JobBeat(j) PROVE Typed' /\ Kept
  BY <1>26, JobBeatType
<1>27. ASSUME NEW j \in Jobs, JobFinalize(j) PROVE Typed' /\ Kept
  BY <1>27, JobFinalizeType
<1>28. ASSUME NEW j \in Jobs, JobClose(j) PROVE Typed' /\ Kept
  BY <1>28, JobCloseType
<1>29. ASSUME NEW j \in Jobs, JobLast(j) PROVE Typed' /\ Kept
  BY <1>29, JobLastType
<1>30. ASSUME NEW j \in Jobs, JobExtracts(j) PROVE Typed' /\ Kept
  BY <1>30, JobExtractsType
<1>31. ASSUME NEW j \in Jobs, JobFails(j) PROVE Typed' /\ Kept
  BY <1>31, JobFailsType
<1>32. ASSUME NEW j \in Jobs, JobStopped(j) PROVE Typed' /\ Kept
  BY <1>32, JobStoppedType
<1>33. ASSUME NEW j \in Jobs, HorseKilled(j) PROVE Typed' /\ Kept
  BY <1>33, HorseKilledType
<1>34. ASSUME NEW j \in Jobs, WorkerDies(j) PROVE Typed' /\ Kept
  BY <1>34, WorkerDiesType
<1>35. ASSUME NEW j \in Jobs, GhostExpires(j) PROVE Typed' /\ Kept
  BY <1>35, GhostExpiresType
<1> QED
  BY <1>1, <1>2, <1>3, <1>4, <1>5, <1>6, <1>7, <1>8, <1>9, <1>10, <1>11, <1>12,
     <1>13, <1>14, <1>15, <1>16, <1>17, <1>18, <1>19, <1>20, <1>21, <1>22, <1>23, <1>24,
     <1>25, <1>26, <1>27, <1>28, <1>29, <1>30, <1>31, <1>32, <1>33, <1>34, <1>35
  DEF IngestStep, Request, Halt, Watch, JobSteps

LEMMA TypeStutter ==
  ASSUME Typed, UNCHANGED vars PROVE Typed' /\ Kept
  BY DEF Typed, vars, Kept

LEMMA TypeNext ==
  ASSUME Typed, [Next]_vars PROVE Typed' /\ Kept
  BY TypeIngest, TypeStutter, JobStartType DEF Next

\* The row, the RQ jobs and every copy of the row that a request, a job or the watchdog
\* holds keep their types, whatever is cancelled, paused, killed or released.
THEOREM IngestTypeCorrect == Spec => []TypeOK
<1>1. Spec => []Typed
  BY InitType, TypeNext, PTL DEF Spec
<1> QED
  BY <1>1, TypedIsTypeOK, PTL

-----------------------------------------------------------------------------
(* The events of one ingest.                                                 *)

\* The steps of a job before _run_pending_reprocess_cleanup has deleted the old events.
BeforeWipe == {"prepare", "clean", "wipe"}

Alive(j) == Queued(j) \/ Running(j)

\* enqueue_ingest and the one worker: one job is queued or running at a time.
OneAlive == \A i, j \in Jobs : Alive(i) /\ Alive(j) => i = j

\* Who is about to index has the marker or nothing to delete: a request that is about to
\* queue its job, a job in the queue and the job that reads the row see to the wipe, and
\* past the wipe the index holds nothing but the running job's own events.
Marked ==
  /\ \A a \in Api : api[a].pc = "enqueue" => row.meta.cleanup
  /\ \A j \in Jobs : Queued(j) => row.meta.cleanup \/ indexed = {}
  /\ \A j \in Jobs : Running(j) /\ jobs[j].pc = "prepare" => jobs[j].md.cleanup \/ indexed = {}
  /\ \A j \in Jobs : Running(j) /\ jobs[j].pc \notin BeforeWipe => indexed \subseteq {j}
  /\ \A i, j \in indexed : i = j

\* The inductive invariant.  Nothing is claimed once a wipe failed or the marker was lost.
OneIngest == OneAlive /\ (blame = {} => Marked)

\* What the steps of a job do to it, and that they leave the other jobs alone.
LEMMA GotoIs ==
  ASSUME Typed, NEW j \in Jobs, NEW pc, NEW md, Goto(j, pc, md)
  PROVE  /\ jobs'[j].state = jobs[j].state
         /\ jobs'[j].pc = pc
         /\ \A i \in Jobs : i # j => jobs'[i] = jobs[i]
  BY DEF Goto, Typed, JobRec

LEMMA GotoReadIs ==
  ASSUME Typed, NEW j \in Jobs, NEW pc, NEW md, NEW seen, GotoRead(j, pc, md, seen)
  PROVE  /\ jobs'[j].state = jobs[j].state
         /\ jobs'[j].pc = pc
         /\ \A i \in Jobs : i # j => jobs'[i] = jobs[i]
  BY DEF GotoRead, Typed, JobRec

LEMMA EndJobIs ==
  ASSUME Typed, NEW j \in Jobs, NEW s, EndJob(j, s)
  PROVE  /\ jobs'[j].state = s
         /\ \A i \in Jobs : i # j => jobs'[i] = jobs[i]
  BY DEF EndJob, Typed, NoJob

\* Steps that leave the jobs alone and add no request that is about to queue one.
LEMMA OneFrame ==
  ASSUME OneIngest, Kept, UNCHANGED <<jobs, indexed>>,
         \A a \in Api : api'[a].pc = "enqueue" => api[a].pc = "enqueue"
  PROVE  OneIngest'
  BY DEF OneIngest, OneAlive, Alive, Marked, Kept, Queued, Running

\* A step of the running job that adds no event.
LEMMA OneStep ==
  ASSUME OneIngest, Kept, NEW j \in Jobs, Running(j), UNCHANGED <<indexed, api>>,
         \A i \in Jobs : i # j => jobs'[i] = jobs[i],
         jobs'[j].state = jobs[j].state, jobs'[j].pc # "prepare",
         blame = {} /\ jobs'[j].pc \notin BeforeWipe => indexed \subseteq {j}
  PROVE  OneIngest'
<1>1. OneAlive'
  BY DEF OneIngest, OneAlive, Alive, Queued, Running
<1>2. ASSUME blame' = {} PROVE Marked'
  <2>1. Marked /\ blame = {} /\ (row.meta.cleanup => row'.meta.cleanup)
    BY <1>2 DEF OneIngest, Kept
  <2> QED
    BY <2>1 DEF Marked, Queued, Running
<1> QED
  BY <1>1, <1>2 DEF OneIngest

\* Jobs that end, or leave the queue.
LEMMA OneEnd ==
  ASSUME OneIngest, Kept, UNCHANGED <<indexed, api>>,
         \A j \in Jobs : jobs'[j] = jobs[j] \/ jobs'[j].state \in {"finished", "failed", "ghost"}
  PROVE  OneIngest'
<1>1. \A j \in Jobs : Alive(j)' => Alive(j) /\ jobs'[j] = jobs[j]
  BY DEF Alive, Queued, Running
<1>2. \A j \in Jobs : (Queued(j)' => Queued(j)) /\ (Running(j)' => Running(j))
  BY <1>1 DEF Alive, Queued, Running
<1>3. ASSUME blame' = {} PROVE Marked'
  <2>1. Marked /\ (row.meta.cleanup => row'.meta.cleanup)
    BY <1>3 DEF OneIngest, Kept
  <2> QED
    BY <1>1, <1>2, <2>1 DEF Marked, Alive
<1> QED
  BY <1>1, <1>3 DEF OneIngest, OneAlive

\* The index holds the events of one ingest, step by step.
LEMMA OneIngestStep ==
  ASSUME Typed, OneIngest, IngestStep PROVE OneIngest'
<1>0. Kept
  BY TypeIngest
<1> USE <1>0
<1>1. ASSUME NEW a \in Api, NEW r \in Runs, ReprocessRead(a, r) PROVE OneIngest'
  BY <1>1, OneFrame DEF ReprocessRead, Typed
<1>2. ASSUME NEW a \in Api, ReprocessCommit(a) PROVE OneIngest'
  <2>1. CASE row.there
    <3>1. row'.meta.cleanup
      BY <1>2, <2>1, ReprocessCommitType
    <3> QED
      BY <1>2, <3>1 DEF ReprocessCommit, OneIngest, OneAlive, Alive, Marked, Kept, Queued, Running
  <2>2. CASE ~ row.there
    BY <1>2, <2>2, OneFrame DEF ReprocessCommit, Typed, IdleApi
  <2> QED
    BY <2>1, <2>2
<1>3. ASSUME NEW a \in Api, Enqueue(a) PROVE OneIngest'
  <2>1. CASE UNCHANGED jobs
    BY <1>3, <2>1, OneFrame DEF Enqueue, Typed, IdleApi
  <2>2. ASSUME NEW j \in Jobs, \A i \in Jobs : ~ Queued(i) /\ ~ Listed(i),
               jobs' = [jobs EXCEPT ![j].state = "queued", ![j].asked = api[a].run]
        PROVE  OneIngest'
    <3>1. \A i \in Jobs : ~ Running(i)' /\ (Queued(i)' => i = j)
      BY <2>2 DEF Queued, Running, Listed, Typed, JobRec
    <3>2. api[a].pc = "enqueue" /\ UNCHANGED <<row, blame, indexed>>
      BY <1>3 DEF Enqueue
    <3>3. \A b \in Api : api'[b].pc = "enqueue" => api[b].pc = "enqueue"
      BY <1>3 DEF Enqueue, IdleApi, Typed
    <3> QED
      BY <3>1, <3>2, <3>3 DEF OneIngest, OneAlive, Alive, Marked
  <2> QED
    BY <1>3, <2>1, <2>2 DEF Enqueue, EnqueueJob
<1>4. ASSUME NEW a \in Api, EnqueueFails(a) PROVE OneIngest'
  BY <1>4, OneFrame DEF EnqueueFails, Typed, IdleApi
<1>5. ASSUME NEW a \in Api, RequestDies(a) PROVE OneIngest'
  BY <1>5, OneFrame DEF RequestDies, Typed, IdleApi
<1>6. CASE Cancel
  BY <1>6, OneFrame DEF Cancel
<1>7. CASE Pause
  BY <1>7, OneFrame DEF Pause
<1>8. CASE PauseStarted
  BY <1>8, OneFrame DEF PauseStarted
<1>9. CASE PauseQueued
  <2>1. \A j \in Jobs : jobs'[j] = jobs[j] \/ jobs'[j].state = "finished"
    BY <1>9 DEF PauseQueued, NoJob, Typed
  <2> QED
    BY <1>9, <2>1, OneEnd DEF PauseQueued
<1>10. CASE HaltRelease
  BY <1>10, OneFrame DEF HaltRelease
<1>11. CASE HaltDies
  BY <1>11, OneFrame DEF HaltDies
<1>12. CASE WatchLook
  BY <1>12, OneFrame DEF WatchLook
<1>13. CASE WatchQueue
  BY <1>13, OneFrame DEF WatchQueue
<1>14. CASE WatchRelease
  BY <1>14, OneFrame DEF WatchRelease
<1>15. CASE TimePasses
  BY <1>15, OneFrame DEF TimePasses
<1>16. ASSUME NEW j \in Jobs, JobLoad(j) PROVE OneIngest'
  <2>1. /\ jobs'[j].pc = jobs[j].pc /\ jobs'[j].state = jobs[j].state /\ jobs'[j].md = jobs[j].md
        /\ \A i \in Jobs : i # j => jobs'[i] = jobs[i]
    BY <1>16 DEF JobLoad, Typed, JobRec
  <2>2. \A i \in Jobs : /\ jobs'[i].state = jobs[i].state
                       /\ jobs'[i].pc = jobs[i].pc /\ jobs'[i].md = jobs[i].md
    BY <2>1
  <2>3. UNCHANGED <<row, blame, indexed, api>>
    BY <1>16 DEF JobLoad, others
  <2> QED
    BY <2>2, <2>3 DEF OneIngest, OneAlive, Alive, Marked, Queued, Running
<1>17. ASSUME NEW j \in Jobs, JobPrepare(j) PROVE OneIngest'
  \* without the marker, which skips the wipe, there is nothing to delete
  <2>1. jobs'[j].pc = (IF jobs[j].md.cleanup THEN "clean" ELSE "begin")
        /\ jobs'[j].state = jobs[j].state /\ \A i \in Jobs : i # j => jobs'[i] = jobs[i]
    BY <1>17, GotoReadIs DEF JobPrepare
  <2>2. blame = {} => jobs[j].md.cleanup \/ indexed = {}
    BY <1>17 DEF JobPrepare, At, OneIngest, Marked
  <2> QED
    BY <1>17, <2>1, <2>2, OneStep DEF JobPrepare, At, BeforeWipe, others
<1>18. ASSUME NEW j \in Jobs, JobClean(j) PROVE OneIngest'
  <2>1. jobs'[j].pc = "wipe" /\ jobs'[j].state = jobs[j].state
        /\ \A i \in Jobs : i # j => jobs'[i] = jobs[i]
    BY <1>18, GotoIs DEF JobClean
  <2> QED
    BY <1>18, <2>1, OneStep DEF JobClean, At, OneIngest, Marked, BeforeWipe, others
<1>19. ASSUME NEW j \in Jobs, JobWipe(j) PROVE OneIngest'
  <2>1. \A i \in Jobs : jobs'[i].state = jobs[i].state
    BY <1>19 DEF JobWipe, Typed, JobRec
  <2>2. OneAlive'
    BY <2>1 DEF OneIngest, OneAlive, Alive, Queued, Running
  <2>3. \A i \in Jobs : Alive(i) => i = j
    BY <1>19 DEF JobWipe, At, OneIngest, OneAlive, Alive
  <2>4. jobs'[j].pc = "wiped"
    BY <1>19 DEF JobWipe, Typed, JobRec
  <2>5. ASSUME blame = {}, Marked PROVE indexed' = {}
    BY <1>19, <2>5 DEF JobWipe, At, Marked, BeforeWipe
  <2>6. UNCHANGED <<row, blame, api>>
    BY <1>19 DEF JobWipe, others
  <2>7. ~ Queued(j)
    BY <1>19 DEF JobWipe, At, Queued, Running
  <2>8. \A i \in Jobs : ~ Queued(i)' /\ (Running(i)' => i = j)
    BY <2>1, <2>3, <2>7 DEF Alive, Queued, Running
  <2> QED
    BY <2>2, <2>4, <2>5, <2>6, <2>8 DEF OneIngest, Marked
<1>20. ASSUME NEW j \in Jobs, JobWipeFails(j) PROVE OneIngest'
  <2>1. \A i \in Jobs : jobs'[i].state = jobs[i].state
    BY <1>20 DEF JobWipeFails, Typed, JobRec
  <2>2. OneAlive'
    BY <2>1 DEF OneIngest, OneAlive, Alive, Queued, Running
  <2>3. blame' # {}
    BY <1>20, JobWipeFailsType
  <2> QED
    BY <2>2, <2>3 DEF OneIngest
<1>21. ASSUME NEW j \in Jobs, JobWiped(j) PROVE OneIngest'
  <2>1. jobs'[j].pc = "begin" /\ jobs'[j].state = jobs[j].state
        /\ \A i \in Jobs : i # j => jobs'[i] = jobs[i]
    BY <1>21, GotoReadIs DEF JobWiped
  <2> QED
    BY <1>21, <2>1, OneStep DEF JobWiped, At, OneIngest, Marked, BeforeWipe, others
<1>22. ASSUME NEW j \in Jobs, JobBegin(j) PROVE OneIngest'
  <2>1. jobs'[j].pc = "announce" /\ jobs'[j].state = jobs[j].state
        /\ \A i \in Jobs : i # j => jobs'[i] = jobs[i]
    BY <1>22, GotoIs DEF JobBegin
  <2> QED
    BY <1>22, <2>1, OneStep DEF JobBegin, At, OneIngest, Marked, BeforeWipe, others
<1>23. ASSUME NEW j \in Jobs, JobAnnounce(j) PROVE OneIngest'
  <2>1. jobs'[j].pc = "extract" /\ jobs'[j].state = jobs[j].state
        /\ \A i \in Jobs : i # j => jobs'[i] = jobs[i]
    BY <1>23, GotoIs DEF JobAnnounce
  <2> QED
    BY <1>23, <2>1, OneStep DEF JobAnnounce, At, OneIngest, Marked, BeforeWipe, others
<1>24. ASSUME NEW j \in Jobs, JobExtracted(j) PROVE OneIngest'
  <2>1. jobs'[j].pc = "parse" /\ jobs'[j].state = jobs[j].state
        /\ \A i \in Jobs : i # j => jobs'[i] = jobs[i]
    BY <1>24, GotoIs DEF JobExtracted
  <2> QED
    BY <1>24, <2>1, OneStep DEF JobExtracted, At, OneIngest, Marked, BeforeWipe, others
<1>25. ASSUME NEW j \in Jobs, JobIndex(j) PROVE OneIngest'
  <2>1. \A i \in Jobs : jobs'[i].state = jobs[i].state
    BY <1>25 DEF JobIndex, Typed, JobRec
  <2>2. OneAlive'
    BY <2>1 DEF OneIngest, OneAlive, Alive, Queued, Running
  <2>3. \A i \in Jobs : Alive(i) => i = j
    BY <1>25 DEF JobIndex, At, OneIngest, OneAlive, Alive
  <2>4. jobs'[j].pc = "progress"
    BY <1>25 DEF JobIndex, Typed, JobRec
  <2>5. ASSUME blame = {}, Marked PROVE indexed' = {j}
    BY <1>25, <2>5 DEF JobIndex, At, Marked, BeforeWipe
  <2>6. UNCHANGED <<row, blame, api>>
    BY <1>25 DEF JobIndex, others
  <2>7. ~ Queued(j)
    BY <1>25 DEF JobIndex, At, Queued, Running
  <2>8. \A i \in Jobs : ~ Queued(i)' /\ (Running(i)' => i = j)
    BY <2>1, <2>3, <2>7 DEF Alive, Queued, Running
  <2> QED
    BY <2>2, <2>4, <2>5, <2>6, <2>8 DEF OneIngest, Marked
<1>26. ASSUME NEW j \in Jobs, JobBeat(j) PROVE OneIngest'
  <2>1. jobs'[j].pc = "reopen" /\ jobs'[j].state = jobs[j].state
        /\ \A i \in Jobs : i # j => jobs'[i] = jobs[i]
    BY <1>26, GotoIs DEF JobBeat
  <2> QED
    BY <1>26, <2>1, OneStep DEF JobBeat, At, OneIngest, Marked, BeforeWipe, others
<1>27. ASSUME NEW j \in Jobs, JobFinalize(j) PROVE OneIngest'
  <2>1. jobs'[j].pc = "close" /\ jobs'[j].state = jobs[j].state
        /\ \A i \in Jobs : i # j => jobs'[i] = jobs[i]
    BY <1>27, GotoIs DEF JobFinalize
  <2> QED
    BY <1>27, <2>1, OneStep DEF JobFinalize, At, OneIngest, Marked, BeforeWipe, others
<1>28. ASSUME NEW j \in Jobs, JobClose(j) PROVE OneIngest'
  <2>1. jobs'[j].pc = "last" /\ jobs'[j].state = jobs[j].state
        /\ \A i \in Jobs : i # j => jobs'[i] = jobs[i]
    BY <1>28, GotoIs DEF JobClose
  <2> QED
    BY <1>28, <2>1, OneStep DEF JobClose, At, OneIngest, Marked, BeforeWipe, others
<1>29. ASSUME NEW j \in Jobs, JobLast(j) PROVE OneIngest'
  <2>1. \A i \in Jobs : jobs'[i] = jobs[i] \/ jobs'[i].state \in {"finished", "failed", "ghost"}
    BY <1>29, EndJobIs DEF JobLast
  <2> QED
    BY <1>29, <2>1, OneEnd DEF JobLast, others
<1>30. ASSUME NEW j \in Jobs, JobExtracts(j) PROVE OneIngest'
  BY <1>30, OneFrame DEF JobExtracts, others
<1>31. ASSUME NEW j \in Jobs, JobFails(j) PROVE OneIngest'
  <2>1. \A i \in Jobs : jobs'[i] = jobs[i] \/ jobs'[i].state \in {"finished", "failed", "ghost"}
    BY <1>31, EndJobIs DEF JobFails
  <2> QED
    BY <1>31, <2>1, OneEnd DEF JobFails, others
<1>32. ASSUME NEW j \in Jobs, JobStopped(j) PROVE OneIngest'
  <2>1. \A i \in Jobs : jobs'[i] = jobs[i] \/ jobs'[i].state \in {"finished", "failed", "ghost"}
    BY <1>32, EndJobIs DEF JobStopped
  <2> QED
    BY <1>32, <2>1, OneEnd DEF JobStopped, others
<1>33. ASSUME NEW j \in Jobs, HorseKilled(j) PROVE OneIngest'
  <2>1. \A i \in Jobs : jobs'[i] = jobs[i] \/ jobs'[i].state \in {"finished", "failed", "ghost"}
    BY <1>33, EndJobIs DEF HorseKilled
  <2> QED
    BY <1>33, <2>1, OneEnd DEF HorseKilled
<1>34. ASSUME NEW j \in Jobs, WorkerDies(j) PROVE OneIngest'
  <2>1. \A i \in Jobs : jobs'[i] = jobs[i] \/ jobs'[i].state \in {"finished", "failed", "ghost"}
    BY <1>34, EndJobIs DEF WorkerDies
  <2> QED
    BY <1>34, <2>1, OneEnd DEF WorkerDies
<1>35. ASSUME NEW j \in Jobs, GhostExpires(j) PROVE OneIngest'
  <2>1. \A i \in Jobs : jobs'[i] = jobs[i] \/ jobs'[i].state \in {"finished", "failed", "ghost"}
    BY <1>35, EndJobIs DEF GhostExpires
  <2> QED
    BY <1>35, <2>1, OneEnd DEF GhostExpires, others
<1> QED
  BY <1>1, <1>2, <1>3, <1>4, <1>5, <1>6, <1>7, <1>8, <1>9, <1>10, <1>11, <1>12,
     <1>13, <1>14, <1>15, <1>16, <1>17, <1>18, <1>19, <1>20, <1>21, <1>22, <1>23, <1>24,
     <1>25, <1>26, <1>27, <1>28, <1>29, <1>30, <1>31, <1>32, <1>33, <1>34, <1>35
  DEF IngestStep, Request, Halt, Watch, JobSteps

LEMMA OneIngestStart ==
  ASSUME Typed, OneIngest, NEW j \in Jobs, JobStart(j) PROVE OneIngest'
<1>0. Kept
  BY JobStartType
<1>1. CASE row.there
  <2>1. /\ jobs'[j].pc = "prepare" /\ jobs'[j].md = row.meta /\ jobs'[j].state = "started"
        /\ \A i \in Jobs : i # j => jobs'[i] = jobs[i]
    BY <1>1 DEF JobStart, Typed, JobRec
  <2>2. \A i \in Jobs : Alive(i) => i = j
    BY DEF JobStart, OneIngest, OneAlive, Alive
  <2>3. \A i \in Jobs : ~ Queued(i)' /\ (Running(i)' => i = j)
    BY <2>1, <2>2 DEF Alive, Queued, Running
  <2>4. UNCHANGED <<row, blame, indexed, api>>
    BY DEF JobStart, others
  <2>5. blame = {} => row.meta.cleanup \/ indexed = {}
    BY DEF JobStart, OneIngest, Marked
  <2> QED
    BY <2>1, <2>3, <2>4, <2>5 DEF OneIngest, OneAlive, Alive, Marked, BeforeWipe
<1>2. CASE ~ row.there
  <2>1. \A i \in Jobs : jobs'[i] = jobs[i] \/ jobs'[i].state \in {"finished", "failed", "ghost"}
    BY <1>2, EndJobIs DEF JobStart
  <2> QED
    BY <1>0, <2>1, OneEnd DEF JobStart, others
<1> QED
  BY <1>1, <1>2

LEMMA OneIngestNext ==
  ASSUME Typed, OneIngest, [Next]_vars PROVE OneIngest'
<1>1. CASE IngestStep
  BY <1>1, OneIngestStep
<1>2. ASSUME NEW j \in Jobs, JobStart(j) PROVE OneIngest'
  BY <1>2, OneIngestStart
<1>3. CASE UNCHANGED vars
  BY <1>3, OneFrame, TypeStutter DEF vars
<1> QED
  BY <1>1, <1>2, <1>3 DEF Next

\* At the start one job is queued and nothing indexed, or nothing queued.
LEMMA OneIngestInit ==
  ASSUME Init PROVE OneIngest
<1>1. \A j \in Jobs : ~ Running(j) /\ (Queued(j) => j = FirstJob /\ indexed = {})
  <2>1. ASSUME NEW j \in Jobs, Running(j) \/ Queued(j), j # FirstJob PROVE FALSE
    BY <2>1 DEF Init, NoJob, Queued, Running
  <2>2. ~ Running(FirstJob) /\ (Queued(FirstJob) => indexed = {})
    BY IngestConstants DEF Init, NoJob, Queued, Running
  <2> QED
    BY <2>1, <2>2
<1>2. indexed \subseteq {FirstJob}
  BY DEF Init
<1>3. \A a \in Api : api[a].pc = "idle"
  BY DEF Init, IdleApi
<1> QED
  BY <1>1, <1>2, <1>3 DEF OneIngest, OneAlive, Alive, Marked

LEMMA OneIngestEvents == OneIngest => EventsAreOneIngest
<1> SUFFICES ASSUME OneIngest, blame = {} PROVE Cardinality(indexed) <= 1
  BY DEF EventsAreOneIngest
<1>1. CASE indexed = {}
  BY <1>1, FS_EmptySet
<1>2. CASE indexed # {}
  <2>1. PICK j \in indexed : indexed = {j}
    BY <1>2 DEF OneIngest, Marked
  <2>2. Cardinality({j}) = 1
    BY FS_Singleton
  <2> QED
    BY <2>1, <2>2
<1> QED
  BY <1>1, <1>2

\* Two ingests of an evidence are searchable at once only if a wipe failed or somebody
\* wrote back metadata read before the marker was set: whatever is cancelled, paused,
\* killed, released by the watchdog or requested meanwhile, in the first ingest as in
\* later ones, any other job wipes before it indexes (_run_pending_reprocess_cleanup).
THEOREM EventsOfOneIngest == Spec => []EventsAreOneIngest
<1>1. Spec => [](Typed /\ OneIngest)
  BY InitType, TypeNext, OneIngestInit, OneIngestNext, PTL DEF Spec
<1> QED
  BY <1>1, OneIngestEvents, PTL

=============================================================================
