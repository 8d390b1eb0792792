------------------------ MODULE EvidenceUploadProofs ------------------------
(***************************************************************************)
(* Theorems about EvidenceUpload for every size of the file and any number *)
(* of overruns: types and locks for every set of requests, faults, crashes *)
(* and so on; the staged prefix, the registered evidence and the confirmed *)
(* offset for a client that sends one request at a time, under the         *)
(* assumptions each theorem names.                                         *)
(***************************************************************************)
EXTENDS EvidenceUpload, SequenceTheorems, TLAPS

RowRec  == [status : SessionStatus, received : Nat, sha : Seq(Nat), report : BOOLEAN,
            resumable : BOOLEAN]
FileRec == [exists : BOOLEAN, data : Seq(Nat)]
OpRec   == [status : OperationStatus, stage : Stages]
ProcRec == [pc : ProcPc, seen : SessionStatus, got : Nat, off : Nat, data : Seq(Nat),
            sha : Seq(Nat), first : BOOLEAN]
Locks   == {"append", "finalize"}
Kinds   == {"fault", "crash", "cancel", "retry", "expiry", "overrun"}

Typed ==
  /\ row \in RowRec
  /\ file \in FileRec
  /\ expired \in BOOLEAN
  /\ operation \in OpRec
  /\ lock \in [Locks -> Proc \cup {Free, Orphan}]
  /\ proc \in [Proc -> ProcRec]
  /\ job \in {"none", "queued", "started", "lost"}
  /\ recon \in {"idle", "cleanup", "commit"}
  /\ evidence \in Seq([data : Seq(Nat), sha : Seq(Nat)])
  /\ used \in [Kinds -> Nat]

LEMMA BoundKinds == DOMAIN Bounds = Kinds
  BY DEF Bounds, Kinds

LEMMA TypedIsTypeOK == Typed <=> TypeOK
  BY BoundKinds DEF Typed, TypeOK, RowRec, FileRec, OpRec, ProcRec, Locks

-----------------------------------------------------------------------------
(* The operators the actions are built from.                               *)

LEMMA BlocksType ==
  ASSUME NEW off \in Nat, NEW n \in Nat
  PROVE  Blocks(off, n) \in Seq(Nat)
<1>1. \A i \in 1 .. n : off + i \in Nat
  OBVIOUS
<1> QED
  BY <1>1 DEF Blocks

LEMMA WholeType == Whole \in Seq(Nat)
<1>1. \A i \in 1 .. Size : i \in Nat
  OBVIOUS
<1> QED
  BY <1>1, UploadAssumption DEF Whole

LEMMA IdleType == Idle \in ProcRec /\ NoFile \in FileRec
  BY DEF Idle, ProcRec, ProcPc, SessionStatus, Uploadable, NoData, NoFile, FileRec

LEMMA Statuses ==
  /\ Uploadable \subseteq SessionStatus
  /\ {"preflight_running", "staged", "promoted", "cancelled", "expired", "uploading",
      "interrupted", "created"} \subseteq SessionStatus
  BY DEF SessionStatus, Uploadable

\* The operation shown for a session has a status and a stage of its own.
LEMMA SyncType ==
  ASSUME Typed, NEW r \in RowRec
  PROVE  sync_upload_operation(r) \in OpRec
<1>1. operation_status(r.status) \in OperationStatus
  BY DEF operation_status, OperationStatus, RowRec, SessionStatus, Uploadable
<1>2. derive_operation_stage(r, operation.stage) \in Stages
  BY DEF derive_operation_stage, Stages
<1> QED
  BY <1>1, <1>2 DEF sync_upload_operation, OpRec

LEMMA GotoType ==
  ASSUME Typed, NEW p \in Proc, NEW next \in ProcRec, Goto(p, next)
  PROVE  proc' \in [Proc -> ProcRec]
  BY DEF Goto, Typed

LEMMA ReleaseType ==
  ASSUME Typed, NEW l \in Locks, NEW p \in Proc, Release(l, p)
  PROVE  lock' \in [Locks -> Proc \cup {Free, Orphan}]
  BY DEF Release, Typed

LEMMA UseType ==
  ASSUME Typed, NEW k \in Kinds, Use(k)
  PROVE  used' \in [Kinds -> Nat]
  BY DEF Use, Typed

LEMMA InterruptedType ==
  ASSUME NEW procs \in [Proc -> ProcRec]
  PROVE  Interrupted(procs) \in [Proc -> ProcRec]
<1>1. \A p \in Proc : [procs[p] EXCEPT !.pc = "interrupt"] \in ProcRec
  BY DEF ProcRec, ProcPc
<1> QED
  BY <1>1 DEF Interrupted

LEMMA ColumnType ==
  ASSUME NEW S, NEW current \in S, NEW loaded, NEW new \in S
  PROVE  Column(current, loaded, new) \in S
  BY DEF Column

LEMMA EnqueueType ==
  ASSUME Typed, EnqueuePreflight
  PROVE  job' \in {"none", "queued", "started", "lost"}
  BY DEF Typed, EnqueuePreflight

LEMMA HandlerType ==
  ASSUME Typed, NEW p \in Proc, HandlerEnds(p)
  PROVE  /\ job' \in {"none", "queued", "started", "lost"}
         /\ proc' \in [Proc -> ProcRec]
  BY IdleType, GotoType DEF Typed, HandlerEnds

LEMMA OpLiterals ==
  /\ [status |-> "finalizing", stage |-> "queued_preflight"] \in OpRec
  /\ [status |-> "finalizing", stage |-> "finalizing_upload"] \in OpRec
  /\ [status |-> "failed", stage |-> "preflight_failed"] \in OpRec
  /\ [status |-> "waiting_user", stage |-> "substage"] \in OpRec
  /\ [status |-> "waiting_user", stage |-> "session_status"] \in OpRec
  /\ [status |-> "waiting_upload", stage |-> "upload"] \in OpRec
  /\ [status |-> "promoting", stage |-> "promoting"] \in OpRec
  /\ [status |-> "queued", stage |-> "processing_queued"] \in OpRec
  BY DEF OpRec, OperationStatus, Stages

LEMMA ClientProc == Client \subseteq Proc /\ Worker \in Proc
  BY DEF Proc

LEMMA TypeInit == Init => Typed
<1> SUFFICES ASSUME Init PROVE Typed
  OBVIOUS
<1>1. row \in RowRec /\ file \in FileRec
  <2>1. << >> \in Seq(Nat) /\ Whole \in Seq(Nat)
    BY WholeType
  <2>2. [status |-> "created", received |-> 0, sha |-> << >>, report |-> FALSE,
         resumable |-> TRUE] \in RowRec
    BY <2>1, Statuses DEF RowRec
  <2>3. [status |-> "staged", received |-> 0, sha |-> Whole, report |-> FALSE,
         resumable |-> FALSE] \in RowRec
    BY <2>1, Statuses DEF RowRec
  <2>4. [exists |-> TRUE, data |-> Whole] \in FileRec
    BY <2>1 DEF FileRec
  <2> QED
    BY <2>2, <2>3, <2>4, IdleType DEF Init, NoData
<1>2. operation \in OpRec
  BY OpLiterals DEF Init
<1>3. lock \in [Locks -> Proc \cup {Free, Orphan}]
  BY DEF Init, Locks
<1>4. proc \in [Proc -> ProcRec] /\ used \in [Kinds -> Nat]
  BY IdleType, BoundKinds DEF Init
<1>5. /\ expired \in BOOLEAN /\ job \in {"none", "queued", "started", "lost"}
      /\ recon \in {"idle", "cleanup", "commit"}
  BY DEF Init
<1>6. evidence \in Seq([data : Seq(Nat), sha : Seq(Nat)])
  BY DEF Init
<1> QED
  BY <1>1, <1>2, <1>3, <1>4, <1>5, <1>6 DEF Typed

-----------------------------------------------------------------------------
(* Append.                                                                 *)

LEMMA CommitTouchedType ==
  ASSUME Typed, NEW r \in RowRec, CommitTouched(r)
  PROVE  row' \in RowRec /\ expired' \in BOOLEAN /\ operation' \in OpRec
  BY SyncType DEF CommitTouched

\* An update of the row writes columns of their types.
LEMMA RowUpdates ==
  ASSUME Typed
  PROVE  /\ \A s \in SessionStatus : [row EXCEPT !.status = s] \in RowRec
         /\ \A s \in SessionStatus, n \in Nat :
              [row EXCEPT !.status = s, !.received = n] \in RowRec
         /\ \A d \in Seq(Nat) : [row EXCEPT !.sha = d] \in RowRec
         /\ \A s \in SessionStatus :
              [row EXCEPT !.status = s, !.report = TRUE] \in RowRec
         /\ row.status \in SessionStatus /\ row.received \in Nat /\ row.sha \in Seq(Nat)
  BY DEF Typed, RowRec

LEMMA ProcFields ==
  ASSUME Typed, NEW p \in Proc
  PROVE  /\ proc[p] \in ProcRec /\ proc[p].pc \in ProcPc /\ proc[p].seen \in SessionStatus
         /\ proc[p].got \in Nat /\ proc[p].off \in Nat
         /\ proc[p].data \in Seq(Nat) /\ proc[p].sha \in Seq(Nat)
         /\ proc[p].first \in BOOLEAN
  BY DEF Typed, ProcRec

LEMMA AppendBeginType ==
  ASSUME Typed, NEW c \in Client, AppendBegin(c) PROVE Typed'
<1> DEFINE next == [Idle EXCEPT !.pc = "receive", !.seen = row.status, !.got = row.received,
                                !.off = row.received]
<1>1. next \in ProcRec
  BY IdleType, RowUpdates DEF ProcRec, ProcPc
<1> HIDE DEF next
<1>2. proc' \in [Proc -> ProcRec]
  BY <1>1, GotoType, ClientProc DEF AppendBegin, next
<1>3. lock' \in [Locks -> Proc \cup {Free, Orphan}]
  BY ClientProc DEF AppendBegin, Typed, Locks
<1> QED
  BY <1>2, <1>3 DEF AppendBegin, Typed

LEMMA ExtendedType ==
  ASSUME Typed, NEW off \in Nat, NEW n \in 0 .. (Size - off)
  PROVE  Extended(off, n) \in FileRec /\ off + n \in Nat
<1>1. n \in Nat /\ Size - off \in Int
  BY UploadAssumption
<1>2. Blocks(off, n) \in Seq(Nat) /\ file.data \in Seq(Nat)
  BY <1>1, BlocksType DEF Typed, FileRec
<1>3. file.data \o Blocks(off, n) \in Seq(Nat)
  BY <1>2
<1> QED
  BY <1>1, <1>3 DEF Extended, FileRec

LEMMA AppendWriteType ==
  ASSUME Typed, NEW c \in Client, AppendWrite(c) PROVE Typed'
<1>1. proc[c] \in ProcRec /\ proc[c].off \in Nat /\ c \in Proc
  BY ProcFields, ClientProc
<1>2. PICK n \in 0 .. (Size - proc[c].off) :
        /\ file' = Extended(proc[c].off, n)
        /\ Goto(c, [proc[c] EXCEPT !.pc = "commit", !.off = @ + n])
  BY DEF AppendWrite
<1>3. file' \in FileRec /\ proc[c].off + n \in Nat
  BY <1>1, <1>2, ExtendedType
<1>4. [proc[c] EXCEPT !.pc = "commit", !.off = @ + n] \in ProcRec
  BY <1>1, <1>3 DEF ProcRec, ProcPc
<1>5. proc' \in [Proc -> ProcRec]
  BY <1>1, <1>2, <1>4, GotoType
<1> QED
  BY <1>3, <1>5 DEF AppendWrite, Typed

LEMMA AppendWriteFailsType ==
  ASSUME Typed, NEW c \in Client, AppendWriteFails(c) PROVE Typed'
<1>1. proc[c] \in ProcRec /\ proc[c].off \in Nat /\ c \in Proc
  BY ProcFields, ClientProc
<1>2. file' \in FileRec
  BY <1>1, ExtendedType DEF AppendWriteFails
<1>3. [proc[c] EXCEPT !.pc = "interrupt"] \in ProcRec
  BY <1>1 DEF ProcRec, ProcPc
<1>4. proc' \in [Proc -> ProcRec]
  BY <1>1, <1>3, GotoType DEF AppendWriteFails
<1>5. used' \in [Kinds -> Nat]
  BY UseType DEF AppendWriteFails, Kinds
<1> QED
  BY <1>2, <1>4, <1>5 DEF AppendWriteFails, Typed

LEMMA AppendInterruptType ==
  ASSUME Typed, NEW c \in Client, AppendInterrupt(c) PROVE Typed'
<1> DEFINE new == [row EXCEPT !.status = Column(@, proc[c].seen, "interrupted")]
<1>1. new \in RowRec
  BY RowUpdates, ColumnType, Statuses
<1>2. row' \in RowRec /\ expired' \in BOOLEAN /\ operation' \in OpRec
  BY <1>1, CommitTouchedType DEF AppendInterrupt
<1>3. lock' \in [Locks -> Proc \cup {Free, Orphan}]
  BY ReleaseType, ClientProc DEF AppendInterrupt, Locks
<1>4. proc' \in [Proc -> ProcRec]
  BY IdleType, GotoType, ClientProc DEF AppendInterrupt
<1> QED
  BY <1>2, <1>3, <1>4 DEF AppendInterrupt, Typed

LEMMA AppendCommitType ==
  ASSUME Typed, NEW c \in Client, AppendCommit(c) PROVE Typed'
<1> DEFINE new == [row EXCEPT !.status = Column(@, proc[c].seen, "uploading"),
                              !.received = Column(@, proc[c].got, proc[c].off)]
<1>1. new \in RowRec
  <2>1. /\ Column(row.status, proc[c].seen, "uploading") \in SessionStatus
        /\ Column(row.received, proc[c].got, proc[c].off) \in Nat
    BY RowUpdates, ColumnType, Statuses, ProcFields, ClientProc
  <2> QED
    BY <2>1, RowUpdates
<1>2. row' \in RowRec /\ expired' \in BOOLEAN /\ operation' \in OpRec
  BY <1>1, CommitTouchedType DEF AppendCommit
<1>3. lock' \in [Locks -> Proc \cup {Free, Orphan}]
  BY ReleaseType, ClientProc DEF AppendCommit, Locks
<1>4. (IF proc[c].off >= Size THEN [Idle EXCEPT !.pc = "queue"] ELSE Idle) \in ProcRec
  BY IdleType DEF ProcRec, ProcPc
<1>5. proc' \in [Proc -> ProcRec]
  BY <1>4, GotoType, ClientProc DEF AppendCommit
<1> QED
  BY <1>2, <1>3, <1>5 DEF AppendCommit, Typed

LEMMA AppendQueueType ==
  ASSUME Typed, NEW c \in Client, AppendQueue(c) \/ AppendQueueFails(c) PROVE Typed'
<1>1. operation' \in OpRec
  BY OpLiterals DEF AppendQueue, AppendQueueFails
<1>2. proc' \in [Proc -> ProcRec]
  BY IdleType, GotoType, ClientProc DEF AppendQueue, AppendQueueFails
<1>3. CASE AppendQueue(c)
  BY <1>1, <1>2, <1>3, EnqueueType DEF AppendQueue, Typed
<1>4. CASE AppendQueueFails(c)
  <2>1. used' \in [Kinds -> Nat]
    BY <1>4, UseType DEF AppendQueueFails, Kinds
  <2> QED
    BY <1>1, <1>2, <1>4, <2>1 DEF AppendQueueFails, Typed
<1> QED
  BY <1>3, <1>4
-----------------------------------------------------------------------------
(* Finalize and the background preflight.                                  *)

LEMMA FinalizeReadType ==
  ASSUME Typed, NEW p \in Proc, FinalizeRead(p) PROVE Typed'
<1>1. row.status \in SessionStatus /\ row.received \in Nat /\ Len(file.data) \in Nat
  <2>1. row.status \in SessionStatus /\ row.received \in Nat
    BY RowUpdates
  <2>2. file.data \in Seq(Nat)
    BY DEF Typed, FileRec
  <2>3. Len(file.data) \in Nat
    BY <2>2
  <2> QED
    BY <2>1, <2>3
<1>2. [Idle EXCEPT !.pc = "inspect"] \in ProcRec
  BY IdleType DEF ProcRec, ProcPc
<1>3. [Idle EXCEPT !.pc = "mark", !.seen = row.status, !.got = row.received,
                   !.off = Len(file.data), !.first = TRUE] \in ProcRec
  <2>1. \A s \in SessionStatus, m \in Nat, n \in Nat :
          [Idle EXCEPT !.pc = "mark", !.seen = s, !.got = m, !.off = n, !.first = TRUE]
            \in ProcRec
    BY IdleType DEF ProcRec, ProcPc
  <2> QED
    BY <1>1, <2>1
<1>4. proc' \in [Proc -> ProcRec]
  BY <1>2, <1>3, GotoType DEF FinalizeRead
<1>5. lock' \in [Locks -> Proc \cup {Free, Orphan}]
  BY DEF FinalizeRead, Typed, Locks
<1> QED
  BY <1>4, <1>5 DEF FinalizeRead, Typed

LEMMA FinalizeIncompleteType ==
  ASSUME Typed, NEW p \in Proc, FinalizeIncomplete(p) PROVE Typed'
<1>1. /\ Column(row.status, proc[p].seen, "interrupted") \in SessionStatus
      /\ Column(row.received, proc[p].got, proc[p].off) \in Nat
  BY RowUpdates, ColumnType, Statuses, ProcFields
<1>2. row' \in RowRec
  BY <1>1, RowUpdates DEF FinalizeIncomplete
<1>3. operation' \in OpRec
  BY <1>2, SyncType, OpLiterals DEF FinalizeIncomplete
<1>4. lock' \in [Locks -> Proc \cup {Free, Orphan}]
  BY ReleaseType DEF FinalizeIncomplete, Locks
<1>5. job' \in {"none", "queued", "started", "lost"} /\ proc' \in [Proc -> ProcRec]
  BY HandlerType DEF FinalizeIncomplete
<1> QED
  BY <1>2, <1>3, <1>4, <1>5 DEF FinalizeIncomplete, Typed

LEMMA FinalizeMarkType ==
  ASSUME Typed, NEW p \in Proc, FinalizeMark(p) PROVE Typed'
<1>1. Column(row.received, proc[p].got, proc[p].off) \in Nat
  BY RowUpdates, ColumnType, ProcFields
<1>2. row' \in RowRec
  BY <1>1, RowUpdates, Statuses DEF FinalizeMark
<1>3. operation' \in OpRec
  BY DEF FinalizeMark, Typed, OpRec, Stages
<1>4. [proc[p] EXCEPT !.pc = "inspect"] \in ProcRec
  BY ProcFields DEF ProcRec, ProcPc
<1>5. proc' \in [Proc -> ProcRec]
  BY <1>4, GotoType DEF FinalizeMark
<1> QED
  BY <1>2, <1>3, <1>5 DEF FinalizeMark, Typed

LEMMA HashType ==
  ASSUME Typed, NEW p \in Proc
  PROVE  [row EXCEPT !.sha = IF proc[p].first THEN file.data ELSE @] \in RowRec
<1>1. (IF proc[p].first THEN file.data ELSE row.sha) \in Seq(Nat)
  BY RowUpdates DEF Typed, FileRec
<1> QED
  BY <1>1, RowUpdates

LEMMA FinalizeInspectType ==
  ASSUME Typed, NEW p \in Proc, FinalizeInspect(p) PROVE Typed'
<1>1. row' \in RowRec
  BY HashType DEF FinalizeInspect
<1>2. operation' \in OpRec
  BY DEF FinalizeInspect, Typed, OpRec, Stages
<1>3. [proc[p] EXCEPT !.pc = "stage"] \in ProcRec
  BY ProcFields DEF ProcRec, ProcPc
<1>4. proc' \in [Proc -> ProcRec]
  BY <1>3, GotoType DEF FinalizeInspect
<1> QED
  BY <1>1, <1>2, <1>4 DEF FinalizeInspect, Typed

LEMMA InspectionFailedType ==
  ASSUME Typed, NEW p \in Proc, InspectionFailed(p), used' \in [Kinds -> Nat] PROVE Typed'
<1>1. row' \in RowRec
  BY HashType DEF InspectionFailed
<1>2. operation' \in OpRec
  BY DEF InspectionFailed, derive_operation_stage, OpRec, Stages, OperationStatus
<1>3. lock' \in [Locks -> Proc \cup {Free, Orphan}]
  BY ReleaseType DEF InspectionFailed, Locks
<1>4. job' \in {"none", "queued", "started", "lost"} /\ proc' \in [Proc -> ProcRec]
  BY HandlerType DEF InspectionFailed
<1> QED
  BY <1>1, <1>2, <1>3, <1>4 DEF InspectionFailed, Typed

LEMMA FinalizeFailsType ==
  ASSUME Typed, NEW p \in Proc, FinalizeMissing(p) \/ FinalizeFails(p) PROVE Typed'
<1>1. used' \in [Kinds -> Nat]
  BY UseType DEF FinalizeMissing, FinalizeFails, Kinds, Typed
<1> QED
  BY <1>1, InspectionFailedType DEF FinalizeMissing, FinalizeFails

LEMMA FinalizeStageType ==
  ASSUME Typed, NEW p \in Proc, FinalizeStage(p) PROVE Typed'
<1>1. (IF proc[p].first THEN "staged" ELSE row.status) \in SessionStatus
  BY RowUpdates, Statuses
<1>2. row' \in RowRec
  BY <1>1, RowUpdates DEF FinalizeStage
<1>3. operation' \in OpRec
  BY <1>2, SyncType, OpLiterals DEF FinalizeStage
<1>4. lock' \in [Locks -> Proc \cup {Free, Orphan}]
  BY ReleaseType DEF FinalizeStage, Locks
<1>5. job' \in {"none", "queued", "started", "lost"} /\ proc' \in [Proc -> ProcRec]
  BY HandlerType DEF FinalizeStage
<1> QED
  BY <1>2, <1>3, <1>4, <1>5 DEF FinalizeStage, Typed

LEMMA WorkerTakeType ==
  ASSUME Typed, WorkerTake PROVE Typed'
<1>1. [Idle EXCEPT !.pc = "lock"] \in ProcRec
  BY IdleType DEF ProcRec, ProcPc
<1>2. proc' \in [Proc -> ProcRec]
  BY <1>1, GotoType, ClientProc DEF WorkerTake, Typed
<1>3. operation' \in OpRec
  BY OpLiterals DEF WorkerTake, Typed
<1> QED
  BY <1>2, <1>3 DEF WorkerTake, Typed

LEMMA WorkerStepsAsideType ==
  ASSUME Typed, WorkerStepsAside PROVE Typed'
  BY HandlerType, ClientProc DEF WorkerStepsAside, Typed

-----------------------------------------------------------------------------
(* Promote, cancel, retry.                                                 *)

LEMMA PromoteBeginType ==
  ASSUME Typed, NEW c \in Client, PromoteBegin(c) PROVE Typed'
<1>1. [Idle EXCEPT !.pc = "open"] \in ProcRec
  BY IdleType DEF ProcRec, ProcPc
<1>2. proc' \in [Proc -> ProcRec]
  BY <1>1, GotoType, ClientProc DEF PromoteBegin
<1> QED
  BY <1>2, OpLiterals DEF PromoteBegin, Typed

LEMMA PromoteOpenType ==
  ASSUME Typed, NEW c \in Client, PromoteOpen(c) PROVE Typed'
<1>1. file.data \in Seq(Nat) /\ row.sha \in Seq(Nat) /\ proc[c] \in ProcRec /\ c \in Proc
  BY RowUpdates, ProcFields, ClientProc DEF Typed, FileRec
<1>2. [proc[c] EXCEPT !.pc = "save", !.data = file.data, !.sha = row.sha] \in ProcRec
  BY <1>1 DEF ProcRec, ProcPc
<1>3. proc' \in [Proc -> ProcRec]
  BY <1>1, <1>2, IdleType, GotoType DEF PromoteOpen
<1> QED
  BY <1>3 DEF PromoteOpen, Typed

LEMMA PromoteSaveType ==
  ASSUME Typed, NEW c \in Client, PromoteSave(c) PROVE Typed'
<1> DEFINE move   == file.exists /\ proc[c].sha # NoData
           stored == IF move THEN file.data ELSE proc[c].data
           sha    == IF move THEN proc[c].sha ELSE proc[c].data
<1>1. /\ stored \in Seq(Nat) /\ sha \in Seq(Nat) /\ proc[c] \in ProcRec /\ c \in Proc
  BY ProcFields, ClientProc DEF Typed, FileRec
<1>2. file' \in FileRec
  BY IdleType DEF PromoteSave, Typed
<1> HIDE DEF stored, sha, move
<1>3. [proc[c] EXCEPT !.pc = "register", !.data = stored, !.sha = sha] \in ProcRec
  BY <1>1 DEF ProcRec, ProcPc
<1>4. Goto(c, Idle) \/ Goto(c, [proc[c] EXCEPT !.pc = "register", !.data = stored, !.sha = sha])
  BY DEF PromoteSave, stored, sha, move
<1>5. proc' \in [Proc -> ProcRec]
  BY <1>1, <1>3, <1>4, IdleType, GotoType
<1> QED
  BY <1>2, <1>5 DEF PromoteSave, Typed

LEMMA PromoteRegisterType ==
  ASSUME Typed, NEW c \in Client, PromoteRegister(c) \/ PromoteRegisterFails(c) PROVE Typed'
<1>1. proc[c].data \in Seq(Nat) /\ proc[c].sha \in Seq(Nat) /\ c \in Proc
  BY ProcFields, ClientProc
<1>2. CASE PromoteRegister(c)
  <2>1. [Idle EXCEPT !.pc = "finish"] \in ProcRec
    BY IdleType DEF ProcRec, ProcPc
  <2>2. proc' \in [Proc -> ProcRec]
    BY <1>1, <1>2, <2>1, GotoType DEF PromoteRegister
  <2>3. [data |-> proc[c].data, sha |-> proc[c].sha] \in [data : Seq(Nat), sha : Seq(Nat)]
    BY <1>1
  <2>4. evidence' \in Seq([data : Seq(Nat), sha : Seq(Nat)])
    BY <1>2, <2>3 DEF PromoteRegister, Typed
  <2> QED
    BY <1>2, <2>2, <2>4 DEF PromoteRegister, Typed
<1>3. CASE PromoteRegisterFails(c)
  <2>1. used' \in [Kinds -> Nat]
    BY <1>3, UseType DEF PromoteRegisterFails, Kinds
  <2>2. proc' \in [Proc -> ProcRec]
    BY <1>1, <1>3, IdleType, GotoType DEF PromoteRegisterFails
  <2> QED
    BY <1>3, <2>1, <2>2 DEF PromoteRegisterFails, Typed
<1> QED
  BY <1>2, <1>3

LEMMA PromoteFinishType ==
  ASSUME Typed, NEW c \in Client, PromoteFinish(c) PROVE Typed'
<1>1. row' \in RowRec /\ operation' \in OpRec
  BY RowUpdates, Statuses, SyncType DEF PromoteFinish
<1>2. [Idle EXCEPT !.pc = "announce"] \in ProcRec
  BY IdleType DEF ProcRec, ProcPc
<1>3. proc' \in [Proc -> ProcRec]
  BY <1>2, GotoType, ClientProc DEF PromoteFinish
<1> QED
  BY <1>1, <1>3 DEF PromoteFinish, Typed

LEMMA PromoteAnnounceType ==
  ASSUME Typed, NEW c \in Client, PromoteAnnounce(c) PROVE Typed'
<1>1. [proc EXCEPT ![c] = Idle] \in [Proc -> ProcRec]
  BY IdleType DEF Typed
<1>2. proc' \in [Proc -> ProcRec]
  BY <1>1, InterruptedType DEF PromoteAnnounce
<1> QED
  BY <1>2, IdleType, OpLiterals DEF PromoteAnnounce, Cleanup, Typed

LEMMA CancelType ==
  ASSUME Typed, NEW c \in Client, CancelCleanup(c) \/ CancelCommit(c) PROVE Typed'
<1>1. CASE CancelCleanup(c)
  <2>1. [Idle EXCEPT !.pc = "cancel"] \in ProcRec
    BY IdleType DEF ProcRec, ProcPc
  <2>2. [proc EXCEPT ![c] = [Idle EXCEPT !.pc = "cancel"]] \in [Proc -> ProcRec]
    BY <2>1 DEF Typed
  <2>3. proc' \in [Proc -> ProcRec]
    BY <1>1, <2>2, InterruptedType DEF CancelCleanup
  <2>4. used' \in [Kinds -> Nat]
    BY <1>1, UseType DEF CancelCleanup, Kinds
  <2> QED
    BY <1>1, <2>3, <2>4, IdleType DEF CancelCleanup, Cleanup, Typed
<1>2. CASE CancelCommit(c)
  <2>1. row' \in RowRec /\ operation' \in OpRec
    BY <1>2, RowUpdates, Statuses, SyncType DEF CancelCommit
  <2>2. proc' \in [Proc -> ProcRec]
    BY <1>2, IdleType, GotoType, ClientProc DEF CancelCommit
  <2> QED
    BY <1>2, <2>1, <2>2 DEF CancelCommit, Typed
<1> QED
  BY <1>1, <1>2

LEMMA RetryType ==
  ASSUME Typed, NEW c \in Client, Retry(c) PROVE Typed'
<1>1. used' \in [Kinds -> Nat]
  BY UseType DEF Retry, Kinds
<1> QED
  BY <1>1, EnqueueType, OpLiterals DEF Retry, Typed

-----------------------------------------------------------------------------
(* Reconciliation, time and crashes.                                       *)

LEMMA ReconcileType ==
  ASSUME Typed, Reconcile \/ ReconcileSync PROVE Typed'
<1>1. CASE ReconcileSync
  BY <1>1, SyncType DEF ReconcileSync, Typed
<1>2. CASE ReconcileRead
  BY <1>2 DEF ReconcileRead, Typed
<1>3. CASE ReconcileCleanup
  <2>1. proc' \in [Proc -> ProcRec]
    BY <1>3, InterruptedType DEF ReconcileCleanup, Typed
  <2> QED
    BY <1>3, <2>1, IdleType DEF ReconcileCleanup, Cleanup, Typed
<1>4. CASE ReconcileCommit
  <2>1. row' \in RowRec /\ operation' \in OpRec
    BY <1>4, RowUpdates, Statuses, SyncType DEF ReconcileCommit
  <2> QED
    BY <1>4, <2>1 DEF ReconcileCommit, Typed
<1> QED
  BY <1>1, <1>2, <1>3, <1>4 DEF Reconcile

LEMMA ExpireType ==
  ASSUME Typed, Expire PROVE Typed'
<1>1. used' \in [Kinds -> Nat]
  BY UseType DEF Expire, Kinds
<1> QED
  BY <1>1 DEF Expire, Typed

LEMMA LockTimeType ==
  ASSUME Typed, NEW l \in Locks, LockExpires(l) \/ LockOverruns(l) PROVE Typed'
<1>1. used' \in [Kinds -> Nat]
  BY UseType DEF LockExpires, LockOverruns, Kinds, Typed
<1>2. lock' \in [Locks -> Proc \cup {Free, Orphan}]
  BY DEF LockExpires, LockOverruns, Typed
<1> QED
  BY <1>1, <1>2 DEF LockExpires, LockOverruns, Typed

LEMMA CrashType ==
  ASSUME Typed, BackendCrash \/ WorkerCrash PROVE Typed'
<1>1. used' \in [Kinds -> Nat]
  BY UseType DEF BackendCrash, WorkerCrash, Kinds
<1>2. lock' \in [Locks -> Proc \cup {Free, Orphan}]
  BY DEF BackendCrash, WorkerCrash, OrphanLocks, Typed
<1>3. proc' \in [Proc -> ProcRec]
  BY IdleType, GotoType, ClientProc DEF BackendCrash, WorkerCrash, Typed
<1> QED
  BY <1>1, <1>2, <1>3 DEF BackendCrash, WorkerCrash, Typed

LEMMA RqCleanupType ==
  ASSUME Typed, RqCleanup PROVE Typed'
  BY DEF RqCleanup, Typed

LEMMA TypeNext == Typed /\ [Next]_vars => Typed'
<1> SUFFICES ASSUME Typed, [Next]_vars PROVE Typed'
  OBVIOUS
<1>1. ASSUME NEW p \in Proc, FinalizeStep(p) \/ FinalizeFails(p) \/ FinalizeRead(p) PROVE Typed'
  BY <1>1, FinalizeReadType, FinalizeIncompleteType, FinalizeMarkType, FinalizeInspectType,
     FinalizeFailsType, FinalizeStageType DEF FinalizeStep
<1>2. ASSUME NEW c \in Client, RequestBegin(c) PROVE Typed'
  BY <1>1, <1>2, ClientProc, AppendBeginType, PromoteBeginType, CancelType, RetryType
     DEF RequestBegin
<1>3. ASSUME NEW c \in Client, RequestStep(c) PROVE Typed'
  BY <1>1, <1>3, ClientProc, AppendWriteType, AppendInterruptType, AppendCommitType,
     AppendQueueType, PromoteOpenType, PromoteSaveType, PromoteRegisterType,
     PromoteFinishType, PromoteAnnounceType, CancelType DEF RequestStep
<1>4. ASSUME NEW c \in Client, RequestError(c) PROVE Typed'
  BY <1>1, <1>4, ClientProc, AppendWriteFailsType, AppendQueueType, PromoteRegisterType
     DEF RequestError
<1>5. ASSUME WorkerStep PROVE Typed'
  BY <1>1, <1>5, ClientProc, WorkerTakeType, WorkerStepsAsideType DEF WorkerStep
<1>6. CASE UNCHANGED vars
  BY <1>6 DEF vars, Typed
<1> QED
  BY <1>1, <1>2, <1>3, <1>4, <1>5, <1>6, ClientProc, ReconcileType, ExpireType,
     LockTimeType, CrashType, RqCleanupType DEF Next, Locks

\* Every reachable state of an upload session is well typed.
THEOREM UploadTypeCorrect == Spec => []TypeOK
<1>1. Init => Typed
  BY TypeInit
<1>2. Typed /\ [Next]_vars => Typed'
  BY TypeNext
<1>3. Typed => TypeOK
  BY TypedIsTypeOK
<1> QED
  BY <1>1, <1>2, <1>3, PTL DEF Spec
-----------------------------------------------------------------------------
(* LockIsKept.                                                             *)

\* A step gives away no lock of a process that stays in its section, unless
\* the lock outlived its TTL.
Kept ==
  \A l \in Locks : \A p \in Proc :
    lock[l] = p /\ lock'[l] # p =>
      proc'[p].pc \notin Section[l] \/ used'.overrun > used.overrun

LEMMA SectionPcs ==
  ASSUME NEW l \in Locks
  PROVE  /\ Idle.pc \notin Section[l]
         /\ [Idle EXCEPT !.pc = "queue"].pc \notin Section[l]
  BY DEF Locks, Section, Idle

\* A step that takes a free lock, or none.
LEMMA TakesKeep ==
  ASSUME Typed, NEW k \in Locks, NEW p, lock[k] = Free, lock' = [lock EXCEPT ![k] = p]
  PROVE  Kept
  BY UploadAssumption DEF Kept, Typed

LEMMA SameKeep ==
  ASSUME UNCHANGED lock PROVE Kept
  BY DEF Kept

\* The process that releases its lock has left the section; the token check
\* leaves everybody else's lock alone.
LEMMA ReleaseKeeps ==
  ASSUME Typed, NEW k \in Locks, NEW p \in Proc, Release(k, p), NEW next, Goto(p, next),
         \A l \in Locks : next.pc \notin Section[l]
  PROVE  Kept
<1>1. proc'[p] = next
  BY DEF Goto, Typed
<1>2. \A l \in Locks : lock'[l] # lock[l] => l = k /\ lock[l] = p
  BY DEF Release, Typed
<1> QED
  BY <1>1, <1>2 DEF Kept

LEMMA CrashKeeps ==
  ASSUME Typed, BackendCrash \/ WorkerCrash PROVE Kept
<1>1. CASE BackendCrash
  <2>1. \A l \in Locks : lock'[l] # lock[l] => lock[l] \in Client
    BY <1>1 DEF BackendCrash, OrphanLocks, Typed
  <2>2. \A c \in Client : proc'[c] = Idle
    BY <1>1, UploadAssumption, ClientProc DEF BackendCrash
  <2> QED
    BY <2>1, <2>2, SectionPcs DEF Kept
<1>2. CASE WorkerCrash
  <2>1. \A l \in Locks : lock'[l] # lock[l] => lock[l] = Worker
    BY <1>2 DEF WorkerCrash, OrphanLocks, Typed
  <2>2. proc'[Worker] = Idle
    BY <1>2, ClientProc DEF WorkerCrash, Goto, Typed
  <2> QED
    BY <2>1, <2>2, SectionPcs DEF Kept
<1> QED
  BY <1>1, <1>2

LEMMA LockTimeKeeps ==
  ASSUME Typed, NEW k \in Locks, LockExpires(k) \/ LockOverruns(k) PROVE Kept
<1>1. CASE LockExpires(k)
  BY <1>1, UploadAssumption DEF LockExpires, Kept, Typed
<1>2. CASE LockOverruns(k)
  <2>1. used'["overrun"] = used["overrun"] + 1 /\ used["overrun"] \in Nat
    BY <1>2 DEF LockOverruns, Use, Typed, Kinds
  <2> QED
    BY <2>1 DEF Kept
<1> QED
  BY <1>1, <1>2

LEMMA FinalizeKeeps ==
  ASSUME Typed, NEW p \in Proc,
         FinalizeRead(p) \/ FinalizeStep(p) \/ FinalizeFails(p)
  PROVE  Kept
<1>1. CASE FinalizeRead(p)
  BY <1>1, TakesKeep DEF FinalizeRead, Locks
<1>2. CASE FinalizeMark(p) \/ FinalizeInspect(p)
  BY <1>2, SameKeep DEF FinalizeMark, FinalizeInspect
<1>3. CASE FinalizeIncomplete(p) \/ FinalizeStage(p) \/ InspectionFailed(p)
  <2>1. Release("finalize", p) /\ Goto(p, Idle)
    BY <1>3 DEF FinalizeIncomplete, FinalizeStage, InspectionFailed, HandlerEnds
  <2> QED
    BY <2>1, SectionPcs, ReleaseKeeps DEF Locks
<1> QED
  BY <1>1, <1>2, <1>3 DEF FinalizeStep, FinalizeMissing, FinalizeFails

LEMMA AppendKeeps ==
  ASSUME Typed, NEW c \in Client, AppendBegin(c) \/ AppendInterrupt(c) \/ AppendCommit(c)
  PROVE  Kept
<1>1. CASE AppendBegin(c)
  BY <1>1, TakesKeep DEF AppendBegin, Locks
<1>2. CASE AppendInterrupt(c)
  BY <1>2, SectionPcs, ReleaseKeeps, ClientProc DEF AppendInterrupt, Locks
<1>3. CASE AppendCommit(c)
  <2> DEFINE next == IF proc[c].off >= Size THEN [Idle EXCEPT !.pc = "queue"] ELSE Idle
  <2>1. \A l \in Locks : next.pc \notin Section[l]
    BY SectionPcs
  <2> HIDE DEF next
  <2>2. Goto(c, next) /\ Release("append", c)
    BY <1>3 DEF AppendCommit, next
  <2> QED
    BY <2>1, <2>2, ReleaseKeeps, ClientProc DEF Locks
<1> QED
  BY <1>1, <1>2, <1>3

LEMMA LockStep == Typed /\ [Next]_vars => Kept
<1> SUFFICES ASSUME Typed, [Next]_vars PROVE Kept
  OBVIOUS
<1>1. ASSUME NEW c \in Client, RequestBegin(c) PROVE Kept
  BY <1>1, AppendKeeps, FinalizeKeeps, ClientProc, SameKeep
     DEF RequestBegin, PromoteBegin, CancelCleanup, Retry
<1>2. ASSUME NEW c \in Client, RequestStep(c) PROVE Kept
  BY <1>2, AppendKeeps, FinalizeKeeps, ClientProc, SameKeep
     DEF RequestStep, AppendWrite, AppendQueue, PromoteOpen, PromoteSave, PromoteRegister,
         PromoteFinish, PromoteAnnounce, CancelCommit
<1>3. ASSUME NEW c \in Client, RequestError(c) PROVE Kept
  BY <1>3, FinalizeKeeps, ClientProc, SameKeep
     DEF RequestError, AppendWriteFails, AppendQueueFails, PromoteRegisterFails
<1>4. ASSUME WorkerStep \/ FinalizeFails(Worker) PROVE Kept
  BY <1>4, FinalizeKeeps, ClientProc, SameKeep DEF WorkerStep, WorkerTake, WorkerStepsAside
<1>5. ASSUME Reconcile \/ ReconcileSync \/ Expire \/ RqCleanup \/ UNCHANGED vars PROVE Kept
  BY <1>5, SameKeep DEF Reconcile, ReconcileRead, ReconcileCleanup, ReconcileCommit,
     ReconcileSync, Expire, RqCleanup, vars
<1> QED
  BY <1>1, <1>2, <1>3, <1>4, <1>5, LockTimeKeeps, CrashKeeps DEF Next, Locks

\* For any number of requests, faults, crashes and lock overruns: a request that
\* is still inside its section loses its lock to nobody but the TTL.
THEOREM LocksAreKept == Spec => LockIsKept
<1>1. Init => Typed
  BY TypeInit
<1>2. Typed /\ [Next]_vars => Typed'
  BY TypeNext
<1>3. Typed => DOMAIN lock = Locks
  BY DEF Typed
<1>4. Typed /\ [Next]_vars =>
        [\A l \in DOMAIN lock : \A p \in Proc :
           lock[l] = p /\ lock'[l] # p =>
             proc'[p].pc \notin Section[l] \/ used'.overrun > used.overrun]_vars
  BY <1>3, LockStep DEF Kept
<1> QED
  BY <1>1, <1>2, <1>4, PTL DEF Spec, LockIsKept

-----------------------------------------------------------------------------
(* StagedBytesArePrefix: an append extends the file at the offset at which *)
(* it ends, as long as one request at a time handles the session.          *)

\* The client sends its requests one after the other.
OneClient == \E c : Client = {c}

LEMMA BlocksLen ==
  ASSUME NEW off \in Nat, NEW n \in Nat
  PROVE  Len(Blocks(off, n)) = n
<1>1. Blocks(off, n) \in Seq(Nat) /\ DOMAIN Blocks(off, n) = 1 .. n
  BY BlocksType DEF Blocks
<1> QED
  BY <1>1

LEMMA BlocksConcat ==
  ASSUME NEW m \in Nat, NEW n \in Nat
  PROVE  Blocks(0, m) \o Blocks(m, n) = Blocks(0, m + n)
<1> DEFINE s == Blocks(0, m)
           t == Blocks(m, n)
           u == Blocks(0, m + n)
<1>1. s \in Seq(Nat) /\ t \in Seq(Nat) /\ u \in Seq(Nat)
  <2>1. 0 \in Nat /\ m + n \in Nat
    OBVIOUS
  <2> QED
    BY <2>1, BlocksType
<1>2. Len(s) = m /\ Len(t) = n /\ Len(u) = m + n
  BY BlocksLen
<1>3. /\ \A i \in 1 .. m : s[i] = i
      /\ \A i \in 1 .. n : t[i] = m + i
      /\ \A i \in 1 .. m + n : u[i] = i
  BY DEF Blocks
<1> HIDE DEF s, t, u
<1>4. /\ s \o t \in Seq(Nat) /\ Len(s \o t) = m + n
      /\ \A i \in 1 .. m + n : (s \o t)[i] = IF i <= m THEN s[i] ELSE t[i - m]
  BY <1>1, <1>2, ConcatProperties
<1>5. ASSUME NEW i \in 1 .. m + n PROVE (s \o t)[i] = u[i]
  <2>1. i <= m => i \in 1 .. m
    OBVIOUS
  <2>2. ~ (i <= m) => i - m \in 1 .. n /\ m + (i - m) = i
    OBVIOUS
  <2> QED
    BY <1>3, <1>4, <2>1, <2>2
<1>6. s \o t = u
  BY <1>1, <1>2, <1>4, <1>5, SeqEqual
<1> QED
  BY <1>6 DEF s, t, u

LEMMA WholeIsBlocks == Whole = Blocks(0, Size) /\ Len(Whole) = Size
<1>1. \A i \in 1 .. Size : 0 + i = i
  OBVIOUS
<1>2. Whole = Blocks(0, Size)
  BY <1>1 DEF Whole, Blocks
<1> QED
  BY <1>2, BlocksLen, UploadAssumption

\* A request that receives a body began where the file ends.
ReceivesAtEnd(c) ==
  proc[c].pc = "receive" => proc[c].off = Len(file.data) /\ proc[c].off <= Size

PrefixInv == StagedBytesArePrefix /\ \A c \in Client : ReceivesAtEnd(c)

LEMMA FileLen ==
  ASSUME Typed
  PROVE  file.data \in Seq(Nat) /\ Len(file.data) \in Nat
<1>1. file.data \in Seq(Nat)
  BY DEF Typed, FileRec
<1> QED
  BY <1>1

LEMMA NoFilePrefix ==
  ASSUME file' = NoFile
  PROVE  StagedBytesArePrefix' /\ Len(file'.data) = 0
<1>1. file'.data = << >> /\ Len(file'.data) = 0
  BY DEF NoFile, NoData
<1>2. Blocks(0, 0) = << >>
  <2>1. Blocks(0, 0) \in Seq(Nat) /\ Len(Blocks(0, 0)) = 0
    BY BlocksType, BlocksLen
  <2> QED
    BY <2>1
<1> QED
  BY <1>1, <1>2, UploadAssumption DEF StagedBytesArePrefix

LEMMA ExtendedPrefix ==
  ASSUME Typed, StagedBytesArePrefix, NEW off \in Nat, NEW n \in 0 .. (Size - off),
         off = Len(file.data), file' = Extended(off, n)
  PROVE  /\ StagedBytesArePrefix'
         /\ file'.exists
         /\ Len(file'.data) = off + n /\ off + n <= Size
<1>1. n \in Nat /\ off + n \in Nat /\ off + n <= Size
  BY UploadAssumption
<1>2. file.data = Blocks(0, off)
  BY DEF StagedBytesArePrefix
<1>3. file'.data = Blocks(0, off) \o Blocks(off, n) /\ file'.exists
  BY <1>2 DEF Extended
<1>4. file'.data = Blocks(0, off + n)
  BY <1>1, <1>3, BlocksConcat
<1>5. Len(file'.data) = off + n
  BY <1>1, <1>4, BlocksLen
<1> QED
  BY <1>1, <1>3, <1>4, <1>5 DEF StagedBytesArePrefix

LEMMA GotoOthers ==
  ASSUME Typed, NEW p \in Proc, NEW next, Goto(p, next)
  PROVE  proc'[p] = next /\ \A q \in Proc : q # p => proc'[q] = proc[q]
  BY DEF Goto, Typed

LEMMA InterruptedPc ==
  ASSUME NEW procs \in [Proc -> ProcRec], NEW p \in Proc
  PROVE  /\ Interrupted(procs)[p].pc # "receive"
         /\ procs[p].pc # "receive" => Interrupted(procs)[p] = procs[p]
         /\ procs[p].pc = "receive" =>
              Interrupted(procs)[p] = [procs[p] EXCEPT !.pc = "interrupt"]
  BY DEF Interrupted, ProcRec

\* A step that leaves the file alone and lets nobody begin to receive.
LEMMA SameFilePrefix ==
  ASSUME PrefixInv, UNCHANGED file,
         \A c \in Client : proc'[c].pc = "receive" => proc'[c] = proc[c]
  PROVE  PrefixInv'
  BY DEF PrefixInv, StagedBytesArePrefix, ReceivesAtEnd

\* A step that removes the file while nobody receives.
LEMMA NoFileIsPrefix ==
  ASSUME file' = NoFile, \A c \in Client : proc'[c].pc # "receive"
  PROVE  PrefixInv'
  BY NoFilePrefix DEF PrefixInv, ReceivesAtEnd

LEMMA IdlePcs ==
  /\ Idle.pc = "idle" /\ ~ Idle.first
  /\ \A x \in ProcPc : [Idle EXCEPT !.pc = x].pc = x /\ ~ [Idle EXCEPT !.pc = x].first
  BY DEF Idle, ProcPc

LEMMA AppendPrefix ==
  ASSUME Typed, PrefixInv, OneClient, NEW c \in Client,
         AppendBegin(c) \/ AppendWrite(c) \/ AppendWriteFails(c) \/ AppendInterrupt(c)
           \/ AppendCommit(c) \/ AppendQueue(c) \/ AppendQueueFails(c)
  PROVE  PrefixInv'
<1>1. c \in Proc /\ \A d \in Client : d = c
  BY ClientProc DEF OneClient
<1>2. /\ proc[c] \in ProcRec /\ proc[c].off \in Nat
      /\ file.data \in Seq(Nat) /\ Len(file.data) \in Nat /\ row.received \in Nat
  BY <1>1, ProcFields, FileLen, RowUpdates
<1>3. CASE AppendBegin(c)
  <2>1. proc'[c] = [Idle EXCEPT !.pc = "receive", !.seen = row.status, !.got = row.received,
                                !.off = row.received]
    BY <1>1, <1>3, GotoOthers DEF AppendBegin
  <2>2. proc'[c].off = row.received
    BY <2>1 DEF Idle
  <2> QED
    BY <1>1, <1>2, <1>3, <2>2
       DEF AppendBegin, OffsetMatches, PrefixInv, StagedBytesArePrefix, ReceivesAtEnd
<1>4. CASE AppendWrite(c) \/ AppendWriteFails(c)
  <2>1. proc[c].pc = "receive" /\ proc[c].off = Len(file.data) /\ StagedBytesArePrefix
    BY <1>4 DEF AppendWrite, AppendWriteFails, PrefixInv, ReceivesAtEnd
  <2>2. PICK n \in 0 .. (Size - proc[c].off) : file' = Extended(proc[c].off, n)
    BY <1>4 DEF AppendWrite, AppendWriteFails
  <2>3. StagedBytesArePrefix'
    BY <1>2, <2>1, <2>2, ExtendedPrefix
  <2>4. \/ \E m : proc'[c] = [proc[c] EXCEPT !.pc = "commit", !.off = m]
        \/ proc'[c] = [proc[c] EXCEPT !.pc = "interrupt"]
    BY <1>1, <1>4, GotoOthers DEF AppendWrite, AppendWriteFails
  <2>5. proc'[c].pc # "receive"
    BY <1>2, <2>4 DEF ProcRec
  <2> QED
    BY <1>1, <2>3, <2>5 DEF PrefixInv, ReceivesAtEnd
<1>5. CASE AppendInterrupt(c) \/ AppendCommit(c) \/ AppendQueue(c) \/ AppendQueueFails(c)
  <2>1. proc'[c] = Idle \/ proc'[c] = [Idle EXCEPT !.pc = "queue"]
    BY <1>1, <1>5, GotoOthers DEF AppendInterrupt, AppendCommit, AppendQueue, AppendQueueFails
  <2>2. proc'[c].pc # "receive"
    BY <2>1, IdlePcs DEF ProcPc
  <2>3. UNCHANGED file
    BY <1>5 DEF AppendInterrupt, AppendCommit, AppendQueue, AppendQueueFails
  <2> QED
    BY <1>1, <2>2, <2>3, SameFilePrefix
<1> QED
  BY <1>3, <1>4, <1>5

LEMMA FinalizePrefix ==
  ASSUME Typed, PrefixInv, NEW p \in Proc,
         FinalizeRead(p) \/ FinalizeStep(p) \/ FinalizeFails(p)
  PROVE  PrefixInv'
<1>1. UNCHANGED file
  BY DEF FinalizeRead, FinalizeStep, FinalizeFails, FinalizeIncomplete, FinalizeMark,
         FinalizeInspect, FinalizeMissing, InspectionFailed, FinalizeStage
<1>2. PICK next : Goto(p, next) /\ next.pc # "receive"
  <2>1. CASE FinalizeRead(p)
    <3>1. PICK next \in {[Idle EXCEPT !.pc = "inspect"],
                         [Idle EXCEPT !.pc = "mark", !.seen = row.status,
                                      !.got = row.received, !.off = Len(file.data),
                                      !.first = TRUE]} : Goto(p, next)
      BY <2>1 DEF FinalizeRead
    <3>2. next.pc # "receive"
      BY <3>1 DEF Idle
    <3> QED
      BY <3>1, <3>2
  <2>2. CASE FinalizeMark(p) \/ FinalizeInspect(p)
    BY <2>2, ProcFields DEF FinalizeMark, FinalizeInspect, ProcRec
  <2>3. CASE FinalizeIncomplete(p) \/ InspectionFailed(p) \/ FinalizeStage(p)
    BY <2>3, IdlePcs DEF FinalizeIncomplete, InspectionFailed, FinalizeStage, HandlerEnds
  <2> QED
    BY <2>1, <2>2, <2>3 DEF FinalizeStep, FinalizeFails, FinalizeMissing
<1>3. \A c \in Client : proc'[c].pc = "receive" => proc'[c] = proc[c]
  BY <1>2, GotoOthers, ClientProc
<1> QED
  BY <1>1, <1>3, SameFilePrefix

LEMMA PromotePrefix ==
  ASSUME Typed, PrefixInv, OneClient, NEW c \in Client,
         PromoteBegin(c) \/ PromoteOpen(c) \/ PromoteSave(c) \/ PromoteRegister(c)
           \/ PromoteRegisterFails(c) \/ PromoteFinish(c)
  PROVE  PrefixInv'
<1>1. c \in Proc /\ proc[c] \in ProcRec /\ \A d \in Client : d = c
  BY ClientProc, ProcFields DEF OneClient
<1>2. PICK next : Goto(c, next) /\ next.pc # "receive"
  <2>1. CASE PromoteBegin(c) \/ PromoteRegister(c) \/ PromoteRegisterFails(c)
               \/ PromoteFinish(c)
    BY <2>1, IdlePcs
       DEF PromoteBegin, PromoteRegister, PromoteRegisterFails, PromoteFinish, ProcPc
  <2>2. CASE PromoteOpen(c)
    <3>1. PICK next \in {Idle, [proc[c] EXCEPT !.pc = "save", !.data = file.data,
                                              !.sha = row.sha]} : Goto(c, next)
      BY <2>2 DEF PromoteOpen
    <3>2. next.pc # "receive"
      BY <1>1, <3>1, IdlePcs DEF ProcRec
    <3> QED
      BY <3>1, <3>2
  <2>3. CASE PromoteSave(c)
    <3> DEFINE move   == file.exists /\ proc[c].sha # NoData
               stored == IF move THEN file.data ELSE proc[c].data
               sha    == IF move THEN proc[c].sha ELSE proc[c].data
    <3>1. PICK next \in {Idle, [proc[c] EXCEPT !.pc = "register", !.data = stored,
                                              !.sha = sha]} : Goto(c, next)
      BY <2>3 DEF PromoteSave
    <3>2. next.pc # "receive"
      BY <1>1, <3>1, IdlePcs DEF ProcRec
    <3> QED
      BY <3>1, <3>2
  <2> QED
    BY <2>1, <2>2, <2>3
<1>3. \A d \in Client : proc'[d].pc # "receive"
  BY <1>1, <1>2, GotoOthers
<1>4. file' = file \/ file' = NoFile
  BY DEF PromoteBegin, PromoteOpen, PromoteSave, PromoteRegister, PromoteRegisterFails,
         PromoteFinish
<1> QED
  BY <1>3, <1>4, SameFilePrefix, NoFileIsPrefix

LEMMA CleanupPrefix ==
  ASSUME Typed, PrefixInv,
         (\E c \in Client : PromoteAnnounce(c) \/ CancelCleanup(c)) \/ ReconcileCleanup
  PROVE  PrefixInv'
<1>1. PICK procs \in [Proc -> ProcRec] : proc' = Interrupted(procs)
  <2>1. ASSUME NEW c \in Client, PromoteAnnounce(c)
        PROVE  \E procs \in [Proc -> ProcRec] : proc' = Interrupted(procs)
    BY <2>1, IdleType DEF PromoteAnnounce, Typed
  <2>2. ASSUME NEW c \in Client, CancelCleanup(c)
        PROVE  \E procs \in [Proc -> ProcRec] : proc' = Interrupted(procs)
    <3>1. [Idle EXCEPT !.pc = "cancel"] \in ProcRec
      BY IdleType DEF ProcRec, ProcPc
    <3> QED
      BY <2>2, <3>1 DEF CancelCleanup, Typed
  <2>3. CASE ReconcileCleanup
    BY <2>3 DEF ReconcileCleanup, Typed
  <2> QED
    BY <2>1, <2>2, <2>3
<1>2. \A d \in Client : proc'[d].pc # "receive"
  BY <1>1, InterruptedPc, ClientProc
<1>3. file' = NoFile
  BY DEF PromoteAnnounce, CancelCleanup, ReconcileCleanup, Cleanup
<1> QED
  BY <1>2, <1>3, NoFileIsPrefix

LEMMA OtherPrefix ==
  ASSUME Typed, PrefixInv,
         \/ \E c \in Client : CancelCommit(c) \/ Retry(c)
         \/ WorkerTake \/ WorkerStepsAside
         \/ ReconcileRead \/ ReconcileCommit \/ ReconcileSync \/ Expire
         \/ \E l \in Locks : LockExpires(l) \/ LockOverruns(l)
         \/ BackendCrash \/ WorkerCrash \/ RqCleanup \/ UNCHANGED vars
  PROVE  PrefixInv'
<1>1. UNCHANGED file
  BY DEF CancelCommit, Retry, WorkerTake, WorkerStepsAside, ReconcileRead, ReconcileCommit,
         ReconcileSync, Expire, LockExpires, LockOverruns, BackendCrash, WorkerCrash,
         RqCleanup, vars
<1>2. \A p \in Proc : proc'[p] = proc[p] \/ proc'[p].pc # "receive"
  <2>1. ASSUME NEW c \in Client, CancelCommit(c)
        PROVE  \A p \in Proc : proc'[p] = proc[p] \/ proc'[p].pc # "receive"
    BY <2>1, GotoOthers, IdlePcs, ClientProc DEF CancelCommit
  <2>2. CASE WorkerTake \/ WorkerStepsAside \/ WorkerCrash
    <3>1. \/ UNCHANGED proc \/ Goto(Worker, Idle) \/ Goto(Worker, [Idle EXCEPT !.pc = "lock"])
      BY <2>2 DEF WorkerTake, WorkerStepsAside, WorkerCrash, HandlerEnds
    <3>2. [Idle EXCEPT !.pc = "lock"].pc # "receive" /\ Idle.pc # "receive"
      BY DEF Idle
    <3> QED
      BY <3>1, <3>2, GotoOthers, ClientProc
  <2>3. CASE BackendCrash
    BY <2>3, IdlePcs DEF BackendCrash
  <2>4. CASE \/ \E c \in Client : Retry(c)
             \/ ReconcileRead \/ ReconcileCommit \/ ReconcileSync \/ Expire
             \/ \E l \in Locks : LockExpires(l) \/ LockOverruns(l)
             \/ RqCleanup \/ UNCHANGED vars
    BY <2>4 DEF Retry, ReconcileRead, ReconcileCommit, ReconcileSync, Expire, LockExpires,
                LockOverruns, RqCleanup, vars
  <2> QED
    BY <2>1, <2>2, <2>3, <2>4
<1> QED
  BY <1>1, <1>2, SameFilePrefix, ClientProc

LEMMA PrefixInit == Init => PrefixInv
<1> SUFFICES ASSUME Init PROVE PrefixInv
  OBVIOUS
<1>1. \A c \in Client : proc[c] = Idle
  BY ClientProc DEF Init
<1>2. CASE file = NoFile
  <2>1. file.data = << >> /\ Len(file.data) = 0
    BY <1>2 DEF NoFile, NoData
  <2>2. Blocks(0, 0) \in Seq(Nat) /\ Len(Blocks(0, 0)) = 0
    BY BlocksType, BlocksLen
  <2>3. Blocks(0, 0) = << >>
    BY <2>2
  <2> QED
    BY <1>1, <2>1, <2>3, IdlePcs, UploadAssumption
       DEF PrefixInv, StagedBytesArePrefix, ReceivesAtEnd
<1>3. CASE file = [exists |-> TRUE, data |-> Whole]
  BY <1>1, <1>3, IdlePcs, WholeIsBlocks, UploadAssumption
     DEF PrefixInv, StagedBytesArePrefix, ReceivesAtEnd
<1> QED
  BY <1>2, <1>3 DEF Init

LEMMA PrefixNext == OneClient /\ Typed /\ PrefixInv /\ [Next]_vars => PrefixInv'
<1> SUFFICES ASSUME OneClient, Typed, PrefixInv, [Next]_vars PROVE PrefixInv'
  OBVIOUS
<1>1. ASSUME NEW c \in Client, RequestBegin(c) PROVE PrefixInv'
  BY <1>1, AppendPrefix, FinalizePrefix, PromotePrefix, CleanupPrefix, OtherPrefix, ClientProc
     DEF RequestBegin
<1>2. ASSUME NEW c \in Client, RequestStep(c) PROVE PrefixInv'
  BY <1>2, AppendPrefix, FinalizePrefix, PromotePrefix, CleanupPrefix, OtherPrefix, ClientProc
     DEF RequestStep
<1>3. ASSUME NEW c \in Client, RequestError(c) PROVE PrefixInv'
  BY <1>3, AppendPrefix, FinalizePrefix, PromotePrefix, ClientProc DEF RequestError
<1>4. ASSUME WorkerStep \/ FinalizeFails(Worker) PROVE PrefixInv'
  BY <1>4, FinalizePrefix, OtherPrefix, ClientProc DEF WorkerStep
<1>5. ASSUME Reconcile \/ ReconcileSync \/ Expire \/ RqCleanup \/ UNCHANGED vars
      PROVE  PrefixInv'
  BY <1>5, CleanupPrefix, OtherPrefix DEF Reconcile
<1>6. ASSUME \/ \E l \in Locks : LockExpires(l) \/ LockOverruns(l)
             \/ BackendCrash \/ WorkerCrash
      PROVE  PrefixInv'
  BY <1>6, OtherPrefix
<1> QED
  BY <1>1, <1>2, <1>3, <1>4, <1>5, <1>6 DEF Next, Locks

\* The client that sends its requests one after the other always has a prefix of
\* its file staged, whatever disk errors, crashes, cancellations, retries, sweeps
\* and lock overruns come between: an append goes to the offset at which the file
\* ends, and a sweep that removes the file stops the append that is receiving.
THEOREM StagedBytesStayPrefix == OneClient => (Spec => []StagedBytesArePrefix)
<1> SUFFICES ASSUME OneClient PROVE Spec => []StagedBytesArePrefix
  OBVIOUS
<1>1. Init => Typed /\ PrefixInv
  BY TypeInit, PrefixInit
<1>2. Typed /\ PrefixInv /\ [Next]_vars => (Typed /\ PrefixInv)'
  BY TypeNext, PrefixNext
<1>3. PrefixInv => StagedBytesArePrefix
  BY DEF PrefixInv
<1> QED
  BY <1>1, <1>2, <1>3, PTL DEF Spec

-----------------------------------------------------------------------------
(* EvidenceIsWhole.  A finalization accepts the staged file by the size it *)
(* read, marks, hashes and stages it later; in between the client may have *)
(* promoted the file through another finalization.  The invariant: once    *)
(* somebody has accepted the file, or the status says so, the file is the  *)
(* whole file or gone for good, and an append that still receives has the  *)
(* file before it, and nothing to add.                                     *)

Closed    == {"preflight_running", "staged", "promoted"}
Promoting == {"open", "save", "register", "finish", "announce"}

WholeOrGone == file.exists => file.data = Whole

\* The finalization of p has read the full size and will write the hash or the
\* status that follow from it.
Accepted(p) ==
  /\ proc[p].first
  /\ (proc[p].pc = "mark" /\ proc[p].off = Size) \/ proc[p].pc \in {"inspect", "stage"}

\* Nobody is between writing a hash and staging without the hash of the file.
Hashed == file.exists /\ row.status = "staged" => row.sha = Whole

WholeFor(c) ==
  /\ \A p \in {c, Worker} : proc[p].pc = "mark" => proc[p].first
  /\ row.status \in Closed => WholeOrGone /\ (proc[c].pc = "receive" => file.exists)
  /\ Accepted(c) => file.exists
  /\ Accepted(c) \/ Accepted(Worker) =>
       WholeOrGone /\ (proc[c].pc = "receive" => file.exists)
  /\ Accepted(Worker) => file.exists \/ (row.status \in Closed /\ proc[c].pc # "mark")
  /\ proc[c].pc \in {"interrupt", "commit"} => file.exists
  /\ proc[c].pc = "stage" /\ proc[c].first => row.sha = Whole
  /\ proc[Worker].pc = "stage" /\ proc[Worker].first /\ file.exists => row.sha = Whole
  /\ proc[c].pc \in Promoting =>
       /\ WholeOrGone
       /\ row.status \in Closed \/ (proc[Worker].pc = "idle" /\ job # "queued")
       /\ proc[c].pc = "open" /\ file.exists => row.sha = Whole
       /\ proc[c].pc \in {"save", "register"} => proc[c].data = Whole /\ proc[c].sha = Whole

\* No request is cancelled and no session outlives its expiry.
Unforced ==
  /\ row.status \in Uploadable \cup Closed
  /\ ~ expired /\ recon = "idle"
  /\ \A p \in Proc : proc[p].pc # "cancel"
  /\ used["cancel"] = 0 /\ used["expiry"] = 0

WholeInv ==
  /\ Unforced
  /\ Hashed
  /\ file.exists \/ file.data = NoData
  /\ EvidenceIsWhole
  /\ \A c \in Client : WholeFor(c)

\* One client, no cancellation and no expiry.
CalmClient == OneClient /\ MaxCancels = 0 /\ MaxExpiries = 0

LEMMA FullIsWhole ==
  ASSUME Typed, PrefixInv, Len(file.data) = Size, file.exists \/ file.data = NoData
  PROVE  file.data = Whole /\ file.exists
<1>1. file.data = Whole
  BY WholeIsBlocks DEF PrefixInv, StagedBytesArePrefix
<1>2. file.data # NoData
  BY UploadAssumption DEF NoData
<1> QED
  BY <1>1, <1>2

LEMMA WholeInit == Init => WholeInv
<1> SUFFICES ASSUME Init PROVE WholeInv
  OBVIOUS
<1>1. \A p \in Proc : proc[p].pc = "idle" /\ ~ proc[p].first
  BY IdlePcs DEF Init
<1>2. Unforced
  <2>1. used["cancel"] = 0 /\ used["expiry"] = 0
    BY BoundKinds DEF Init, Kinds
  <2> QED
    BY <1>1, <2>1 DEF Init, Unforced, Uploadable, Closed
<1>3. Hashed /\ (file.exists \/ file.data = NoData) /\ WholeOrGone
  BY DEF Init, Hashed, NoFile, WholeOrGone
<1>4. EvidenceIsWhole
  BY DEF Init, EvidenceIsWhole
<1>5. \A c \in Client : WholeFor(c)
  BY <1>1, <1>3, ClientProc DEF WholeFor, Accepted, Promoting
<1> QED
  BY <1>2, <1>3, <1>4, <1>5 DEF WholeInv

LEMMA NoBoundedEvent ==
  ASSUME Typed, Unforced, CalmClient
  PROVE  ~ Use("cancel") /\ ~ Use("expiry")
  BY DEF Use, Unforced, CalmClient, Bounds, Typed, Kinds

\* The other bounded events leave those two alone.
LEMMA UseOther ==
  ASSUME Typed, Unforced, NEW k \in Kinds \ {"cancel", "expiry"}, Use(k)
  PROVE  used'["cancel"] = 0 /\ used'["expiry"] = 0
  BY DEF Use, Unforced, Typed, Kinds

LEMMA WholeFacts ==
  ASSUME Typed, CalmClient, WholeInv, NEW c \in Client
  PROVE  /\ c \in Proc /\ Worker \in Proc /\ c # Worker /\ \A d \in Client : d = c
         /\ proc[c] \in ProcRec /\ proc[Worker] \in ProcRec /\ row \in RowRec
         /\ Unforced /\ Hashed /\ EvidenceIsWhole /\ WholeFor(c)
         /\ file.exists \/ file.data = NoData
  BY ClientProc, UploadAssumption DEF CalmClient, OneClient, Typed, WholeInv

\* What a step of the only client, or of the worker, has to show.
LEMMA WholeParts ==
  ASSUME CalmClient, NEW c \in Client, WholeFor(c)', Unforced', Hashed', EvidenceIsWhole',
         file'.exists \/ file'.data = NoData
  PROVE  WholeInv'
  BY DEF CalmClient, OneClient, WholeInv

LEMMA UnforcedStep ==
  ASSUME Typed, Unforced, row'.status \in Uploadable \cup Closed,
         ~ expired', UNCHANGED recon,
         \A p \in Proc : proc'[p].pc # "cancel",
         UNCHANGED used \/ \E k \in Kinds \ {"cancel", "expiry"} : Use(k)
  PROVE  Unforced'
  BY UseOther DEF Unforced

LEMMA AppendBeginWhole ==
  ASSUME Typed, PrefixInv, CalmClient, WholeInv, NEW c \in Client, AppendBegin(c)
  PROVE  WholeInv'
<1> DEFINE next == [Idle EXCEPT !.pc = "receive", !.seen = row.status, !.got = row.received,
                                !.off = row.received]
<1>1. /\ c \in Proc /\ Worker \in Proc /\ c # Worker
      /\ Unforced /\ Hashed /\ EvidenceIsWhole /\ WholeFor(c)
      /\ file.exists \/ file.data = NoData
  BY WholeFacts
<1>2. proc'[c] = next /\ \A q \in Proc : q # c => proc'[q] = proc[q]
  BY <1>1, GotoOthers DEF AppendBegin
<1>3. next.pc = "receive" /\ ~ next.first
  BY DEF Idle
<1> HIDE DEF next
<1>4. UNCHANGED <<row, file, job, recon, evidence, expired, used>>
  BY DEF AppendBegin
<1>5. row.status \in Uploadable /\ row.status \notin Closed
  BY DEF AppendBegin, Uploadable, Closed
<1>6. proc[c].pc = "idle"
  BY DEF AppendBegin
<1>7. Accepted(Worker) => file.exists
  BY <1>1, <1>5 DEF WholeFor
<1>8. WholeFor(c)'
  BY <1>1, <1>2, <1>3, <1>4, <1>5, <1>6, <1>7 DEF WholeFor, Accepted, Promoting, WholeOrGone
<1>9. Unforced'
  BY <1>1, <1>2, <1>3, <1>4 DEF Unforced
<1> QED
  BY <1>1, <1>4, <1>8, <1>9, WholeParts DEF Hashed, EvidenceIsWhole

LEMMA AppendWriteWhole ==
  ASSUME Typed, PrefixInv, CalmClient, WholeInv, NEW c \in Client,
         AppendWrite(c) \/ AppendWriteFails(c)
  PROVE  WholeInv'
<1>1. /\ c \in Proc /\ Worker \in Proc /\ c # Worker /\ proc[c] \in ProcRec
      /\ Unforced /\ Hashed /\ EvidenceIsWhole /\ WholeFor(c)
  BY WholeFacts
<1>2. \/ \E m : Goto(c, [proc[c] EXCEPT !.pc = "commit", !.off = m])
      \/ Goto(c, [proc[c] EXCEPT !.pc = "interrupt"])
  BY DEF AppendWrite, AppendWriteFails
<1>3. proc'[c].pc \in {"commit", "interrupt"} /\ \A q \in Proc : q # c => proc'[q] = proc[q]
  <2>1. CASE Goto(c, [proc[c] EXCEPT !.pc = "interrupt"])
    BY <1>1, <2>1, GotoOthers DEF ProcRec
  <2>2. ASSUME NEW m, Goto(c, [proc[c] EXCEPT !.pc = "commit", !.off = m])
        PROVE  /\ proc'[c].pc = "commit"
               /\ \A q \in Proc : q # c => proc'[q] = proc[q]
    <3>1. [proc[c] EXCEPT !.pc = "commit", !.off = m].pc = "commit"
      BY <1>1 DEF ProcRec
    <3> QED
      BY <1>1, <2>2, <3>1, GotoOthers
  <2> QED
    BY <1>2, <2>1, <2>2
<1>4. UNCHANGED <<row, job, recon, evidence, expired>> /\ file'.exists
  <2>1. PICK n : file' = Extended(proc[c].off, n)
    BY DEF AppendWrite, AppendWriteFails
  <2>2. file'.exists
    BY <2>1 DEF Extended
  <2> QED
    BY <2>2 DEF AppendWrite, AppendWriteFails
<1>5. proc[c].pc = "receive"
  BY DEF AppendWrite, AppendWriteFails
<1>6. row.status \in Closed \/ Accepted(c) \/ Accepted(Worker) =>
        file.exists /\ file'.data = Whole
  <2> SUFFICES ASSUME row.status \in Closed \/ Accepted(c) \/ Accepted(Worker)
               PROVE  file.exists /\ file'.data = Whole
    OBVIOUS
  <2>1. file.exists /\ file.data = Whole
    BY <1>1, <1>5 DEF WholeFor, WholeOrGone
  <2>2. StagedBytesArePrefix /\ proc[c].off = Size /\ Len(file.data) = Size
    BY <1>5, <2>1, WholeIsBlocks DEF PrefixInv, ReceivesAtEnd
  <2>3. PICK n \in 0 .. (Size - proc[c].off) : file' = Extended(proc[c].off, n)
    BY DEF AppendWrite, AppendWriteFails
  <2>4. n = 0 /\ Size \in Nat
    BY <2>2, <2>3, UploadAssumption
  <2>5. StagedBytesArePrefix' /\ Len(file'.data) = Size
    BY <2>2, <2>3, <2>4, ExtendedPrefix
  <2> QED
    BY <2>1, <2>5, WholeIsBlocks DEF StagedBytesArePrefix
<1>7. WholeFor(c)'
  BY <1>1, <1>3, <1>4, <1>5, <1>6 DEF WholeFor, Accepted, Promoting, WholeOrGone
<1>8. Unforced'
  <2>1. UNCHANGED used \/ Use("fault")
    BY DEF AppendWrite, AppendWriteFails
  <2>2. \A p \in Proc : proc'[p].pc # "cancel"
    BY <1>1, <1>3 DEF Unforced
  <2> QED
    BY <1>1, <1>4, <2>1, <2>2, UnforcedStep DEF Unforced, Kinds
<1> QED
  BY <1>4, <1>6, <1>7, <1>8, <1>1, WholeParts DEF Hashed, EvidenceIsWhole, Closed

LEMMA AppendEndWhole ==
  ASSUME Typed, PrefixInv, CalmClient, WholeInv, NEW c \in Client,
         AppendInterrupt(c) \/ AppendCommit(c) \/ AppendQueue(c) \/ AppendQueueFails(c)
  PROVE  WholeInv'
<1>1. /\ c \in Proc /\ Worker \in Proc /\ c # Worker /\ row \in RowRec
      /\ Unforced /\ Hashed /\ EvidenceIsWhole /\ WholeFor(c)
      /\ file.exists \/ file.data = NoData
  BY WholeFacts
<1>2. PICK next \in {Idle, [Idle EXCEPT !.pc = "queue"]} : Goto(c, next)
  BY DEF AppendInterrupt, AppendCommit, AppendQueue, AppendQueueFails
<1>3. proc'[c] = next /\ \A q \in Proc : q # c => proc'[q] = proc[q]
  BY <1>1, <1>2, GotoOthers
<1>4. next.pc \in {"idle", "queue"} /\ ~ next.first
  BY <1>2 DEF Idle
<1>5. UNCHANGED <<file, recon, evidence>> /\ ~ expired'
  BY <1>1 DEF AppendInterrupt, AppendCommit, AppendQueue, AppendQueueFails, CommitTouched,
              Unforced
<1>6. row'.sha = row.sha /\ row'.status \in {row.status, "interrupted", "uploading"}
  BY <1>1 DEF AppendInterrupt, AppendCommit, AppendQueue, AppendQueueFails, CommitTouched,
              RowRec, Column
<1>7. row'.status # row.status => file.exists \/ proc[c].pc = "receive"
  BY <1>1 DEF AppendInterrupt, AppendCommit, AppendQueue, AppendQueueFails, WholeFor
<1>8. proc[c].pc = "receive" /\ Accepted(Worker) => file.exists
  BY <1>1 DEF WholeFor
<1>9. WholeFor(c)'
  BY <1>1, <1>3, <1>4, <1>5, <1>6, <1>7, <1>8
     DEF WholeFor, Accepted, Promoting, WholeOrGone, Closed
<1>10. Unforced'
  <2>1. UNCHANGED used \/ Use("fault")
    BY DEF AppendInterrupt, AppendCommit, AppendQueue, AppendQueueFails
  <2>2. \A p \in Proc : proc'[p].pc # "cancel"
    BY <1>1, <1>3, <1>4 DEF Unforced
  <2>3. row'.status \in Uploadable \cup Closed
    BY <1>1, <1>6 DEF Unforced, Uploadable
  <2> QED
    BY <1>1, <1>5, <2>1, <2>2, <2>3, UnforcedStep DEF Kinds
<1>11. Hashed' /\ EvidenceIsWhole'
  BY <1>1, <1>5, <1>6 DEF Hashed, EvidenceIsWhole
<1> QED
  BY <1>1, <1>5, <1>9, <1>10, <1>11, WholeParts

LEMMA FinalizeReadWhole ==
  ASSUME Typed, PrefixInv, CalmClient, WholeInv, NEW c \in Client, NEW p \in {c, Worker},
         FinalizeRead(p)
  PROVE  WholeInv'
<1>1. /\ c \in Proc /\ Worker \in Proc /\ c # Worker
      /\ Unforced /\ Hashed /\ EvidenceIsWhole /\ WholeFor(c)
      /\ file.exists \/ file.data = NoData
  BY WholeFacts
<1>2. UNCHANGED <<row, file, job, recon, evidence, expired, used>>
  BY DEF FinalizeRead
<1>3. \A q \in Proc : q # p => proc'[q] = proc[q]
  BY <1>1, GotoOthers DEF FinalizeRead
<1>4. CASE proc'[p] = [Idle EXCEPT !.pc = "inspect"]
  <2>1. proc'[p].pc = "inspect" /\ ~ proc'[p].first
    BY <1>4 DEF Idle
  <2>2. row.status \in Closed \/ proc[c].pc \notin Promoting \/ p = c
    BY <1>1 DEF FinalizeRead, AtFinalize, WholeFor
  <2>3. WholeFor(c)'
    BY <1>1, <1>2, <1>3, <2>1, <2>2 DEF WholeFor, Accepted, Promoting, WholeOrGone
  <2>4. Unforced'
    BY <1>1, <1>2, <1>3, <2>1 DEF Unforced
  <2> QED
    BY <1>1, <1>2, <2>3, <2>4, WholeParts DEF Hashed, EvidenceIsWhole
<1>5. CASE /\ row.status \in Uploadable
           /\ proc'[p] = [Idle EXCEPT !.pc = "mark", !.seen = row.status, !.got = row.received,
                                       !.off = Len(file.data), !.first = TRUE]
  <2>1. proc'[p].pc = "mark" /\ proc'[p].off = Len(file.data) /\ proc'[p].first
    BY <1>5 DEF Idle
  <2>2. Len(file.data) = Size => file.exists /\ file.data = Whole
    BY <1>1, FullIsWhole
  <2>3. row.status \in Closed \/ proc[c].pc \notin Promoting \/ p = c
    BY <1>1 DEF FinalizeRead, AtFinalize, WholeFor
  <2>4. row.status \notin Closed
    BY <1>5 DEF Uploadable, Closed
  <2>5. WholeFor(c)'
    BY <1>1, <1>2, <1>3, <2>1, <2>2, <2>3, <2>4
       DEF WholeFor, Accepted, Promoting, WholeOrGone
  <2>6. Unforced'
    BY <1>1, <1>2, <1>3, <2>1 DEF Unforced
  <2> QED
    BY <1>1, <1>2, <2>5, <2>6, WholeParts DEF Hashed, EvidenceIsWhole
<1> QED
  BY <1>1, <1>4, <1>5, GotoOthers DEF FinalizeRead

LEMMA FinalizeIncompleteWhole ==
  ASSUME Typed, CalmClient, WholeInv, NEW c \in Client, NEW p \in {c, Worker},
         FinalizeIncomplete(p)
  PROVE  WholeInv'
<1>1. /\ c \in Proc /\ Worker \in Proc /\ c # Worker /\ row \in RowRec
      /\ Unforced /\ Hashed /\ EvidenceIsWhole /\ WholeFor(c)
      /\ file.exists \/ file.data = NoData
  BY WholeFacts
<1>2. /\ UNCHANGED <<file, recon, evidence, used>> /\ ~ expired'
      /\ job' = IF p = Worker THEN "none" ELSE job
  BY DEF FinalizeIncomplete, HandlerEnds
<1>3. /\ \A q \in Proc : q # p => proc'[q] = proc[q]
      /\ proc'[p].pc = "idle" /\ ~ proc'[p].first
  BY <1>1, GotoOthers, IdlePcs DEF FinalizeIncomplete, HandlerEnds
<1>4. row'.sha = row.sha /\ row'.status \in {row.status, "interrupted"}
  BY <1>1 DEF FinalizeIncomplete, RowRec, Column
<1>5. proc[p].pc = "mark" /\ ~ Accepted(p)
  BY DEF FinalizeIncomplete, SizeAccepted, Accepted
<1>6. WholeFor(c)'
  BY <1>1, <1>2, <1>3, <1>4, <1>5 DEF WholeFor, Accepted, Promoting, WholeOrGone, Closed
<1>7. Unforced'
  BY <1>1, <1>2, <1>3, <1>4 DEF Unforced, Uploadable
<1> QED
  BY <1>1, <1>2, <1>4, <1>6, <1>7, WholeParts DEF Hashed, EvidenceIsWhole

LEMMA FinalizeMarkWhole ==
  ASSUME Typed, CalmClient, WholeInv, NEW c \in Client, NEW p \in {c, Worker},
         FinalizeMark(p)
  PROVE  WholeInv'
<1>1. /\ c \in Proc /\ Worker \in Proc /\ c # Worker /\ row \in RowRec /\ proc[p] \in ProcRec
      /\ Unforced /\ Hashed /\ EvidenceIsWhole /\ WholeFor(c)
      /\ file.exists \/ file.data = NoData
  BY WholeFacts
<1>2. UNCHANGED <<file, job, recon, evidence, used>> /\ ~ expired'
  BY DEF FinalizeMark
<1>3. \A q \in Proc : q # p => proc'[q] = proc[q]
  BY <1>1, GotoOthers DEF FinalizeMark
<1>4. proc'[p].pc = "inspect" /\ proc'[p].first = proc[p].first
  <2>1. proc'[p] = [proc[p] EXCEPT !.pc = "inspect"]
    BY <1>1, GotoOthers DEF FinalizeMark
  <2> QED
    BY <1>1, <2>1 DEF ProcRec
<1>5. row'.sha = row.sha /\ row'.status = "preflight_running"
  BY <1>1 DEF FinalizeMark, RowRec
<1>6. proc[p].pc = "mark" /\ proc[p].off = Size /\ (proc[p].first => Accepted(p))
  BY DEF FinalizeMark, SizeAccepted, Accepted
<1>7. WholeFor(c)'
  BY <1>1, <1>2, <1>3, <1>4, <1>5, <1>6 DEF WholeFor, Accepted, Promoting, WholeOrGone, Closed
<1>8. Unforced'
  BY <1>1, <1>2, <1>3, <1>4, <1>5 DEF Unforced, Closed
<1> QED
  BY <1>1, <1>2, <1>5, <1>7, <1>8, WholeParts DEF Hashed, EvidenceIsWhole

LEMMA FinalizeInspectWhole ==
  ASSUME Typed, CalmClient, WholeInv, NEW c \in Client, NEW p \in {c, Worker},
         FinalizeInspect(p) \/ FinalizeMissing(p) \/ FinalizeFails(p)
  PROVE  WholeInv'
<1>1. /\ c \in Proc /\ Worker \in Proc /\ c # Worker /\ row \in RowRec /\ proc[p] \in ProcRec
      /\ Unforced /\ Hashed /\ EvidenceIsWhole /\ WholeFor(c)
      /\ file.exists \/ file.data = NoData
  BY WholeFacts
<1>2. UNCHANGED <<file, recon, evidence, expired>>
  BY DEF FinalizeInspect, FinalizeMissing, FinalizeFails, InspectionFailed
<1>3. \A q \in Proc : q # p => proc'[q] = proc[q]
  BY <1>1, GotoOthers
     DEF FinalizeInspect, FinalizeMissing, FinalizeFails, InspectionFailed, HandlerEnds
<1>4. /\ proc'[p].pc = "stage" => proc'[p].first = proc[p].first /\ file.exists
      /\ \/ proc'[p].pc = "idle" /\ ~ proc'[p].first /\ job' \in {job, "none"}
         \/ proc'[p].pc = "stage" /\ job' = job
  <2>1. CASE FinalizeInspect(p)
    <3>1. proc'[p] = [proc[p] EXCEPT !.pc = "stage"]
      BY <1>1, <2>1, GotoOthers DEF FinalizeInspect
    <3> QED
      BY <1>1, <2>1, <3>1 DEF ProcRec, FinalizeInspect
  <2>2. CASE FinalizeMissing(p) \/ FinalizeFails(p)
    BY <1>1, <2>2, GotoOthers, IdlePcs
       DEF FinalizeMissing, FinalizeFails, InspectionFailed, HandlerEnds
  <2> QED
    BY <2>1, <2>2
<1>5. row'.status = row.status /\ row'.sha = IF proc[p].first THEN file.data ELSE row.sha
  BY <1>1 DEF FinalizeInspect, FinalizeMissing, FinalizeFails, InspectionFailed, RowRec
<1>6. proc[p].pc = "inspect" /\ (proc[p].first => Accepted(p))
  BY DEF FinalizeInspect, FinalizeMissing, FinalizeFails, InspectionFailed, Accepted
<1>7. WholeFor(c)'
  BY <1>1, <1>2, <1>3, <1>4, <1>5, <1>6 DEF WholeFor, Accepted, Promoting, WholeOrGone
<1>8. Unforced'
  <2>1. UNCHANGED used \/ Use("fault")
    BY DEF FinalizeInspect, FinalizeMissing, FinalizeFails
  <2>2. \A q \in Proc : proc'[q].pc # "cancel"
    BY <1>1, <1>3, <1>4 DEF Unforced
  <2> QED
    BY <1>1, <1>2, <1>5, <2>1, <2>2, UnforcedStep DEF Unforced, Kinds
<1>9. Hashed'
  BY <1>1, <1>2, <1>5, <1>6 DEF Hashed, WholeFor, WholeOrGone
<1> QED
  BY <1>1, <1>2, <1>7, <1>8, <1>9, WholeParts DEF EvidenceIsWhole

LEMMA FinalizeStageWhole ==
  ASSUME Typed, CalmClient, WholeInv, NEW c \in Client, NEW p \in {c, Worker},
         FinalizeStage(p)
  PROVE  WholeInv'
<1>1. /\ c \in Proc /\ Worker \in Proc /\ c # Worker /\ row \in RowRec
      /\ Unforced /\ Hashed /\ EvidenceIsWhole /\ WholeFor(c)
      /\ file.exists \/ file.data = NoData
  BY WholeFacts
<1>2. /\ UNCHANGED <<file, recon, evidence, used>> /\ ~ expired'
      /\ job' = IF p = Worker THEN "none" ELSE job
  BY DEF FinalizeStage, HandlerEnds
<1>3. /\ \A q \in Proc : q # p => proc'[q] = proc[q]
      /\ proc'[p].pc = "idle" /\ ~ proc'[p].first
  BY <1>1, GotoOthers, IdlePcs DEF FinalizeStage, HandlerEnds
<1>4. row'.sha = row.sha /\ row'.status = IF proc[p].first THEN "staged" ELSE row.status
  BY <1>1 DEF FinalizeStage, RowRec
<1>5. proc[p].pc = "stage" /\ (proc[p].first => Accepted(p))
  BY DEF FinalizeStage, Accepted
<1>6. WholeFor(c)'
  BY <1>1, <1>2, <1>3, <1>4, <1>5 DEF WholeFor, Accepted, Promoting, WholeOrGone, Closed
<1>7. Unforced'
  BY <1>1, <1>2, <1>3, <1>4 DEF Unforced, Closed
<1>8. Hashed'
  BY <1>1, <1>2, <1>4, <1>5 DEF Hashed, WholeFor
<1> QED
  BY <1>1, <1>2, <1>6, <1>7, <1>8, WholeParts DEF EvidenceIsWhole

LEMMA WorkerWhole ==
  ASSUME Typed, CalmClient, WholeInv, NEW c \in Client, WorkerTake \/ WorkerStepsAside
  PROVE  WholeInv'
<1>1. /\ c \in Proc /\ Worker \in Proc /\ c # Worker
      /\ Unforced /\ Hashed /\ EvidenceIsWhole /\ WholeFor(c)
      /\ file.exists \/ file.data = NoData
  BY WholeFacts
<1>2. UNCHANGED <<row, file, recon, evidence, expired, used>>
  BY DEF WorkerTake, WorkerStepsAside
<1>3. \A q \in Proc : q # Worker => proc'[q] = proc[q]
  BY <1>1, GotoOthers DEF WorkerTake, WorkerStepsAside, HandlerEnds
<1>4. /\ proc'[Worker] = proc[Worker] \/ proc'[Worker].pc \in {"idle", "lock"}
      /\ proc'[Worker].pc = "lock" /\ proc'[Worker] # proc[Worker] => job = "queued"
      /\ job = "queued" /\ row.status \notin Closed => proc[c].pc \notin Promoting
  <2>1. CASE WorkerTake
    <3>1. \/ proc'[Worker] = proc[Worker]
          \/ proc'[Worker] = [Idle EXCEPT !.pc = "lock"]
      BY <1>1, <2>1, GotoOthers DEF WorkerTake
    <3> QED
      BY <1>1, <2>1, <3>1 DEF WorkerTake, Idle, WholeFor
  <2>2. CASE WorkerStepsAside
    BY <1>1, <2>2, GotoOthers, IdlePcs DEF WorkerStepsAside, HandlerEnds, WholeFor
  <2> QED
    BY <2>1, <2>2
<1>5. job' # "queued"
  BY DEF WorkerTake, WorkerStepsAside, HandlerEnds
<1>6. WholeFor(c)'
  BY <1>1, <1>2, <1>3, <1>4, <1>5 DEF WholeFor, Accepted, Promoting, WholeOrGone
<1>7. Unforced'
  BY <1>1, <1>2, <1>3, <1>4 DEF Unforced
<1> QED
  BY <1>1, <1>2, <1>6, <1>7, WholeParts DEF Hashed, EvidenceIsWhole

LEMMA PromoteBeginWhole ==
  ASSUME Typed, CalmClient, WholeInv, NEW c \in Client, PromoteBegin(c)
  PROVE  WholeInv'
<1>1. /\ c \in Proc /\ Worker \in Proc /\ c # Worker
      /\ Unforced /\ Hashed /\ EvidenceIsWhole /\ WholeFor(c)
      /\ file.exists \/ file.data = NoData
  BY WholeFacts
<1>2. UNCHANGED <<row, file, job, recon, evidence, expired, used>>
  BY DEF PromoteBegin
<1>3. \A q \in Proc : q # c => proc'[q] = proc[q]
  BY <1>1, GotoOthers DEF PromoteBegin
<1>4. proc'[c].pc = "open"
  <2>1. proc'[c] = [Idle EXCEPT !.pc = "open"]
    BY <1>1, GotoOthers DEF PromoteBegin
  <2> QED
    BY <2>1 DEF Idle
<1>5. row.status = "staged"
  BY DEF PromoteBegin
<1>6. WholeFor(c)'
  BY <1>1, <1>2, <1>3, <1>4, <1>5
     DEF WholeFor, Accepted, Promoting, WholeOrGone, Closed, Hashed
<1>7. Unforced'
  BY <1>1, <1>2, <1>3, <1>4 DEF Unforced
<1> QED
  BY <1>1, <1>2, <1>6, <1>7, WholeParts DEF Hashed, EvidenceIsWhole

LEMMA PromoteOpenWhole ==
  ASSUME Typed, CalmClient, WholeInv, NEW c \in Client, PromoteOpen(c)
  PROVE  WholeInv'
<1>1. /\ c \in Proc /\ Worker \in Proc /\ c # Worker /\ proc[c] \in ProcRec
      /\ Unforced /\ Hashed /\ EvidenceIsWhole /\ WholeFor(c)
      /\ file.exists \/ file.data = NoData
  BY WholeFacts
<1>2. UNCHANGED <<row, file, job, recon, evidence, expired, used>> /\ proc[c].pc = "open"
  BY DEF PromoteOpen
<1>3. \A q \in Proc : q # c => proc'[q] = proc[q]
  BY <1>1, GotoOthers DEF PromoteOpen
<1>4. \/ proc'[c].pc = "idle"
      \/ /\ file.exists
         /\ proc'[c].pc = "save" /\ proc'[c].data = file.data /\ proc'[c].sha = row.sha
  <2>1. CASE file.exists
    <3>1. proc'[c] = [proc[c] EXCEPT !.pc = "save", !.data = file.data, !.sha = row.sha]
      BY <1>1, <2>1, GotoOthers DEF PromoteOpen
    <3> QED
      BY <1>1, <2>1, <3>1 DEF ProcRec
  <2>2. CASE ~ file.exists
    BY <1>1, <2>2, GotoOthers, IdlePcs DEF PromoteOpen
  <2> QED
    BY <2>1, <2>2
<1>5. WholeFor(c)'
  BY <1>1, <1>2, <1>3, <1>4 DEF WholeFor, Accepted, Promoting, WholeOrGone
<1>6. Unforced'
  BY <1>1, <1>2, <1>3, <1>4 DEF Unforced
<1> QED
  BY <1>1, <1>2, <1>5, <1>6, WholeParts DEF Hashed, EvidenceIsWhole

\* The move takes the file away: whoever still inspects it, the status is closed.
LEMMA PromoteSaveWhole ==
  ASSUME Typed, CalmClient, WholeInv, NEW c \in Client, PromoteSave(c)
  PROVE  WholeInv'
<1> DEFINE move   == file.exists /\ proc[c].sha # NoData
           stored == IF move THEN file.data ELSE proc[c].data
           sha    == IF move THEN proc[c].sha ELSE proc[c].data
<1>1. /\ c \in Proc /\ Worker \in Proc /\ c # Worker /\ proc[c] \in ProcRec
      /\ Unforced /\ Hashed /\ EvidenceIsWhole /\ WholeFor(c)
      /\ file.exists \/ file.data = NoData
  BY WholeFacts
<1>2. UNCHANGED <<row, job, recon, evidence, expired, used>> /\ proc[c].pc = "save"
  BY DEF PromoteSave
<1>3. file' = NoFile \/ file' = file
  BY DEF PromoteSave
<1>4. stored = Whole /\ sha = Whole
  BY <1>1, <1>2 DEF WholeFor, Promoting, WholeOrGone
<1>5. \/ proc'[c] = Idle
      \/ proc'[c] = [proc[c] EXCEPT !.pc = "register", !.data = stored, !.sha = sha]
  BY <1>1, GotoOthers DEF PromoteSave
<1> HIDE DEF move, stored, sha
<1>6. \/ proc'[c].pc = "idle"
      \/ proc'[c].pc = "register" /\ proc'[c].data = Whole /\ proc'[c].sha = Whole
  BY <1>1, <1>4, <1>5, IdlePcs DEF ProcRec
<1>7. \A q \in Proc : q # c => proc'[q] = proc[q]
  BY <1>1, GotoOthers DEF PromoteSave
<1>8. Accepted(Worker) => row.status \in Closed
  BY <1>1, <1>2 DEF WholeFor, Accepted, Promoting
<1>9. file'.exists => file' = file
  BY <1>3 DEF NoFile
<1>10. WholeFor(c)'
  BY <1>1, <1>2, <1>6, <1>7, <1>8, <1>9 DEF WholeFor, Accepted, Promoting, WholeOrGone
<1>11. Unforced'
  BY <1>1, <1>2, <1>6, <1>7 DEF Unforced
<1>12. Hashed' /\ (file'.exists \/ file'.data = NoData)
  BY <1>1, <1>2, <1>3 DEF Hashed, NoFile
<1> QED
  BY <1>1, <1>2, <1>10, <1>11, <1>12, WholeParts DEF EvidenceIsWhole

LEMMA PromoteRegisterWhole ==
  ASSUME Typed, CalmClient, WholeInv, NEW c \in Client,
         PromoteRegister(c) \/ PromoteRegisterFails(c)
  PROVE  WholeInv'
<1>1. /\ c \in Proc /\ Worker \in Proc /\ c # Worker
      /\ Unforced /\ Hashed /\ EvidenceIsWhole /\ WholeFor(c)
      /\ file.exists \/ file.data = NoData
  BY WholeFacts
<1>2. UNCHANGED <<row, file, job, recon, expired>> /\ proc[c].pc = "register"
  BY DEF PromoteRegister, PromoteRegisterFails
<1>3. \A q \in Proc : q # c => proc'[q] = proc[q]
  BY <1>1, GotoOthers DEF PromoteRegister, PromoteRegisterFails
<1>4. proc'[c].pc \in {"finish", "idle"} /\ ~ proc'[c].first
  <2>1. proc'[c] = Idle \/ proc'[c] = [Idle EXCEPT !.pc = "finish"]
    BY <1>1, GotoOthers DEF PromoteRegister, PromoteRegisterFails
  <2> QED
    BY <2>1 DEF Idle
<1>5. proc[c].data = Whole /\ proc[c].sha = Whole
  BY <1>1, <1>2 DEF WholeFor, Promoting
<1>6. EvidenceIsWhole'
  <2>1. CASE PromoteRegisterFails(c)
    BY <1>1, <2>1 DEF PromoteRegisterFails, EvidenceIsWhole
  <2>2. CASE PromoteRegister(c)
    <3> DEFINE e == [data |-> Whole, sha |-> Whole]
    <3>1. evidence' = Append(evidence, e)
      BY <1>5, <2>2 DEF PromoteRegister
    <3>2. /\ evidence \in Seq([data : Seq(Nat), sha : Seq(Nat)])
          /\ e \in [data : Seq(Nat), sha : Seq(Nat)]
      BY WholeType DEF Typed
    <3>3. \A i \in 1 .. Len(evidence) : evidence[i] = e
      BY <1>1 DEF EvidenceIsWhole
    <3> HIDE DEF e
    <3>4. \A i \in 1 .. Len(evidence') : evidence'[i] = e
      BY <3>1, <3>2, <3>3
    <3> QED
      BY <3>4 DEF EvidenceIsWhole, e
  <2> QED
    BY <2>1, <2>2
<1>7. WholeFor(c)'
  BY <1>1, <1>2, <1>3, <1>4 DEF WholeFor, Accepted, Promoting, WholeOrGone
<1>8. Unforced'
  <2>1. UNCHANGED used \/ Use("fault")
    BY DEF PromoteRegister, PromoteRegisterFails
  <2>2. \A p \in Proc : proc'[p].pc # "cancel"
    BY <1>1, <1>3, <1>4 DEF Unforced
  <2> QED
    BY <1>1, <1>2, <2>1, <2>2, UnforcedStep DEF Unforced, Kinds
<1> QED
  BY <1>1, <1>2, <1>6, <1>7, <1>8, WholeParts DEF Hashed

LEMMA PromoteFinishWhole ==
  ASSUME Typed, CalmClient, WholeInv, NEW c \in Client, PromoteFinish(c)
  PROVE  WholeInv'
<1>1. /\ c \in Proc /\ Worker \in Proc /\ c # Worker /\ row \in RowRec
      /\ Unforced /\ Hashed /\ EvidenceIsWhole /\ WholeFor(c)
      /\ file.exists \/ file.data = NoData
  BY WholeFacts
<1>2. UNCHANGED <<file, job, recon, evidence, expired, used>> /\ proc[c].pc = "finish"
  BY DEF PromoteFinish
<1>3. \A q \in Proc : q # c => proc'[q] = proc[q]
  BY <1>1, GotoOthers DEF PromoteFinish
<1>4. proc'[c].pc = "announce" /\ ~ proc'[c].first
  <2>1. proc'[c] = [Idle EXCEPT !.pc = "announce"]
    BY <1>1, GotoOthers DEF PromoteFinish
  <2> QED
    BY <2>1 DEF Idle
<1>5. row'.status = "promoted" /\ row'.sha = row.sha
  BY <1>1 DEF PromoteFinish, RowRec
<1>6. WholeFor(c)'
  BY <1>1, <1>2, <1>3, <1>4, <1>5 DEF WholeFor, Accepted, Promoting, WholeOrGone, Closed
<1>7. Unforced'
  BY <1>1, <1>2, <1>3, <1>4, <1>5 DEF Unforced, Closed
<1> QED
  BY <1>1, <1>2, <1>5, <1>6, <1>7, WholeParts DEF Hashed, EvidenceIsWhole

LEMMA PromoteAnnounceWhole ==
  ASSUME Typed, CalmClient, WholeInv, NEW c \in Client, PromoteAnnounce(c)
  PROVE  WholeInv'
<1>1. /\ c \in Proc /\ Worker \in Proc /\ c # Worker /\ proc[Worker] \in ProcRec
      /\ Unforced /\ Hashed /\ EvidenceIsWhole /\ WholeFor(c)
      /\ \A q \in Proc : q = c \/ q = Worker
  BY WholeFacts DEF Proc
<1>2. /\ UNCHANGED <<row, job, recon, evidence, expired, used>> /\ proc[c].pc = "announce"
      /\ ~ file'.exists /\ file'.data = NoData
  BY DEF PromoteAnnounce, Cleanup, NoFile
<1>3. proc'[c].pc = "idle" /\ ~ proc'[c].first
  <2>1. [proc EXCEPT ![c] = Idle] \in [Proc -> ProcRec] /\ [proc EXCEPT ![c] = Idle][c] = Idle
    BY <1>1, IdleType DEF Typed
  <2> QED
    BY <1>1, <2>1, InterruptedPc, IdlePcs DEF PromoteAnnounce
<1>4. \/ proc'[Worker] = proc[Worker]
      \/ proc[Worker].pc = "receive" /\ proc'[Worker].pc = "interrupt"
  <2>1. /\ [proc EXCEPT ![c] = Idle] \in [Proc -> ProcRec]
        /\ [proc EXCEPT ![c] = Idle][Worker] = proc[Worker]
    BY <1>1, IdleType DEF Typed
  <2>2. \/ proc'[Worker] = proc[Worker]
        \/ /\ proc[Worker].pc = "receive"
           /\ proc'[Worker] = [proc[Worker] EXCEPT !.pc = "interrupt"]
    BY <1>1, <2>1, InterruptedPc DEF PromoteAnnounce
  <2> QED
    BY <1>1, <2>2 DEF ProcRec
<1>5. Accepted(Worker) => row.status \in Closed
  BY <1>1, <1>2 DEF WholeFor, Accepted, Promoting
<1>6. WholeFor(c)'
  BY <1>1, <1>2, <1>3, <1>4, <1>5 DEF WholeFor, Accepted, Promoting, WholeOrGone
<1>7. Unforced'
  BY <1>1, <1>2, <1>3, <1>4 DEF Unforced
<1> QED
  BY <1>1, <1>2, <1>6, <1>7, WholeParts DEF Hashed, EvidenceIsWhole

LEMMA CrashWhole ==
  ASSUME Typed, CalmClient, WholeInv, NEW c \in Client, BackendCrash \/ WorkerCrash
  PROVE  WholeInv'
<1>1. /\ c \in Proc /\ Worker \in Proc /\ c # Worker
      /\ Unforced /\ Hashed /\ EvidenceIsWhole /\ WholeFor(c)
      /\ file.exists \/ file.data = NoData
      /\ \A q \in Proc : q = c \/ q = Worker
  BY WholeFacts DEF Proc
<1>2. UNCHANGED <<row, file, evidence, expired>> /\ recon' = "idle" /\ job' \in {job, "lost"}
  BY <1>1 DEF BackendCrash, WorkerCrash, Unforced
<1>3. \A q \in Proc : proc'[q] = proc[q] \/ (proc'[q].pc = "idle" /\ ~ proc'[q].first)
  BY <1>1, GotoOthers, IdlePcs DEF BackendCrash, WorkerCrash
<1>4. WholeFor(c)'
  BY <1>1, <1>2, <1>3 DEF WholeFor, Accepted, Promoting, WholeOrGone
<1>5. Unforced'
  <2>1. Use("crash") /\ UNCHANGED recon
    BY <1>1, <1>2 DEF BackendCrash, WorkerCrash, Unforced
  <2>2. \A p \in Proc : proc'[p].pc # "cancel"
    BY <1>1, <1>3 DEF Unforced
  <2> QED
    BY <1>1, <1>2, <2>1, <2>2, UnforcedStep DEF Unforced, Kinds
<1> QED
  BY <1>1, <1>2, <1>4, <1>5, WholeParts DEF Hashed, EvidenceIsWhole

LEMMA OtherWhole ==
  ASSUME Typed, CalmClient, WholeInv, NEW c \in Client,
         Retry(c) \/ ReconcileSync \/ RqCleanup \/ UNCHANGED vars
           \/ \E l \in Locks : LockExpires(l) \/ LockOverruns(l)
  PROVE  WholeInv'
<1>1. /\ Unforced /\ Hashed /\ EvidenceIsWhole /\ WholeFor(c)
      /\ file.exists \/ file.data = NoData
  BY WholeFacts
<1>2. UNCHANGED <<row, file, proc, recon, evidence, expired>>
  BY DEF Retry, ReconcileSync, RqCleanup, vars, LockExpires, LockOverruns
<1>3. job' # "queued" \/ job' = job \/ proc[c].pc = "idle"
  BY DEF Retry, ReconcileSync, RqCleanup, vars, LockExpires, LockOverruns
<1>4. WholeFor(c)'
  BY <1>1, <1>2, <1>3 DEF WholeFor, Accepted, Promoting, WholeOrGone
<1>5. Unforced'
  <2>1. UNCHANGED used \/ Use("retry") \/ Use("overrun")
    BY DEF Retry, ReconcileSync, RqCleanup, vars, LockExpires, LockOverruns
  <2> QED
    BY <1>1, <1>2, <2>1, UnforcedStep DEF Unforced, Kinds
<1> QED
  BY <1>1, <1>2, <1>4, <1>5, WholeParts DEF Hashed, EvidenceIsWhole

\* Cancellations and the expiry sweep do not happen.
LEMMA NotForced ==
  ASSUME Typed, CalmClient, WholeInv
  PROVE  /\ \A c \in Client : ~ CancelCleanup(c) /\ ~ CancelCommit(c)
         /\ ~ Expire /\ ~ Reconcile
<1>1. Unforced /\ Client \subseteq Proc
  BY ClientProc DEF WholeInv
<1>2. \A c \in Client : ~ CancelCleanup(c) /\ ~ CancelCommit(c)
  BY <1>1, NoBoundedEvent DEF CancelCleanup, CancelCommit, Unforced
<1>3. ~ Expire /\ ~ Reconcile
  BY <1>1, NoBoundedEvent DEF Expire, Reconcile, ReconcileRead, ReconcileCleanup,
     ReconcileCommit, ExpirableNow, Unforced
<1> QED
  BY <1>2, <1>3

LEMMA WholeNext ==
  CalmClient /\ Typed /\ PrefixInv /\ WholeInv /\ [Next]_vars => WholeInv'
<1> SUFFICES ASSUME CalmClient, Typed, PrefixInv, WholeInv, [Next]_vars PROVE WholeInv'
  OBVIOUS
<1>0. PICK c : Client = {c}
  BY DEF CalmClient, OneClient
<1>1. ASSUME NEW p \in {c, Worker}, FinalizeRead(p) \/ FinalizeStep(p) \/ FinalizeFails(p)
      PROVE  WholeInv'
  BY <1>0, <1>1, FinalizeReadWhole, FinalizeIncompleteWhole, FinalizeMarkWhole,
     FinalizeInspectWhole, FinalizeStageWhole DEF FinalizeStep
<1>2. CASE RequestBegin(c)
  BY <1>0, <1>1, <1>2, AppendBeginWhole, PromoteBeginWhole, NotForced, OtherWhole
     DEF RequestBegin
<1>3. CASE RequestStep(c)
  BY <1>0, <1>1, <1>3, AppendWriteWhole, AppendEndWhole, PromoteOpenWhole, PromoteSaveWhole,
     PromoteRegisterWhole, PromoteFinishWhole, PromoteAnnounceWhole, NotForced DEF RequestStep
<1>4. CASE RequestError(c)
  BY <1>0, <1>1, <1>4, AppendWriteWhole, AppendEndWhole, PromoteRegisterWhole DEF RequestError
<1>5. CASE WorkerStep \/ FinalizeFails(Worker)
  BY <1>0, <1>1, <1>5, WorkerWhole DEF WorkerStep
<1>6. CASE Reconcile \/ ReconcileSync \/ Expire \/ RqCleanup \/ UNCHANGED vars
  BY <1>0, <1>6, NotForced, OtherWhole
<1>7. CASE (\E l \in Locks : LockExpires(l) \/ LockOverruns(l)) \/ BackendCrash \/ WorkerCrash
  BY <1>0, <1>7, OtherWhole, CrashWhole
<1> QED
  BY <1>0, <1>2, <1>3, <1>4, <1>5, <1>6, <1>7 DEF Next, Locks

\* What promote registers is the client's whole file under its own hash, for a
\* client that sends one request at a time and a session that is neither
\* cancelled nor expires, whatever disk, preflight, registration and queue errors,
\* crashes, retries and lock overruns come between, with the worker finalizing at
\* any moment.
THEOREM RegisteredEvidenceIsWhole ==
  OneClient /\ MaxCancels = 0 /\ MaxExpiries = 0 => (Spec => []EvidenceIsWhole)
<1> SUFFICES ASSUME CalmClient PROVE Spec => []EvidenceIsWhole
  BY DEF CalmClient
<1>1. Init => Typed /\ PrefixInv /\ WholeInv
  BY TypeInit, PrefixInit, WholeInit
<1>2. Typed /\ PrefixInv /\ WholeInv /\ [Next]_vars => (Typed /\ PrefixInv /\ WholeInv)'
  BY TypeNext, PrefixNext, WholeNext DEF CalmClient
<1>3. WholeInv => EvidenceIsWhole
  BY DEF WholeInv
<1> QED
  BY <1>1, <1>2, <1>3, PTL DEF Spec

-----------------------------------------------------------------------------
(* ConfirmedOffsetIsUsable.  Without errors only an append that ends at    *)
(* the full size queues the background preflight, so the worker never      *)
(* meets a session whose received bytes are still changing, unless the     *)
(* client is cancelling it; an append that begins meanwhile is empty.      *)

\* One client, no errors and no crashes, hence no retry either.
SmoothClient == OneClient /\ MaxFaults = 0 /\ MaxCrashes = 0 /\ MaxRetries = 0

\* The background preflight is queued or under way.
Working == proc[Worker].pc # "idle" \/ job = "queued"

OffsetFor(c) ==
  /\ Working /\ row.status \in Uploadable =>
       row.received = Size /\ (Len(file.data) = Size \/ proc[c].pc = "cancel")
  /\ Working => (proc[c].pc \in {"receive", "commit", "mark"} => proc[c].off = Size)
  /\ proc[Worker].pc = "mark" =>
       /\ proc[Worker].got = Size
       /\ proc[Worker].off # Size =>
            /\ proc[Worker].off = 0 /\ Len(file.data) = 0
            /\ row.status = "cancelled" \/ proc[c].pc = "cancel"
  /\ proc[c].pc \notin {"idle", "cancel"} => row.status # "cancelled"
  /\ proc[c].pc # "interrupt"
  /\ proc[c].pc = "cancel" => Len(file.data) = 0
  /\ proc[c].pc = "receive" => proc[c].off = Len(file.data) /\ row.received = proc[c].off
  /\ proc[c].pc \in {"receive", "commit"} => proc[c].got = row.received
  /\ proc[c].pc = "commit" => proc[c].off = Len(file.data) /\ proc[c].off <= Size
  /\ proc[c].pc = "queue" => row.received = Size /\ Len(file.data) = Size
  /\ proc[c].pc = "mark" /\ proc[c].off # Size =>
       /\ proc[c].off = row.received /\ proc[c].got = row.received
       /\ row.received = Len(file.data)
  /\ proc[c].pc \in Promoting => row.status \in Closed
  /\ row.status \in Uploadable /\ ~ Working /\ proc[c].pc \notin {"commit", "cancel"} =>
       row.received = Len(file.data)

Current == ~ expired /\ recon = "idle"

OffsetInv == used["expiry"] = 0 => Current /\ \A c \in Client : OffsetFor(c)

LEMMA OffsetInit == OneClient /\ Init => OffsetInv
<1> SUFFICES ASSUME OneClient, Init PROVE OffsetInv
  OBVIOUS
<1>1. \A p \in Proc : proc[p].pc = "idle"
  BY IdlePcs DEF Init
<1>2. row.status \in Uploadable => row.received = 0 /\ Len(file.data) = 0
  BY DEF Init, NoFile, NoData, Uploadable
<1>3. ~ Working
  BY <1>1, ClientProc DEF Init, Working
<1>4. \A c \in Client : OffsetFor(c)
  BY <1>1, <1>2, <1>3, ClientProc DEF OffsetFor, Promoting
<1> QED
  BY <1>4 DEF Init, OffsetInv, Current

\* What the inductive step may use; ExpiryStays lets it assume that the session
\* has not expired before the step either.
LEMMA ExpiryStays ==
  ASSUME Typed, [Next]_vars, used'["expiry"] = 0
  PROVE  used["expiry"] = 0
<1>1. UNCHANGED used \/ \E k \in Kinds : Use(k)
  BY DEF Next, vars, RequestBegin, RequestStep, RequestError, WorkerStep, FinalizeStep,
     AppendBegin, AppendWrite, AppendWriteFails, AppendInterrupt, AppendCommit, AppendQueue,
     AppendQueueFails, FinalizeRead, FinalizeIncomplete, FinalizeMark, FinalizeInspect,
     FinalizeMissing, FinalizeFails, FinalizeStage, WorkerTake, WorkerStepsAside,
     PromoteBegin, PromoteOpen, PromoteSave, PromoteRegister, PromoteRegisterFails,
     PromoteFinish, PromoteAnnounce, CancelCleanup, CancelCommit, Retry, Reconcile,
     ReconcileSync, ReconcileRead, ReconcileCleanup, ReconcileCommit, Expire, LockExpires,
     LockOverruns, BackendCrash, WorkerCrash, RqCleanup, Kinds
<1>2. ASSUME NEW k \in Kinds, Use(k) PROVE used["expiry"] = 0
  BY <1>2 DEF Use, Typed, Kinds
<1> QED
  BY <1>1, <1>2

LEMMA NoError ==
  ASSUME Typed, SmoothClient
  PROVE  ~ Use("fault") /\ ~ Use("crash") /\ ~ Use("retry")
  BY DEF Use, SmoothClient, Bounds, Typed, Kinds

LEMMA OffsetFacts ==
  ASSUME Typed, SmoothClient, NEW c \in Client
  PROVE  /\ c \in Proc /\ Worker \in Proc /\ c # Worker /\ \A d \in Client : d = c
         /\ proc[c] \in ProcRec /\ proc[Worker] \in ProcRec /\ row \in RowRec
         /\ Len(file.data) \in Nat /\ Size \in Nat \ {0}
         /\ proc[c].off \in Nat /\ row.received \in Nat
  BY ClientProc, UploadAssumption, ProcFields, FileLen, RowUpdates
     DEF SmoothClient, OneClient, Typed

LEMMA AppendBeginOffset ==
  ASSUME Typed, SmoothClient, NEW c \in Client, OffsetFor(c), AppendBegin(c)
  PROVE  OffsetFor(c)'
<1>1. /\ c \in Proc /\ Worker \in Proc /\ c # Worker /\ Size \in Nat
      /\ Len(file.data) \in Nat /\ row.received \in Nat
  BY OffsetFacts
<1>2. UNCHANGED <<row, file, job>> /\ proc[c].pc = "idle"
  BY DEF AppendBegin
<1>3. /\ row.status \in Uploadable /\ row.status # "cancelled"
      /\ row.received = Len(file.data)
  BY DEF AppendBegin, Uploadable, OffsetMatches
<1>4. /\ proc'[c].pc = "receive" /\ proc'[c].off = row.received
      /\ proc'[c].got = row.received
  <2>1. proc'[c] = [Idle EXCEPT !.pc = "receive", !.seen = row.status, !.got = row.received,
                                !.off = row.received]
    BY <1>1, GotoOthers DEF AppendBegin
  <2> QED
    BY <2>1 DEF Idle
<1>5. proc'[Worker] = proc[Worker]
  BY <1>1, GotoOthers DEF AppendBegin
<1>6. Working => row.received = Size
  BY <1>3 DEF OffsetFor
<1> QED
  BY <1>1, <1>2, <1>3, <1>4, <1>5, <1>6 DEF OffsetFor, Working, Promoting

LEMMA AppendWriteOffset ==
  ASSUME Typed, PrefixInv, SmoothClient, NEW c \in Client, OffsetFor(c), AppendWrite(c)
  PROVE  OffsetFor(c)'
<1>1. /\ c \in Proc /\ Worker \in Proc /\ c # Worker /\ Size \in Nat
      /\ proc[c] \in ProcRec /\ proc[c].off \in Nat
  BY OffsetFacts
<1>2. UNCHANGED <<row, job>> /\ proc[c].pc = "receive"
  BY DEF AppendWrite
<1>3. PICK n \in 0 .. (Size - proc[c].off) :
        /\ file' = Extended(proc[c].off, n)
        /\ Goto(c, [proc[c] EXCEPT !.pc = "commit", !.off = @ + n])
  BY DEF AppendWrite
<1>4. Len(file'.data) = proc[c].off + n /\ proc[c].off + n <= Size
  BY <1>1, <1>2, <1>3, ExtendedPrefix DEF PrefixInv, OffsetFor
<1>5. /\ proc'[c].pc = "commit" /\ proc'[c].off = proc[c].off + n
      /\ proc'[c].got = proc[c].got
  <2>1. proc'[c] = [proc[c] EXCEPT !.pc = "commit", !.off = @ + n]
    BY <1>1, <1>3, GotoOthers
  <2> QED
    BY <1>1, <2>1 DEF ProcRec
<1>6. proc'[Worker] = proc[Worker]
  BY <1>1, <1>3, GotoOthers
<1>7. row.status # "cancelled" /\ (Working => proc[c].off = Size /\ proc[c].off + n = Size)
  BY <1>1, <1>2, <1>3 DEF OffsetFor
<1> QED
  BY <1>1, <1>2, <1>4, <1>5, <1>6, <1>7 DEF OffsetFor, Working, Promoting

LEMMA AppendEndOffset ==
  ASSUME Typed, SmoothClient, NEW c \in Client, OffsetFor(c),
         AppendInterrupt(c) \/ AppendCommit(c)
  PROVE  OffsetFor(c)'
<1>1. /\ c \in Proc /\ Worker \in Proc /\ c # Worker /\ Size \in Nat /\ row \in RowRec
      /\ proc[c].off \in Nat /\ Len(file.data) \in Nat
  BY OffsetFacts
<1>2. UNCHANGED <<file, job>> /\ proc[c].pc \in {"receive", "commit"}
  BY DEF AppendInterrupt, AppendCommit, OffsetFor
<1>3. row.status # "cancelled" /\ (Working => Len(file.data) = Size)
  BY <1>2 DEF OffsetFor
<1>4. proc'[Worker] = proc[Worker]
  BY <1>1, GotoOthers DEF AppendInterrupt, AppendCommit
<1>5. row'.received = Len(file.data) /\ row'.status # "cancelled"
  <2>1. CASE AppendInterrupt(c)
    BY <1>1, <1>3, <2>1 DEF AppendInterrupt, CommitTouched, RowRec, Column, OffsetFor
  <2>2. CASE AppendCommit(c)
    BY <1>1, <1>3, <2>2 DEF AppendCommit, CommitTouched, RowRec, Column, OffsetFor
  <2> QED
    BY <2>1, <2>2
<1>6. \/ proc'[c].pc = "idle"
      \/ proc'[c].pc = "queue" /\ Len(file.data) = Size
  <2>1. CASE AppendInterrupt(c)
    BY <1>1, <2>1, GotoOthers, IdlePcs DEF AppendInterrupt
  <2>2. CASE AppendCommit(c) /\ proc[c].off >= Size
    <3>1. proc'[c] = [Idle EXCEPT !.pc = "queue"]
      BY <1>1, <2>2, GotoOthers DEF AppendCommit
    <3>2. Len(file.data) = Size
      BY <1>1, <2>2 DEF AppendCommit, OffsetFor
    <3> QED
      BY <3>1, <3>2 DEF Idle
  <2>3. CASE AppendCommit(c) /\ ~ (proc[c].off >= Size)
    BY <1>1, <2>3, GotoOthers, IdlePcs DEF AppendCommit
  <2> QED
    BY <2>1, <2>2, <2>3
<1> QED
  BY <1>1, <1>2, <1>3, <1>4, <1>5, <1>6 DEF OffsetFor, Working, Promoting

LEMMA AppendQueueOffset ==
  ASSUME Typed, SmoothClient, NEW c \in Client, OffsetFor(c), AppendQueue(c)
  PROVE  OffsetFor(c)'
<1>1. c \in Proc /\ Worker \in Proc /\ c # Worker
  BY OffsetFacts
<1>2. UNCHANGED <<file, row>> /\ proc[c].pc = "queue"
  BY DEF AppendQueue
<1>3. proc'[Worker] = proc[Worker] /\ proc'[c].pc = "idle"
  BY <1>1, GotoOthers, IdlePcs DEF AppendQueue
<1>4. row.received = Size /\ Len(file.data) = Size /\ row.status # "cancelled"
  BY <1>2 DEF OffsetFor
<1> QED
  BY <1>1, <1>2, <1>3, <1>4 DEF OffsetFor, Working, Promoting

LEMMA FinalizeReadOffset ==
  ASSUME Typed, SmoothClient, NEW c \in Client, OffsetFor(c), NEW p \in {c, Worker},
         FinalizeRead(p)
  PROVE  OffsetFor(c)'
<1>1. /\ c \in Proc /\ Worker \in Proc /\ c # Worker /\ Size \in Nat \ {0}
  BY OffsetFacts
<1>2. UNCHANGED <<file, row, job>>
  BY DEF FinalizeRead
<1>3. \A q \in Proc : q # p => proc'[q] = proc[q]
  BY <1>1, GotoOthers DEF FinalizeRead
<1>4. row.status # "cancelled" /\ (p = c => proc[c].pc = "idle")
      /\ (p = Worker => proc[Worker].pc = "lock" /\ Working)
  BY <1>1 DEF FinalizeRead, AtFinalize, Uploadable, Working
<1>5. CASE proc'[p] = [Idle EXCEPT !.pc = "inspect"]
  <2>1. proc'[p].pc = "inspect"
    BY <1>5 DEF Idle
  <2> QED
    BY <1>1, <1>2, <1>3, <1>4, <2>1 DEF OffsetFor, Working, Promoting
<1>6. CASE /\ row.status \in Uploadable
           /\ proc'[p] = [Idle EXCEPT !.pc = "mark", !.seen = row.status, !.got = row.received,
                                       !.off = Len(file.data), !.first = TRUE]
  <2>1. /\ proc'[p].pc = "mark" /\ proc'[p].off = Len(file.data)
        /\ proc'[p].got = row.received
    BY <1>6 DEF Idle
  <2>2. CASE p = c
    <3>1. Len(file.data) # Size => ~ Working /\ row.received = Len(file.data)
      BY <1>4, <1>6, <2>2 DEF OffsetFor
    <3> QED
      BY <1>1, <1>2, <1>3, <1>4, <1>6, <2>1, <2>2, <3>1 DEF OffsetFor, Working, Promoting
  <2>3. CASE p = Worker
    <3>1. row.received = Size /\ (Len(file.data) = Size \/ proc[c].pc = "cancel")
      BY <1>4, <1>6, <2>3 DEF OffsetFor
    <3> QED
      BY <1>1, <1>2, <1>3, <1>4, <1>6, <2>1, <2>3, <3>1 DEF OffsetFor, Working, Promoting
  <2> QED
    BY <2>2, <2>3
<1> QED
  BY <1>1, <1>5, <1>6, GotoOthers DEF FinalizeRead

LEMMA FinalizeIncompleteOffset ==
  ASSUME Typed, SmoothClient, NEW c \in Client, OffsetFor(c), NEW p \in {c, Worker},
         FinalizeIncomplete(p)
  PROVE  OffsetFor(c)'
<1>1. /\ c \in Proc /\ Worker \in Proc /\ c # Worker /\ Size \in Nat \ {0} /\ row \in RowRec
  BY OffsetFacts
<1>2. /\ UNCHANGED file /\ job' = IF p = Worker THEN "none" ELSE job
      /\ proc'[p].pc = "idle" /\ \A q \in Proc : q # p => proc'[q] = proc[q]
  BY <1>1, GotoOthers, IdlePcs DEF FinalizeIncomplete, HandlerEnds
<1>3. /\ row'.status \in {row.status, "interrupted"}
      /\ row'.received = IF proc[p].off = proc[p].got THEN row.received ELSE proc[p].off
  BY <1>1 DEF FinalizeIncomplete, RowRec, Column
<1>4. proc[p].pc = "mark" /\ proc[p].off # Size
  BY DEF FinalizeIncomplete, SizeAccepted
<1>5. CASE p = c
  <2>1. ~ Working /\ row'.received = row.received /\ row.status # "cancelled"
    BY <1>3, <1>4, <1>5 DEF OffsetFor
  <2>2. row.received = Len(file.data)
    BY <1>4, <1>5 DEF OffsetFor
  <2> QED
    BY <1>1, <1>2, <1>3, <1>4, <1>5, <2>1, <2>2 DEF OffsetFor, Working, Promoting
<1>6. CASE p = Worker
  <2>1. /\ row'.received = 0 /\ Len(file.data) = 0
        /\ proc[c].pc \in {"idle", "cancel"}
    BY <1>1, <1>3, <1>4, <1>6 DEF OffsetFor
  <2>2. ~ Working'
    BY <1>2, <1>6 DEF Working
  <2> QED
    BY <1>1, <1>2, <1>3, <1>6, <2>1, <2>2 DEF OffsetFor, Promoting
<1> QED
  BY <1>5, <1>6

LEMMA FinalizeMarkOffset ==
  ASSUME Typed, SmoothClient, NEW c \in Client, OffsetFor(c), NEW p \in {c, Worker},
         FinalizeMark(p)
  PROVE  OffsetFor(c)'
<1>1. /\ c \in Proc /\ Worker \in Proc /\ c # Worker /\ row \in RowRec
      /\ proc[p] \in ProcRec
  BY OffsetFacts
<1>2. /\ UNCHANGED <<file, job>> /\ proc[p].pc = "mark" /\ proc[p].off = Size
      /\ \A q \in Proc : q # p => proc'[q] = proc[q]
  BY <1>1, GotoOthers DEF FinalizeMark, SizeAccepted
<1>3. proc'[p].pc = "inspect"
  <2>1. proc'[p] = [proc[p] EXCEPT !.pc = "inspect"]
    BY <1>1, GotoOthers DEF FinalizeMark
  <2> QED
    BY <1>1, <2>1 DEF ProcRec
<1>4. /\ row'.status = "preflight_running"
      /\ row'.received = IF proc[p].off = proc[p].got THEN row.received ELSE proc[p].off
  BY <1>1 DEF FinalizeMark, RowRec, Column
<1>5. row'.status \notin Uploadable /\ row'.status # "cancelled" /\ row'.status \in Closed
  BY <1>4 DEF Uploadable, Closed
<1>6. CASE p = c
  BY <1>1, <1>2, <1>3, <1>5, <1>6 DEF OffsetFor, Working, Promoting
<1>7. CASE p = Worker
  <2>1. Working /\ row'.received = row.received
    BY <1>1, <1>2, <1>4, <1>7 DEF OffsetFor, Working
  <2> QED
    BY <1>1, <1>2, <1>3, <1>5, <1>7, <2>1 DEF OffsetFor, Working, Promoting
<1> QED
  BY <1>6, <1>7

\* A finalization hashes, or ends; the received bytes stay.
LEMMA FinalizeRestOffset ==
  ASSUME Typed, SmoothClient, NEW c \in Client, OffsetFor(c), NEW p \in {c, Worker},
         FinalizeInspect(p) \/ FinalizeMissing(p) \/ FinalizeStage(p)
  PROVE  OffsetFor(c)'
<1>1. /\ c \in Proc /\ Worker \in Proc /\ c # Worker /\ row \in RowRec
      /\ proc[p] \in ProcRec
  BY OffsetFacts
<1>2. /\ UNCHANGED file /\ proc[p].pc \in {"inspect", "stage"}
      /\ \A q \in Proc : q # p => proc'[q] = proc[q]
  BY <1>1, GotoOthers DEF FinalizeInspect, FinalizeMissing, InspectionFailed, FinalizeStage,
                          HandlerEnds
<1>3. /\ row'.status \in {row.status, "staged"}
      /\ row'.received = row.received
  BY <1>1 DEF FinalizeInspect, FinalizeMissing, InspectionFailed, FinalizeStage, RowRec
<1>4. \/ proc'[p].pc = "idle" /\ job' = IF p = Worker THEN "none" ELSE job
      \/ proc'[p].pc = "stage" /\ job' = job
  <2>1. CASE FinalizeInspect(p)
    <3>1. proc'[p] = [proc[p] EXCEPT !.pc = "stage"]
      BY <1>1, <2>1, GotoOthers DEF FinalizeInspect
    <3> QED
      BY <1>1, <2>1, <3>1 DEF ProcRec, FinalizeInspect
  <2>2. CASE FinalizeMissing(p) \/ FinalizeStage(p)
    BY <1>1, <2>2, GotoOthers, IdlePcs
       DEF FinalizeMissing, InspectionFailed, FinalizeStage, HandlerEnds
  <2> QED
    BY <2>1, <2>2
<1>5. /\ row'.status \in Uploadable => row.status \in Uploadable
      /\ row.status \in Closed => row'.status \in Closed
      /\ row.status # "cancelled" => row'.status # "cancelled"
  BY <1>3 DEF Uploadable, Closed
<1>6. CASE p = c
  BY <1>1, <1>2, <1>3, <1>4, <1>5, <1>6 DEF OffsetFor, Working, Promoting
<1>7. CASE p = Worker
  BY <1>1, <1>2, <1>3, <1>4, <1>5, <1>7 DEF OffsetFor, Working, Promoting
<1> QED
  BY <1>6, <1>7

LEMMA WorkerOffset ==
  ASSUME Typed, SmoothClient, NEW c \in Client, OffsetFor(c), WorkerTake \/ WorkerStepsAside
  PROVE  OffsetFor(c)'
<1>1. c \in Proc /\ Worker \in Proc /\ c # Worker
  BY OffsetFacts
<1>2. UNCHANGED <<row, file>> /\ \A q \in Proc : q # Worker => proc'[q] = proc[q]
  BY <1>1, GotoOthers DEF WorkerTake, WorkerStepsAside, HandlerEnds
<1>3. Working
  BY DEF WorkerTake, WorkerStepsAside, Working
<1>4. proc'[Worker] = proc[Worker] \/ proc'[Worker].pc \in {"idle", "lock"}
  <2>1. \/ proc'[Worker] = proc[Worker] \/ proc'[Worker] = Idle
        \/ proc'[Worker] = [Idle EXCEPT !.pc = "lock"]
    BY <1>1, GotoOthers DEF WorkerTake, WorkerStepsAside, HandlerEnds
  <2> QED
    BY <2>1 DEF Idle
<1> QED
  BY <1>1, <1>2, <1>3, <1>4 DEF OffsetFor, Working, Promoting

\* While the client promotes, the status is closed.
LEMMA PromoteOffset ==
  ASSUME Typed, SmoothClient, NEW c \in Client, OffsetFor(c),
         PromoteBegin(c) \/ PromoteOpen(c) \/ PromoteSave(c) \/ PromoteRegister(c)
           \/ PromoteFinish(c) \/ PromoteAnnounce(c)
  PROVE  OffsetFor(c)'
<1>1. /\ c \in Proc /\ Worker \in Proc /\ c # Worker /\ row \in RowRec
      /\ proc[c] \in ProcRec /\ proc[Worker] \in ProcRec
  BY OffsetFacts
<1>2. UNCHANGED job /\ row.status \in Closed
  BY DEF PromoteBegin, PromoteOpen, PromoteSave, PromoteRegister, PromoteFinish,
         PromoteAnnounce, OffsetFor, Promoting, Closed
<1>3. row'.status \in Closed
  BY <1>1, <1>2 DEF PromoteBegin, PromoteOpen, PromoteSave, PromoteRegister, PromoteFinish,
         PromoteAnnounce, Closed, RowRec
<1>4. \A s \in Closed : s \notin Uploadable /\ s # "cancelled"
  BY DEF Uploadable, Closed
<1>5. proc[c].pc # "cancel"
  BY DEF PromoteBegin, PromoteOpen, PromoteSave, PromoteRegister, PromoteFinish,
         PromoteAnnounce
<1>6. ~ (proc[Worker].pc = "mark" /\ proc[Worker].off # Size)
  BY <1>2, <1>4, <1>5 DEF OffsetFor
<1>7. \/ proc'[Worker] = proc[Worker]
      \/ proc[Worker].pc = "receive" /\ proc'[Worker].pc = "interrupt"
  <2>1. CASE PromoteAnnounce(c)
    <3>1. /\ [proc EXCEPT ![c] = Idle] \in [Proc -> ProcRec]
          /\ [proc EXCEPT ![c] = Idle][Worker] = proc[Worker]
      BY <1>1, IdleType DEF Typed
    <3>2. \/ proc'[Worker] = proc[Worker]
          \/ /\ proc[Worker].pc = "receive"
             /\ proc'[Worker] = [proc[Worker] EXCEPT !.pc = "interrupt"]
      BY <1>1, <2>1, <3>1, InterruptedPc DEF PromoteAnnounce
    <3> QED
      BY <1>1, <3>2 DEF ProcRec
  <2>2. CASE ~ PromoteAnnounce(c)
    BY <1>1, <2>2, GotoOthers
       DEF PromoteBegin, PromoteOpen, PromoteSave, PromoteRegister, PromoteFinish
  <2> QED
    BY <2>1, <2>2
<1>8. proc'[c].pc \in {"idle"} \cup Promoting
  <2>1. CASE PromoteAnnounce(c)
    <3>1. [proc EXCEPT ![c] = Idle] \in [Proc -> ProcRec] /\ [proc EXCEPT ![c] = Idle][c] = Idle
      BY <1>1, IdleType DEF Typed
    <3> QED
      BY <1>1, <2>1, <3>1, InterruptedPc, IdlePcs DEF PromoteAnnounce
  <2>2. CASE PromoteBegin(c) \/ PromoteRegister(c) \/ PromoteFinish(c)
    <3>1. \E x \in Promoting : proc'[c] = [Idle EXCEPT !.pc = x]
      BY <1>1, <2>2, GotoOthers DEF PromoteBegin, PromoteRegister, PromoteFinish, Promoting
    <3> QED
      BY <3>1 DEF Idle
  <2>3. CASE PromoteOpen(c)
    <3>1. \/ proc'[c] = Idle
          \/ proc'[c] = [proc[c] EXCEPT !.pc = "save", !.data = file.data, !.sha = row.sha]
      BY <1>1, <2>3, GotoOthers DEF PromoteOpen
    <3> QED
      BY <1>1, <3>1, IdlePcs DEF ProcRec, Promoting
  <2>4. CASE PromoteSave(c)
    <3> DEFINE move   == file.exists /\ proc[c].sha # NoData
               stored == IF move THEN file.data ELSE proc[c].data
               sha    == IF move THEN proc[c].sha ELSE proc[c].data
    <3>1. \/ proc'[c] = Idle
          \/ proc'[c] = [proc[c] EXCEPT !.pc = "register", !.data = stored, !.sha = sha]
      BY <1>1, <2>4, GotoOthers DEF PromoteSave
    <3> QED
      BY <1>1, <3>1, IdlePcs DEF ProcRec, Promoting
  <2> QED
    BY <2>1, <2>2, <2>3, <2>4
<1> QED
  BY <1>1, <1>2, <1>3, <1>4, <1>6, <1>7, <1>8 DEF OffsetFor, Working, Promoting

LEMMA CancelOffset ==
  ASSUME Typed, SmoothClient, NEW c \in Client, OffsetFor(c),
         CancelCleanup(c) \/ CancelCommit(c)
  PROVE  OffsetFor(c)'
<1>1. /\ c \in Proc /\ Worker \in Proc /\ c # Worker /\ row \in RowRec
      /\ proc[Worker] \in ProcRec
  BY OffsetFacts
<1>2. CASE CancelCleanup(c)
  <2>1. UNCHANGED <<row, job>> /\ Len(file'.data) = 0
    BY <1>2 DEF CancelCleanup, Cleanup, NoFile, NoData
  <2> DEFINE next == [Idle EXCEPT !.pc = "cancel"]
  <2>2. next \in ProcRec /\ next.pc = "cancel"
    BY IdleType DEF ProcRec, ProcPc, Idle
  <2> HIDE DEF next
  <2>3. /\ [proc EXCEPT ![c] = next] \in [Proc -> ProcRec]
        /\ [proc EXCEPT ![c] = next][c] = next
        /\ [proc EXCEPT ![c] = next][Worker] = proc[Worker]
        /\ proc' = Interrupted([proc EXCEPT ![c] = next])
    BY <1>1, <1>2, <2>2 DEF Typed, CancelCleanup, next
  <2>4. proc'[c].pc = "cancel"
    BY <1>1, <2>2, <2>3, InterruptedPc
  <2>5. \/ proc'[Worker] = proc[Worker]
        \/ /\ proc[Worker].pc = "receive"
           /\ proc'[Worker] = [proc[Worker] EXCEPT !.pc = "interrupt"]
    BY <1>1, <2>3, InterruptedPc
  <2>6. \/ proc'[Worker] = proc[Worker]
        \/ proc[Worker].pc = "receive" /\ proc'[Worker].pc = "interrupt"
    BY <1>1, <2>5 DEF ProcRec
  <2> QED
    BY <1>1, <2>1, <2>4, <2>6 DEF OffsetFor, Working, Promoting
<1>3. CASE CancelCommit(c)
  <2>1. UNCHANGED <<file, job>> /\ proc'[Worker] = proc[Worker] /\ proc'[c].pc = "idle"
    BY <1>1, <1>3, GotoOthers, IdlePcs DEF CancelCommit
  <2>2. row'.status = "cancelled" /\ row'.status \notin Uploadable
    BY <1>1, <1>3 DEF CancelCommit, RowRec, Uploadable
  <2> QED
    BY <1>1, <2>1, <2>2 DEF OffsetFor, Working, Promoting
<1> QED
  BY <1>2, <1>3

LEMMA OtherOffset ==
  ASSUME Typed, SmoothClient, NEW c \in Client, OffsetFor(c),
         ReconcileSync \/ RqCleanup \/ UNCHANGED vars
           \/ \E l \in Locks : LockExpires(l) \/ LockOverruns(l)
  PROVE  OffsetFor(c)'
<1>1. UNCHANGED <<row, file, proc>> /\ (job' = "queued" <=> job = "queued")
  BY DEF ReconcileSync, RqCleanup, vars, LockExpires, LockOverruns
<1> QED
  BY <1>1 DEF OffsetFor, Working

\* Reconciliation, expiry and errors are no steps of a session that stays current.
LEMMA NotStale ==
  ASSUME Typed, SmoothClient, Current, used'["expiry"] = 0
  PROVE  /\ ~ Reconcile /\ ~ Expire /\ ~ BackendCrash /\ ~ WorkerCrash
         /\ \A c \in Client : ~ RequestError(c) /\ ~ Retry(c)
         /\ \A p \in Proc : ~ FinalizeFails(p)
<1>1. ~ Reconcile
  BY DEF Reconcile, ReconcileRead, ReconcileCleanup, ReconcileCommit, ExpirableNow, Current
<1>2. ~ Expire
  BY DEF Expire, Use, Typed, Kinds
<1>3. \A p \in Proc : ~ FinalizeFails(p)
  BY NoError DEF FinalizeFails
<1>4. ~ BackendCrash /\ ~ WorkerCrash
  BY NoError DEF BackendCrash, WorkerCrash
<1>5. \A c \in Client : ~ RequestError(c) /\ ~ Retry(c)
  BY <1>3, NoError, ClientProc
     DEF RequestError, AppendWriteFails, AppendQueueFails, PromoteRegisterFails, Retry
<1> QED
  BY <1>1, <1>2, <1>3, <1>4, <1>5

\* The other steps leave the session current.
LEMMA StaysCurrent ==
  ASSUME Typed, SmoothClient, Current, used'["expiry"] = 0, [Next]_vars
  PROVE  Current'
<1>1. ~ Reconcile /\ ~ Expire /\ ~ BackendCrash /\ ~ WorkerCrash
  BY NotStale
<1>2. \A c \in Client : ~ RequestError(c)
  BY NotStale
<1>3. \A p \in Proc : ~ FinalizeFails(p)
  BY NotStale
<1>4. ASSUME NEW p, FinalizeRead(p) \/ FinalizeStep(p) PROVE Current'
  BY <1>4 DEF FinalizeStep, FinalizeRead, FinalizeIncomplete, FinalizeMark, FinalizeInspect,
              FinalizeMissing, InspectionFailed, FinalizeStage, Current
<1>5. ASSUME NEW c \in Client, RequestBegin(c) PROVE Current'
  BY <1>4, <1>5 DEF RequestBegin, AppendBegin, PromoteBegin, CancelCleanup, Retry, Current
<1>6. ASSUME NEW c \in Client, RequestStep(c) PROVE Current'
  <2>1. CASE AppendInterrupt(c) \/ AppendCommit(c)
    <3>1. ~ expired' /\ UNCHANGED recon
      BY <2>1 DEF AppendInterrupt, AppendCommit, CommitTouched
    <3> QED
      BY <3>1 DEF Current
  <2>2. CASE ~ (AppendInterrupt(c) \/ AppendCommit(c) \/ FinalizeStep(c))
    <3>1. UNCHANGED <<expired, recon>>
      BY <1>6, <2>2 DEF RequestStep, AppendWrite, AppendQueue, PromoteOpen, PromoteSave,
         PromoteRegister, PromoteFinish, PromoteAnnounce, CancelCommit
    <3> QED
      BY <3>1 DEF Current
  <2> QED
    BY <1>4, <2>1, <2>2
<1>7. CASE WorkerStep
  BY <1>4, <1>7 DEF WorkerStep, WorkerTake, WorkerStepsAside, Current
<1>8. CASE \/ ReconcileSync \/ RqCleanup \/ UNCHANGED vars
           \/ \E l \in Locks : LockExpires(l) \/ LockOverruns(l)
  BY <1>8 DEF ReconcileSync, RqCleanup, vars, LockExpires, LockOverruns, Current
<1> QED
  BY <1>1, <1>2, <1>3, <1>5, <1>6, <1>7, <1>8, ClientProc DEF Next, Locks

LEMMA OffsetNext ==
  SmoothClient /\ Typed /\ PrefixInv /\ OffsetInv /\ [Next]_vars => OffsetInv'
<1> SUFFICES ASSUME SmoothClient, Typed, PrefixInv, OffsetInv, [Next]_vars,
                    used'["expiry"] = 0
             PROVE  Current' /\ \A c \in Client : OffsetFor(c)'
  BY DEF OffsetInv
<1>1. Current /\ \A c \in Client : OffsetFor(c)
  BY ExpiryStays DEF OffsetInv
<1>2. Current'
  BY <1>1, StaysCurrent
<1>3. PICK c : Client = {c}
  BY DEF SmoothClient, OneClient
<1> SUFFICES OffsetFor(c)'
  BY <1>2, <1>3
<1>4. /\ ~ Reconcile /\ ~ Expire /\ ~ BackendCrash /\ ~ WorkerCrash
      /\ ~ RequestError(c) /\ ~ Retry(c) /\ ~ FinalizeFails(Worker)
  BY <1>1, <1>3, NotStale, ClientProc
<1>5. ASSUME NEW p \in {c, Worker}, FinalizeRead(p) \/ FinalizeStep(p) PROVE OffsetFor(c)'
  BY <1>1, <1>3, <1>5, FinalizeReadOffset, FinalizeIncompleteOffset, FinalizeMarkOffset,
     FinalizeRestOffset DEF FinalizeStep
<1>6. CASE RequestBegin(c)
  BY <1>1, <1>3, <1>4, <1>5, <1>6, AppendBeginOffset, PromoteOffset, CancelOffset
     DEF RequestBegin
<1>7. CASE RequestStep(c)
  BY <1>1, <1>3, <1>5, <1>7, AppendWriteOffset, AppendEndOffset, AppendQueueOffset,
     PromoteOffset, CancelOffset DEF RequestStep
<1>8. CASE WorkerStep
  BY <1>1, <1>3, <1>5, <1>8, WorkerOffset DEF WorkerStep
<1>9. CASE ReconcileSync \/ RqCleanup \/ UNCHANGED vars
             \/ \E l \in Locks : LockExpires(l) \/ LockOverruns(l)
  BY <1>1, <1>3, <1>9, OtherOffset
<1> QED
  BY <1>3, <1>4, <1>6, <1>7, <1>8, <1>9 DEF Next, Locks

\* Between requests the offset the row confirms is the end of the staged file, so
\* the client can go on, for a client that sends one request at a time and
\* meets no errors: however often it disconnects, cancels or finalizes too early,
\* whatever the worker is doing and however long a lock is held.
THEOREM ConfirmedOffsetsAreUsable ==
  OneClient /\ MaxFaults = 0 /\ MaxCrashes = 0 /\ MaxRetries = 0
    => (Spec => []ConfirmedOffsetIsUsable)
<1> SUFFICES ASSUME SmoothClient PROVE Spec => []ConfirmedOffsetIsUsable
  BY DEF SmoothClient
<1>1. Init => Typed /\ PrefixInv /\ OffsetInv
  BY TypeInit, PrefixInit, OffsetInit DEF SmoothClient
<1>2. Typed /\ PrefixInv /\ OffsetInv /\ [Next]_vars => (Typed /\ PrefixInv /\ OffsetInv)'
  BY TypeNext, PrefixNext, OffsetNext DEF SmoothClient
<1>3. OffsetInv => ConfirmedOffsetIsUsable
  <2> SUFFICES ASSUME OffsetInv, used["expiry"] = 0, row.status \in Uploadable,
                      \A c \in Client : proc[c].pc = "idle", proc[Worker].pc = "idle"
               PROVE  OffsetMatches
    BY DEF ConfirmedOffsetIsUsable
  <2>1. PICK c : Client = {c}
    BY DEF SmoothClient, OneClient
  <2>2. OffsetFor(c) /\ proc[c].pc = "idle"
    BY <2>1 DEF OffsetInv
  <2> QED
    BY <2>2 DEF OffsetFor, Working, OffsetMatches
<1> QED
  BY <1>1, <1>2, <1>3, PTL DEF Spec

=============================================================================
