------------------------- MODULE MemoryUploadProofs -------------------------
(***************************************************************************)
(* Theorems about MemoryUpload for every number of chunks, chunk requests  *)
(* and finalize, retry, repair and reconcile requests, every content, and  *)
(* any number of crashes, whatever may cancel, expire, sweep or fail: the  *)
(* types, that a completed session has its Evidence row, and that an       *)
(* Evidence row can be completed again whatever was written over it.       *)
(* MemoryUploadRefinement continues.                                       *)
(***************************************************************************)
EXTENDS MemoryUpload, FiniteSetTheorems, TLAPS

Received == [Chunks -> Bodies \cup {NoBytes}]
Contents == Images \cup {NoBytes}
RowRec  == [status : Statuses, meta : Metas, bytes : 0 .. Cardinality(Chunks), sha : Contents,
            preserved : BOOLEAN, retryable : BOOLEAN, age : Fresh .. Expired]
PutRec  == [pc : PutPcs, chunk : Chunks, body : Bodies \cup {NoBytes}, meta : Metas,
            was : Statuses, opens : BOOLEAN]
TaskRec == [pc : TaskPcs, kind : {"finalize", "retry", "repair"}, was : Statuses,
            received : Received, image : Contents]

DiskTyped ==
  /\ dir \in BOOLEAN
  /\ file \in Received
  /\ temp \subseteq Putters
  /\ assembly \in [Tasks -> Contents]
  /\ canonical \in Contents

LocksTyped ==
  /\ chunkLock \in [Chunks -> Putters \cup {Nobody, Crashed}]
  /\ metaLock \in Putters \cup {Nobody, Crashed}
  /\ finalLock \in Tasks \cup {Nobody, Crashed}

Typed ==
  /\ row \in RowRec
  /\ DiskTyped
  /\ evidence \in Contents
  /\ twin \in {"unknown", "checked", "registered"}
  /\ LocksTyped
  /\ put \in [Putters -> PutRec]
  /\ task \in [Tasks -> TaskRec]
  /\ closing \in {"idle", "cancel", "remove", "completed", "open", "inconsistent", "failed"}
  /\ sweep \in {"idle", "commit", "remove"}
  /\ crashes \in 0 .. MaxCrashes

\* Typed is TypeOK with a name for each record type.
LEMMA TypedIsTypeOK == Typed <=> TypeOK
  BY DEF Typed, TypeOK, RowRec, PutRec, TaskRec, DiskTyped, LocksTyped, Received, Contents

-----------------------------------------------------------------------------
(* The operators the actions are built from.                               *)

LEMMA StatusTypes ==
  {"created", "uploading", "verifying", "finalizing", "completed", "cancelled", "expired",
   "failed", "inconsistent", "registration_pending"} \subseteq Statuses
  BY DEF Statuses, Active, Terminal

LEMMA SizeType == Cardinality(Chunks) \in Nat
  BY UploadConstants, FS_CardinalityType

\* received_bytes is recomputed from the records, so it is never more than the image.
LEMMA RecordedSize ==
  ASSUME NEW received \in Received
  PROVE  Cardinality(Recorded(received)) \in 0 .. Cardinality(Chunks)
<1>1. Recorded(received) \subseteq Chunks
  BY DEF Recorded
<1>2. /\ IsFiniteSet(Recorded(received))
      /\ Cardinality(Recorded(received)) <= Cardinality(Chunks)
  BY <1>1, UploadConstants, FS_Subset
<1> QED
  BY <1>2, SizeType, FS_CardinalityType

LEMMA IdleTypes ==
  /\ NoFiles \in Received
  /\ NoMeta \in Metas
  /\ IdlePut \in PutRec /\ IdlePut.pc = "idle"
  /\ IdleTask \in TaskRec /\ IdleTask.pc = "idle"
  /\ NoBytes \in Contents
  /\ Fresh \in Fresh .. Expired
<1>1. NoFiles \in Received /\ NoBytes \in Contents
  BY DEF NoFiles, Received, Contents
<1>2. NoMeta \in Metas
  BY <1>1 DEF NoMeta, Metas, Received
<1>3. (CHOOSE c \in Chunks : TRUE) \in Chunks
  BY UploadConstants
<1>4. IdlePut \in PutRec /\ IdlePut.pc = "idle"
  BY <1>2, <1>3, StatusTypes DEF IdlePut, PutRec, PutPcs
<1>5. IdleTask \in TaskRec /\ IdleTask.pc = "idle"
  BY <1>1, StatusTypes DEF IdleTask, TaskRec, TaskPcs
<1>6. Fresh \in Fresh .. Expired
  BY DEF Fresh, Expired
<1> QED
  BY <1>1, <1>2, <1>4, <1>5, <1>6

LEMMA InitType == Init => Typed
  BY IdleTypes, StatusTypes, SizeType, UploadConstants
  DEF Init, Typed, DiskTyped, LocksTyped, RowRec

\* The JSON column a commit leaves is the row's or the one the request made.
LEMMA MetaWrittenType ==
  ASSUME Typed, NEW p \in Putters, NEW meta \in Metas
  PROVE  MetaWritten(p, meta) \in Metas
  BY DEF MetaWritten, Typed, RowRec

-----------------------------------------------------------------------------
(* Every action keeps the types.  The chunk requests:                       *)

\* A chunk request goes on, with or without the copy of the column it read.
LEMMA PutGoesType ==
  ASSUME Typed, NEW p \in Putters, NEW pc \in PutPcs
  PROVE  /\ [put EXCEPT ![p].pc = pc] \in [Putters -> PutRec]
         /\ [put EXCEPT ![p].pc = pc, ![p].meta = NoMeta] \in [Putters -> PutRec]
<1>1. put[p] \in PutRec
  BY DEF Typed
<1>2. [put[p] EXCEPT !.pc = pc] \in PutRec
  BY <1>1 DEF PutRec
<1>3. [put[p] EXCEPT !.pc = pc, !.meta = NoMeta] \in PutRec
  BY <1>1, IdleTypes DEF PutRec
<1>4. [put EXCEPT ![p].pc = pc, ![p].meta = NoMeta]
        = [put EXCEPT ![p] = [put[p] EXCEPT !.pc = pc, !.meta = NoMeta]]
  BY DEF Typed
<1> QED
  BY <1>2, <1>3, <1>4 DEF Typed

LEMMA PutStartType ==
  ASSUME Typed, NEW p \in Putters, NEW c \in Chunks, NEW b \in Bodies, PutStart(p, c, b)
  PROVE  Typed'
<1> DEFINE pc == IF row.age = Expired THEN "expired" ELSE "inspect"
<1>1. [IdlePut EXCEPT !.pc = pc, !.chunk = c, !.body = b, !.meta = row.meta] \in PutRec
  BY IdleTypes DEF Typed, RowRec, PutRec, PutPcs
<1> QED
  BY <1>1 DEF PutStart, Typed, DiskTyped, LocksTyped, disk, locks

LEMMA PutInspectType ==
  ASSUME Typed, NEW p \in Putters, PutInspect(p) PROVE Typed'
<1>1. {"damaged", "lock"} \subseteq PutPcs
  BY DEF PutPcs
<1>2. ASSUME PutGoes(p, "damaged") PROVE put' \in [Putters -> PutRec]
  BY <1>1, <1>2, PutGoesType DEF PutGoes
<1>3. ASSUME PutEnds(p) PROVE put' \in [Putters -> PutRec]
  BY <1>3, IdleTypes DEF PutEnds, Typed
<1>4. ASSUME put' = [put EXCEPT ![p].pc = "lock", ![p].meta = NoMeta]
      PROVE  put' \in [Putters -> PutRec]
  BY <1>1, <1>4, PutGoesType
<1>5. put' \in [Putters -> PutRec]
  BY <1>2, <1>3, <1>4 DEF PutInspect
<1> QED
  BY <1>5 DEF PutInspect, Typed, DiskTyped, LocksTyped, disk, locks

LEMMA PutFindsExpiredType ==
  ASSUME Typed, NEW p \in Putters, PutFindsExpired(p) PROVE Typed'
<1>1. row' \in RowRec
  BY StatusTypes DEF PutFindsExpired, Typed, RowRec
<1>2. put' \in [Putters -> PutRec]
  BY IdleTypes DEF PutFindsExpired, PutEnds, Typed
<1> QED
  BY <1>1, <1>2 DEF PutFindsExpired, Typed, DiskTyped, LocksTyped, disk, locks

LEMMA PutFindsDamageType ==
  ASSUME Typed, NEW p \in Putters, PutFindsDamage(p) PROVE Typed'
<1>1. row' \in RowRec
  BY StatusTypes DEF PutFindsDamage, Typed, RowRec
<1>2. put' \in [Putters -> PutRec]
  BY IdleTypes DEF PutFindsDamage, PutEnds, Typed
<1> QED
  BY <1>1, <1>2 DEF PutFindsDamage, Typed, DiskTyped, LocksTyped, disk, locks

LEMMA PutRefusedType ==
  ASSUME Typed, NEW p \in Putters, PutRefused(p) PROVE Typed'
  BY IdleTypes, StatusTypes
  DEF PutRefused, Typed, DiskTyped, LocksTyped, disk, locks, PutRec, PutPcs, PutAt, PutEnds

LEMMA PutLockType ==
  ASSUME Typed, NEW p \in Putters, PutLock(p) PROVE Typed'
<1>1. [put[p] EXCEPT !.pc = "mark", !.meta = row.meta] \in PutRec
  BY IdleTypes DEF Typed, PutRec, PutPcs, RowRec
<1>2. put' = [put EXCEPT ![p] = [put[p] EXCEPT !.pc = "mark", !.meta = row.meta]]
  BY DEF PutLock, Typed
<1>3. put' \in [Putters -> PutRec]
  BY <1>1, <1>2 DEF Typed
<1>4. chunkLock' \in [Chunks -> Putters \cup {Nobody, Crashed}]
  BY DEF PutLock, Typed, LocksTyped, PutRec
<1> QED
  BY <1>1, <1>2, <1>3, <1>4 DEF PutLock, Typed, DiskTyped, LocksTyped, disk

LEMMA PutMarkType ==
  ASSUME Typed, NEW p \in Putters, PutMark(p) PROVE Typed'
<1>1. [put[p].meta EXCEPT !.active = @ \cup {put[p].chunk}] \in Metas
  BY DEF Typed, PutRec, Metas
<1>2. row' \in RowRec
  BY <1>1, MetaWrittenType DEF PutMark, Typed, RowRec
<1>3. put' \in [Putters -> PutRec]
  BY DEF PutMark, PutGoes, Typed, PutRec, PutPcs
<1> QED
  BY <1>1, <1>2, <1>3 DEF PutMark, Typed, DiskTyped, LocksTyped, disk, locks

LEMMA PutWriteType ==
  ASSUME Typed, NEW p \in Putters, PutWrite(p) PROVE Typed'
  BY IdleTypes, StatusTypes
  DEF PutWrite, Typed, DiskTyped, LocksTyped, locks, PutRec, PutPcs, PutAt, PutGoes

LEMMA PutWriteFailsType ==
  ASSUME Typed, NEW p \in Putters, PutWriteFails(p) PROVE Typed'
<1>1. {"record", "clear"} \subseteq PutPcs
  BY DEF PutPcs
<1>2. put' \in [Putters -> PutRec]
  BY <1>1, PutGoesType DEF PutWriteFails
<1> QED
  BY <1>2 DEF PutWriteFails, Typed, DiskTyped, LocksTyped, locks

LEMMA PutPlaceType ==
  ASSUME Typed, NEW p \in Putters, PutPlace(p) PROVE Typed'
<1>1. [put[p] EXCEPT !.pc = "record", !.opens = TRUE, !.meta = NoMeta] \in PutRec
  BY IdleTypes DEF Typed, PutRec, PutPcs, RowRec
<1>2. put' = [put EXCEPT ![p] = [put[p] EXCEPT !.pc = "record", !.opens = TRUE, !.meta = NoMeta]]
  BY DEF PutPlace, Typed
<1>3. put' \in [Putters -> PutRec]
  BY <1>1, <1>2 DEF Typed
<1>4. file' \in Received
  BY DEF PutPlace, Typed, DiskTyped, PutRec, Received
<1> QED
  BY <1>1, <1>2, <1>3, <1>4 DEF PutPlace, Typed, DiskTyped, LocksTyped, locks

LEMMA PutFindsFileType ==
  ASSUME Typed, NEW p \in Putters, PutFindsFile(p) PROVE Typed'
<1>1. {"record", "clear"} \subseteq PutPcs
  BY DEF PutPcs
<1>2. put' \in [Putters -> PutRec]
  BY <1>1, PutGoesType DEF PutFindsFile
<1> QED
  BY <1>2 DEF PutFindsFile, Typed, DiskTyped, LocksTyped, locks

LEMMA PutLosesFileType ==
  ASSUME Typed, NEW p \in Putters, PutLosesFile(p) PROVE Typed'
<1>1. {"record", "clear"} \subseteq PutPcs
  BY DEF PutPcs
<1>2. put' \in [Putters -> PutRec]
  BY <1>1, PutGoesType DEF PutLosesFile
<1> QED
  BY <1>2 DEF PutLosesFile, Typed, DiskTyped, LocksTyped, disk, locks

LEMMA PutRecordRefusedType ==
  ASSUME Typed, NEW p \in Putters, PutRecordRefused(p) PROVE Typed'
<1>1. [put[p] EXCEPT !.pc = "clear", !.opens = FALSE] \in PutRec
  BY DEF Typed, PutRec, PutPcs
<1>2. put' = [put EXCEPT ![p] = [put[p] EXCEPT !.pc = "clear", !.opens = FALSE]]
  BY DEF PutRecordRefused, Typed
<1> QED
  BY <1>1, <1>2 DEF PutRecordRefused, Typed, DiskTyped, LocksTyped, disk, locks

LEMMA PutRecordType ==
  ASSUME Typed, NEW p \in Putters, PutRecord(p) PROVE Typed'
<1>1. [put[p] EXCEPT !.pc = "merge", !.meta = row.meta, !.was = row.status] \in PutRec
  BY IdleTypes DEF Typed, PutRec, PutPcs, RowRec
<1>2. put' = [put EXCEPT ![p] =
             [put[p] EXCEPT !.pc = "merge", !.meta = row.meta, !.was = row.status]]
  BY DEF PutRecord, Typed
<1>3. put' \in [Putters -> PutRec]
  BY <1>1, <1>2 DEF Typed
<1> QED
  BY <1>1, <1>2, <1>3 DEF PutRecord, Typed, DiskTyped, LocksTyped, disk

LEMMA PutMergeType ==
  ASSUME Typed, NEW p \in Putters, PutMerge(p) PROVE Typed'
<1>1. [put[p] EXCEPT !.pc = "clear", !.meta = NoMeta, !.was = "created", !.opens = FALSE] \in PutRec
  BY IdleTypes, StatusTypes DEF Typed, PutRec, PutPcs, RowRec
<1>2. put' = [put EXCEPT ![p] = [put[p] EXCEPT !.pc = "clear", !.meta = NoMeta,
                                               !.was = "created", !.opens = FALSE]]
  BY DEF PutMerge, Typed
<1>3. put' \in [Putters -> PutRec]
  BY <1>1, <1>2 DEF Typed
<1>4. [put[p].meta EXCEPT !.received[put[p].chunk] = put[p].body] \in Metas
  <2>1. put[p].meta \in Metas /\ put[p].body \in Bodies \cup {NoBytes}
    BY DEF Typed, PutRec
  <2>2. [put[p].meta.received EXCEPT ![put[p].chunk] = put[p].body]
           \in [Chunks -> Bodies \cup {NoBytes}]
    BY <2>1 DEF Metas
  <2> QED
    BY <2>1, <2>2 DEF Metas
<1>5. \A m \in Metas : Cardinality(Recorded(m.received)) \in 0 .. Cardinality(Chunks)
  BY RecordedSize DEF Metas, Received
<1>6. row' \in RowRec
  BY <1>4, <1>5, MetaWrittenType, StatusTypes, IdleTypes DEF PutMerge, Typed, RowRec
<1> QED
  BY <1>1, <1>2, <1>3, <1>4, <1>5, <1>6 DEF PutMerge, Typed, DiskTyped, LocksTyped, disk

LEMMA PutClearType ==
  ASSUME Typed, NEW p \in Putters, PutClear(p) PROVE Typed'
<1>1. [put[p] EXCEPT !.pc = "unmark", !.meta = row.meta] \in PutRec
  BY IdleTypes DEF Typed, PutRec, PutPcs, RowRec
<1>2. put' = [put EXCEPT ![p] = [put[p] EXCEPT !.pc = "unmark", !.meta = row.meta]]
  BY DEF PutClear, Typed
<1>3. put' \in [Putters -> PutRec]
  BY <1>1, <1>2 DEF Typed
<1> QED
  BY <1>1, <1>2, <1>3 DEF PutClear, Typed, DiskTyped, LocksTyped, disk, locks

LEMMA PutUnmarkType ==
  ASSUME Typed, NEW p \in Putters, PutUnmark(p) PROVE Typed'
<1>1. put[p].meta \in Metas
  BY DEF Typed, PutRec
<1>2. Unmarked(p) \in Metas
  BY <1>1 DEF Metas, Unmarked
<1>3. row' \in RowRec
  BY <1>2, MetaWrittenType DEF PutUnmark, Typed, RowRec
<1>4. put' \in [Putters -> PutRec]
  BY IdleTypes DEF PutUnmark, PutEnds, Typed
<1>5. chunkLock' \in [Chunks -> Putters \cup {Nobody, Crashed}]
  BY DEF PutUnmark, Typed, LocksTyped
<1> QED
  BY <1>1, <1>2, <1>3, <1>4, <1>5 DEF PutUnmark, Typed, DiskTyped, LocksTyped, disk

(* The finalize request:                                                     *)

LEMMA TaskEndsType ==
  ASSUME Typed, NEW t \in Tasks, TaskEnds(t)
  PROVE  task' \in [Tasks -> TaskRec] /\ finalLock' \in Tasks \cup {Nobody, Crashed}
  BY IdleTypes DEF TaskEnds, Unlocked, Typed, LocksTyped

LEMMA StagingType ==
  ASSUME Typed, RemoveStaging, UNCHANGED canonical PROVE DiskTyped'
  BY IdleTypes DEF RemoveStaging, Typed, DiskTyped, Contents

LEMMA FinalizeStartType ==
  ASSUME Typed, NEW t \in Tasks, FinalizeStart(t) PROVE Typed'
<1>1. task' \in [Tasks -> TaskRec]
  <2>1. row.status \in Statuses /\ row.meta.received \in Received
    BY DEF Typed, RowRec, Metas, Received
  <2>2. [IdleTask EXCEPT !.pc = "check", !.was = row.status,
                         !.received = row.meta.received] \in TaskRec
    BY <2>1, IdleTypes DEF TaskRec, TaskPcs
  <2> QED
    BY <2>2 DEF FinalizeStart, Typed
<1> QED
  BY <1>1 DEF FinalizeStart, Typed, DiskTyped, LocksTyped, disk

LEMMA FinalizeFindsDamageType ==
  ASSUME Typed, NEW t \in Tasks, FinalizeFindsDamage(t) PROVE Typed'
  BY IdleTypes, StatusTypes
  DEF FinalizeFindsDamage, Typed, DiskTyped, LocksTyped, disk, TaskRec, TaskPcs, TaskAt, TaskEnds,
      Unlocked, RowRec

LEMMA FinalizeFindsMissingType ==
  ASSUME Typed, NEW t \in Tasks, FinalizeFindsMissing(t) PROVE Typed'
  BY IdleTypes, StatusTypes
  DEF FinalizeFindsMissing, Typed, DiskTyped, LocksTyped, disk, TaskRec, TaskPcs, TaskAt, TaskEnds,
      Unlocked

LEMMA FinalizeCheckType ==
  ASSUME Typed, NEW t \in Tasks, FinalizeCheck(t) PROVE Typed'
<1>1. task' \in [Tasks -> TaskRec]
  <2>1. [task[t] EXCEPT !.pc = "verify", !.received = NoFiles] \in TaskRec
    BY IdleTypes DEF Typed, TaskRec, TaskPcs
  <2>2. task' = [task EXCEPT ![t] = [task[t] EXCEPT !.pc = "verify", !.received = NoFiles]]
    BY DEF FinalizeCheck, Typed
  <2> QED
    BY <2>1, <2>2 DEF Typed
<1> QED
  BY <1>1 DEF FinalizeCheck, Typed, DiskTyped, LocksTyped, disk, locks

LEMMA FinalizeVerifyType ==
  ASSUME Typed, NEW t \in Tasks, FinalizeVerify(t) PROVE Typed'
<1>1. row' \in RowRec
  BY StatusTypes, IdleTypes DEF FinalizeVerify, Typed, RowRec, TaskRec
<1>2. task' \in [Tasks -> TaskRec] /\ finalLock' \in Tasks \cup {Nobody, Crashed}
  BY StatusTypes, IdleTypes DEF FinalizeVerify, Typed, LocksTyped, locks, TaskRec, TaskPcs
<1> QED
  BY <1>1, <1>2 DEF FinalizeVerify, Typed, DiskTyped, LocksTyped, disk, locks

LEMMA FinalizeAssembleType ==
  ASSUME Typed, NEW t \in Tasks, FinalizeAssemble(t) PROVE Typed'
<1>1. file \in Contents
  BY DEF FinalizeAssemble, Contents
<1>2. [task[t] EXCEPT !.pc = IF IsDuplicate(file) THEN "duplicate" ELSE "finalizing",
                      !.image = file] \in TaskRec
  BY <1>1 DEF Typed, TaskRec, TaskPcs
<1>3. task' = [task EXCEPT ![t] =
              [task[t] EXCEPT !.pc = IF IsDuplicate(file) THEN "duplicate" ELSE "finalizing",
                              !.image = file]]
  BY DEF FinalizeAssemble, Typed
<1>4. task' \in [Tasks -> TaskRec]
  BY <1>2, <1>3 DEF Typed
<1>5. assembly' \in [Tasks -> Contents]
  BY <1>1 DEF FinalizeAssemble, Typed, DiskTyped
<1> QED
  BY <1>1, <1>2, <1>3, <1>4, <1>5 DEF FinalizeAssemble, Typed, DiskTyped, LocksTyped, locks

LEMMA FinalizeAssembleFailsType ==
  ASSUME Typed, NEW t \in Tasks, FinalizeAssembleFails(t) PROVE Typed'
  BY IdleTypes, StatusTypes
  DEF FinalizeAssembleFails, Typed, DiskTyped, LocksTyped, disk, locks, TaskRec, TaskPcs, TaskAt,
      TaskGoes

LEMMA FinalizeDuplicateType ==
  ASSUME Typed, NEW t \in Tasks, FinalizeDuplicate(t) PROVE Typed'
<1>1. row' \in RowRec
  BY StatusTypes, IdleTypes DEF FinalizeDuplicate, Typed, RowRec, TaskRec
<1>2. task' \in [Tasks -> TaskRec] /\ finalLock' \in Tasks \cup {Nobody, Crashed}
  BY StatusTypes, IdleTypes
  DEF FinalizeDuplicate, Typed, LocksTyped, TaskRec, TaskPcs, TaskEnds, Unlocked
<1>3. DiskTyped'
  BY IdleTypes DEF FinalizeDuplicate, RemoveStaging, Typed, DiskTyped
<1> QED
  BY <1>1, <1>2, <1>3 DEF FinalizeDuplicate, Typed, DiskTyped, LocksTyped

LEMMA FinalizeFinalizingType ==
  ASSUME Typed, NEW t \in Tasks, FinalizeFinalizing(t) PROVE Typed'
<1>1. task[t].image \in Contents
  BY DEF Typed, TaskRec
<1>2. Cardinality(Chunks) \in 0 .. Cardinality(Chunks)
  BY SizeType
<1>3. row' \in RowRec
  BY <1>1, <1>2, StatusTypes, IdleTypes DEF FinalizeFinalizing, Typed, RowRec
<1>4. task' \in [Tasks -> TaskRec] /\ finalLock' \in Tasks \cup {Nobody, Crashed}
  BY StatusTypes, IdleTypes DEF FinalizeFinalizing, Typed, LocksTyped, locks, TaskRec, TaskPcs
<1> QED
  BY <1>1, <1>2, <1>3, <1>4 DEF FinalizeFinalizing, Typed, DiskTyped, LocksTyped, disk, locks

LEMMA FinalizePromoteType ==
  ASSUME Typed, NEW t \in Tasks, FinalizePromote(t) PROVE Typed'
  BY IdleTypes, StatusTypes
  DEF FinalizePromote, Typed, DiskTyped, LocksTyped, locks, TaskRec, TaskPcs, TaskAt, TaskGoes

LEMMA FinalizePromoteFailsType ==
  ASSUME Typed, NEW t \in Tasks, FinalizePromoteFails(t) PROVE Typed'
  BY IdleTypes, StatusTypes
  DEF FinalizePromoteFails, Typed, DiskTyped, LocksTyped, disk, locks, TaskRec, TaskPcs, TaskAt,
      TaskGoes

LEMMA PostPromoteFailsType ==
  ASSUME Typed, NEW t \in Tasks, PostPromoteFails(t) PROVE Typed'
  BY IdleTypes, StatusTypes
  DEF PostPromoteFails, Typed, DiskTyped, LocksTyped, disk, locks, TaskRec, TaskPcs, TaskAt,
      TaskGoes

LEMMA FinalizeFailsType ==
  ASSUME Typed, NEW t \in Tasks, FinalizeFails(t) PROVE Typed'
<1>1. row' \in RowRec
  BY StatusTypes, IdleTypes DEF FinalizeFails, Typed, RowRec, TaskRec
<1>2. task' \in [Tasks -> TaskRec] /\ finalLock' \in Tasks \cup {Nobody, Crashed}
  BY StatusTypes, IdleTypes
  DEF FinalizeFails, Typed, LocksTyped, TaskRec, TaskPcs, TaskEnds, Unlocked
<1>3. DiskTyped'
  BY IdleTypes DEF FinalizeFails, Typed, DiskTyped
<1> QED
  BY <1>1, <1>2, <1>3 DEF FinalizeFails, Typed, DiskTyped, LocksTyped

LEMMA FinalizeCleanupType ==
  ASSUME Typed, NEW t \in Tasks, FinalizeCleanup(t) PROVE Typed'
<1>1. DiskTyped'
  BY StagingType DEF FinalizeCleanup
<1>2. task' \in [Tasks -> TaskRec] /\ finalLock' \in Tasks \cup {Nobody, Crashed}
  BY TaskEndsType DEF FinalizeCleanup
<1> QED
  BY <1>1, <1>2 DEF FinalizeCleanup, Typed, LocksTyped

(* Registration, by finalize, retry, repair and reconcile:                   *)

LEMMA RegisterFindsEvidenceType ==
  ASSUME Typed, NEW t \in Tasks, RegisterFindsEvidence(t) PROVE Typed'
<1>1. row' \in RowRec
  BY StatusTypes, IdleTypes DEF RegisterFindsEvidence, Typed, RowRec, TaskRec, Completed
<1>2. task' \in [Tasks -> TaskRec] /\ finalLock' \in Tasks \cup {Nobody, Crashed}
  BY StatusTypes, IdleTypes
  DEF RegisterFindsEvidence, Typed, LocksTyped, TaskRec, TaskPcs, TaskGoes, TaskEnds, Unlocked,
      TaskRegistered
<1> QED
  BY <1>1, <1>2 DEF RegisterFindsEvidence, Typed, DiskTyped, LocksTyped, disk

LEMMA RegisterFindsNoFileType ==
  ASSUME Typed, NEW t \in Tasks, RegisterFindsNoFile(t) PROVE Typed'
<1>1. row' \in RowRec
  BY StatusTypes DEF RegisterFindsNoFile, Typed, RowRec
<1>2. task' \in [Tasks -> TaskRec] /\ finalLock' \in Tasks \cup {Nobody, Crashed}
  BY TaskEndsType DEF RegisterFindsNoFile
<1> QED
  BY <1>1, <1>2 DEF RegisterFindsNoFile, Typed, DiskTyped, LocksTyped, disk

LEMMA RegisterRefusedType ==
  ASSUME Typed, NEW t \in Tasks, RegisterRefused(t) PROVE Typed'
<1>1. row' \in RowRec
  BY StatusTypes DEF RegisterRefused, Typed, RowRec
<1>2. task' \in [Tasks -> TaskRec] /\ finalLock' \in Tasks \cup {Nobody, Crashed}
  BY TaskEndsType DEF RegisterRefused
<1> QED
  BY <1>1, <1>2 DEF RegisterRefused, Typed, DiskTyped, LocksTyped, disk

LEMMA RegisterDuplicateType ==
  ASSUME Typed, NEW t \in Tasks, RegisterDuplicate(t) PROVE Typed'
<1>1. row' \in RowRec
  BY StatusTypes DEF RegisterDuplicate, Typed, RowRec
<1>2. task' \in [Tasks -> TaskRec] /\ finalLock' \in Tasks \cup {Nobody, Crashed}
  BY TaskEndsType DEF RegisterDuplicate
<1> QED
  BY <1>1, <1>2 DEF RegisterDuplicate, Typed, DiskTyped, LocksTyped, disk

LEMMA RegisterMarkType ==
  ASSUME Typed, NEW t \in Tasks, RegisterMark(t) PROVE Typed'
<1>1. row' \in RowRec
  BY DEF RegisterMark, Typed, RowRec
<1>2. task' \in [Tasks -> TaskRec]
  BY DEF RegisterMark, TaskGoes, Typed, TaskRec, TaskPcs
<1> QED
  BY <1>1, <1>2 DEF RegisterMark, Typed, DiskTyped, LocksTyped, disk, locks

LEMMA RegisterInsertType ==
  ASSUME Typed, NEW t \in Tasks, RegisterInsert(t) PROVE Typed'
  BY IdleTypes, StatusTypes
  DEF RegisterInsert, Typed, DiskTyped, LocksTyped, disk, locks, TaskRec, TaskPcs, TaskAt, TaskGoes,
      RowRec

LEMMA RegisterRacedType ==
  ASSUME Typed, NEW t \in Tasks, RegisterRaced(t) PROVE Typed'
<1>1. row' \in RowRec
  BY StatusTypes, IdleTypes DEF RegisterRaced, Typed, RowRec, TaskRec
<1>2. task' \in [Tasks -> TaskRec] /\ finalLock' \in Tasks \cup {Nobody, Crashed}
  BY StatusTypes, IdleTypes
  DEF RegisterRaced, Typed, LocksTyped, TaskRec, TaskPcs, TaskGoes, TaskEnds, Unlocked,
      TaskRegistered
<1> QED
  BY <1>1, <1>2 DEF RegisterRaced, Typed, DiskTyped, LocksTyped, disk

LEMMA RegisterFailsType ==
  ASSUME Typed, NEW t \in Tasks, RegisterFails(t) PROVE Typed'
<1>1. row' \in RowRec
  BY StatusTypes DEF RegisterFails, Typed, RowRec
<1>2. task' \in [Tasks -> TaskRec] /\ finalLock' \in Tasks \cup {Nobody, Crashed}
  BY TaskEndsType DEF RegisterFails
<1>3. evidence' \in Contents
  BY DEF RegisterFails, Typed, RowRec, Contents
<1> QED
  BY <1>1, <1>2, <1>3 DEF RegisterFails, Typed, DiskTyped, LocksTyped, disk

LEMMA RegisterPendingType ==
  ASSUME Typed, NEW t \in Tasks, RegisterPending(t) PROVE Typed'
<1>1. row' \in RowRec
  BY StatusTypes DEF RegisterPending, Typed, RowRec
<1>2. task' \in [Tasks -> TaskRec]
  BY DEF RegisterPending, TaskGoes, Typed, TaskRec, TaskPcs
<1> QED
  BY <1>1, <1>2 DEF RegisterPending, Typed, DiskTyped, LocksTyped, disk, locks

LEMMA RegisterCompleteType ==
  ASSUME Typed, NEW t \in Tasks, RegisterComplete(t) PROVE Typed'
<1>1. row' \in RowRec
  BY StatusTypes, IdleTypes DEF RegisterComplete, Typed, RowRec, TaskRec
<1>2. task' \in [Tasks -> TaskRec] /\ finalLock' \in Tasks \cup {Nobody, Crashed}
  BY StatusTypes, IdleTypes
  DEF RegisterComplete, Typed, LocksTyped, TaskRec, TaskPcs, TaskGoes, TaskEnds, Unlocked,
      TaskRegistered
<1> QED
  BY <1>1, <1>2 DEF RegisterComplete, Typed, DiskTyped, LocksTyped, disk

LEMMA RetryType ==
  ASSUME Typed, NEW t \in Tasks, Retry(t) PROVE Typed'
<1>1. task' \in [Tasks -> TaskRec]
  BY IdleTypes DEF Retry, TaskRegisters, Typed, TaskRec, TaskPcs
<1> QED
  BY <1>1 DEF Retry, Typed, DiskTyped, LocksTyped, disk, locks

LEMMA RepairType ==
  ASSUME Typed, NEW t \in Tasks, Repair(t) PROVE Typed'
<1>1. task' \in [Tasks -> TaskRec]
  BY IdleTypes DEF Repair, TaskRegisters, Typed, TaskRec, TaskPcs
<1> QED
  BY <1>1 DEF Repair, Typed, DiskTyped, LocksTyped, disk, locks

LEMMA ReconcileType ==
  ASSUME Typed, NEW t \in Tasks, Reconcile(t) PROVE Typed'
  BY IdleTypes, StatusTypes
  DEF Reconcile, Typed, DiskTyped, LocksTyped, disk, locks, TaskRec, TaskPcs, TaskAt, RowRec,
      TaskRegisters

LEMMA ReconcileReadType ==
  ASSUME Typed, ReconcileRead PROVE Typed'
  BY DEF ReconcileRead, Typed, DiskTyped, LocksTyped, disk, locks

LEMMA ReconcileInspectType ==
  ASSUME Typed, ReconcileInspect PROVE Typed'
  BY DEF ReconcileInspect, Typed, DiskTyped, LocksTyped, disk, locks

LEMMA ReconcileClosesType ==
  ASSUME Typed, ReconcileCloses PROVE Typed'
  BY IdleTypes, StatusTypes DEF ReconcileCloses, Typed, DiskTyped, LocksTyped, disk, locks, RowRec

LEMMA ReconcileLifecyclesType ==
  ASSUME Typed, ReconcileLifecycles PROVE Typed'
  BY IdleTypes, StatusTypes
  DEF ReconcileLifecycles, Typed, DiskTyped, LocksTyped, disk, locks, RowRec

(* Cancel, expiry, cleanup, the other upload and crashes:                    *)

LEMMA CancelReadType ==
  ASSUME Typed, CancelRead PROVE Typed'
  BY DEF CancelRead, Typed, DiskTyped, LocksTyped, disk, locks

LEMMA CancelCommitType ==
  ASSUME Typed, CancelCommit PROVE Typed'
<1>1. row' \in RowRec
  BY StatusTypes, IdleTypes DEF CancelCommit, Typed, RowRec
<1> QED
  BY <1>1 DEF CancelCommit, Typed, DiskTyped, LocksTyped, disk, locks

LEMMA CancelRemoveType ==
  ASSUME Typed, CancelRemove PROVE Typed'
  BY IdleTypes, StatusTypes
  DEF CancelRemove, Typed, DiskTyped, LocksTyped, locks, RemoveStaging, Contents

LEMMA TimePassesType ==
  ASSUME Typed, TimePasses PROVE Typed'
<1>1. row.age + 1 \in Fresh .. Expired
  BY DEF TimePasses, Typed, RowRec, Fresh, Expired
<1>2. row' \in RowRec
  BY <1>1 DEF TimePasses, Typed, RowRec
<1> QED
  BY <1>1, <1>2 DEF TimePasses, Typed, DiskTyped, LocksTyped, disk, locks

LEMMA SweepSelectType ==
  ASSUME Typed, SweepSelect PROVE Typed'
  BY IdleTypes, StatusTypes DEF SweepSelect, Typed, DiskTyped, LocksTyped, disk, locks

LEMMA SweepCommitType ==
  ASSUME Typed, SweepCommit PROVE Typed'
  BY IdleTypes, StatusTypes DEF SweepCommit, Typed, DiskTyped, LocksTyped, disk, locks, RowRec

LEMMA SweepRemoveType ==
  ASSUME Typed, SweepRemove PROVE Typed'
<1>1. DiskTyped'
  BY StagingType DEF SweepRemove
<1> QED
  BY <1>1 DEF SweepRemove, Typed, LocksTyped, locks

LEMMA AdminCleanupType ==
  ASSUME Typed, AdminCleanup PROVE Typed'
<1>1. DiskTyped'
  BY StagingType DEF AdminCleanup
<1> QED
  BY <1>1 DEF AdminCleanup, Typed, LocksTyped, locks

LEMMA TwinCheckType ==
  ASSUME Typed, TwinCheck PROVE Typed'
  BY IdleTypes, StatusTypes DEF TwinCheck, Typed, DiskTyped, LocksTyped, disk, locks

LEMMA TwinRegisterType ==
  ASSUME Typed, TwinRegister PROVE Typed'
  BY IdleTypes, StatusTypes DEF TwinRegister, Typed, DiskTyped, LocksTyped, disk, locks

LEMMA CrashType ==
  ASSUME Typed, Crash PROVE Typed'
  BY IdleTypes, StatusTypes, UploadConstants DEF Crash, Typed, DiskTyped, LocksTyped, disk, Orphaned

LEMMA LocksExpireType ==
  ASSUME Typed, LocksExpire PROVE Typed'
  BY IdleTypes, StatusTypes DEF LocksExpire, Typed, DiskTyped, LocksTyped, disk, Released

LEMMA TypeNext ==
  ASSUME Typed, [Next]_vars PROVE Typed'
<1>1. ASSUME NEW p \in Putters, NEW c \in Chunks, NEW b \in Bodies, PutStart(p, c, b)
      PROVE  Typed'
  BY <1>1, PutStartType
<1>2. ASSUME NEW p \in Putters, PutInspect(p) PROVE Typed'
  BY <1>2, PutInspectType
<1>3. ASSUME NEW p \in Putters, PutFindsExpired(p) PROVE Typed'
  BY <1>3, PutFindsExpiredType
<1>4. ASSUME NEW p \in Putters, PutFindsDamage(p) PROVE Typed'
  BY <1>4, PutFindsDamageType
<1>5. ASSUME NEW p \in Putters, PutRefused(p) PROVE Typed'
  BY <1>5, PutRefusedType
<1>6. ASSUME NEW p \in Putters, PutLock(p) PROVE Typed'
  BY <1>6, PutLockType
<1>7. ASSUME NEW p \in Putters, PutMark(p) PROVE Typed'
  BY <1>7, PutMarkType
<1>8. ASSUME NEW p \in Putters, PutWrite(p) PROVE Typed'
  BY <1>8, PutWriteType
<1>9. ASSUME NEW p \in Putters, PutWriteFails(p) PROVE Typed'
  BY <1>9, PutWriteFailsType
<1>10. ASSUME NEW p \in Putters, PutPlace(p) PROVE Typed'
  BY <1>10, PutPlaceType
<1>11. ASSUME NEW p \in Putters, PutFindsFile(p) PROVE Typed'
  BY <1>11, PutFindsFileType
<1>12. ASSUME NEW p \in Putters, PutLosesFile(p) PROVE Typed'
  BY <1>12, PutLosesFileType
<1>13. ASSUME NEW p \in Putters, PutRecordRefused(p) PROVE Typed'
  BY <1>13, PutRecordRefusedType
<1>14. ASSUME NEW p \in Putters, PutRecord(p) PROVE Typed'
  BY <1>14, PutRecordType
<1>15. ASSUME NEW p \in Putters, PutMerge(p) PROVE Typed'
  BY <1>15, PutMergeType
<1>16. ASSUME NEW p \in Putters, PutClear(p) PROVE Typed'
  BY <1>16, PutClearType
<1>17. ASSUME NEW p \in Putters, PutUnmark(p) PROVE Typed'
  BY <1>17, PutUnmarkType
<1>18. ASSUME NEW t \in Tasks, FinalizeStart(t) PROVE Typed'
  BY <1>18, FinalizeStartType
<1>19. ASSUME NEW t \in Tasks, FinalizeFindsDamage(t) PROVE Typed'
  BY <1>19, FinalizeFindsDamageType
<1>20. ASSUME NEW t \in Tasks, FinalizeFindsMissing(t) PROVE Typed'
  BY <1>20, FinalizeFindsMissingType
<1>21. ASSUME NEW t \in Tasks, FinalizeCheck(t) PROVE Typed'
  BY <1>21, FinalizeCheckType
<1>22. ASSUME NEW t \in Tasks, FinalizeVerify(t) PROVE Typed'
  BY <1>22, FinalizeVerifyType
<1>23. ASSUME NEW t \in Tasks, FinalizeAssemble(t) PROVE Typed'
  BY <1>23, FinalizeAssembleType
<1>24. ASSUME NEW t \in Tasks, FinalizeAssembleFails(t) PROVE Typed'
  BY <1>24, FinalizeAssembleFailsType
<1>25. ASSUME NEW t \in Tasks, FinalizeDuplicate(t) PROVE Typed'
  BY <1>25, FinalizeDuplicateType
<1>26. ASSUME NEW t \in Tasks, FinalizeFinalizing(t) PROVE Typed'
  BY <1>26, FinalizeFinalizingType
<1>27. ASSUME NEW t \in Tasks, FinalizePromote(t) PROVE Typed'
  BY <1>27, FinalizePromoteType
<1>28. ASSUME NEW t \in Tasks, FinalizePromoteFails(t) PROVE Typed'
  BY <1>28, FinalizePromoteFailsType
<1>29. ASSUME NEW t \in Tasks, PostPromoteFails(t) PROVE Typed'
  BY <1>29, PostPromoteFailsType
<1>30. ASSUME NEW t \in Tasks, FinalizeFails(t) PROVE Typed'
  BY <1>30, FinalizeFailsType
<1>31. ASSUME NEW t \in Tasks, FinalizeCleanup(t) PROVE Typed'
  BY <1>31, FinalizeCleanupType
<1>32. ASSUME NEW t \in Tasks, RegisterFindsEvidence(t) PROVE Typed'
  BY <1>32, RegisterFindsEvidenceType
<1>33. ASSUME NEW t \in Tasks, RegisterFindsNoFile(t) PROVE Typed'
  BY <1>33, RegisterFindsNoFileType
<1>34. ASSUME NEW t \in Tasks, RegisterRefused(t) PROVE Typed'
  BY <1>34, RegisterRefusedType
<1>35. ASSUME NEW t \in Tasks, RegisterDuplicate(t) PROVE Typed'
  BY <1>35, RegisterDuplicateType
<1>36. ASSUME NEW t \in Tasks, RegisterMark(t) PROVE Typed'
  BY <1>36, RegisterMarkType
<1>37. ASSUME NEW t \in Tasks, RegisterInsert(t) PROVE Typed'
  BY <1>37, RegisterInsertType
<1>38. ASSUME NEW t \in Tasks, RegisterRaced(t) PROVE Typed'
  BY <1>38, RegisterRacedType
<1>39. ASSUME NEW t \in Tasks, RegisterFails(t) PROVE Typed'
  BY <1>39, RegisterFailsType
<1>40. ASSUME NEW t \in Tasks, RegisterPending(t) PROVE Typed'
  BY <1>40, RegisterPendingType
<1>41. ASSUME NEW t \in Tasks, RegisterComplete(t) PROVE Typed'
  BY <1>41, RegisterCompleteType
<1>42. ASSUME NEW t \in Tasks, Retry(t) PROVE Typed'
  BY <1>42, RetryType
<1>43. ASSUME NEW t \in Tasks, Repair(t) PROVE Typed'
  BY <1>43, RepairType
<1>44. ASSUME NEW t \in Tasks, Reconcile(t) PROVE Typed'
  BY <1>44, ReconcileType
<1>45. CASE ReconcileRead
  BY <1>45, ReconcileReadType
<1>46. CASE ReconcileInspect
  BY <1>46, ReconcileInspectType
<1>47. CASE ReconcileCloses
  BY <1>47, ReconcileClosesType
<1>48. CASE ReconcileLifecycles
  BY <1>48, ReconcileLifecyclesType
<1>49. CASE CancelRead
  BY <1>49, CancelReadType
<1>50. CASE CancelCommit
  BY <1>50, CancelCommitType
<1>51. CASE CancelRemove
  BY <1>51, CancelRemoveType
<1>52. CASE TimePasses
  BY <1>52, TimePassesType
<1>53. CASE SweepSelect
  BY <1>53, SweepSelectType
<1>54. CASE SweepCommit
  BY <1>54, SweepCommitType
<1>55. CASE SweepRemove
  BY <1>55, SweepRemoveType
<1>56. CASE AdminCleanup
  BY <1>56, AdminCleanupType
<1>57. CASE TwinCheck
  BY <1>57, TwinCheckType
<1>58. CASE TwinRegister
  BY <1>58, TwinRegisterType
<1>59. CASE Crash
  BY <1>59, CrashType
<1>60. CASE LocksExpire
  BY <1>60, LocksExpireType
<1>61. CASE UNCHANGED vars
  BY <1>61 DEF vars, disk, locks, Typed, DiskTyped, LocksTyped
<1> QED
  BY <1>1, <1>2, <1>3, <1>4, <1>5, <1>6, <1>7, <1>8, <1>9, <1>10, <1>11, <1>12, <1>13, <1>14,
     <1>15, <1>16, <1>17, <1>18, <1>19, <1>20, <1>21, <1>22, <1>23, <1>24, <1>25, <1>26, <1>27,
     <1>28, <1>29, <1>30, <1>31, <1>32, <1>33, <1>34, <1>35, <1>36, <1>37, <1>38, <1>39, <1>40,
     <1>41, <1>42, <1>43, <1>44, <1>45, <1>46, <1>47, <1>48, <1>49, <1>50, <1>51, <1>52, <1>53,
     <1>54, <1>55, <1>56, <1>57, <1>58, <1>59, <1>60, <1>61
  DEF Next, PutSteps, TaskSteps, Recover

\* The row, the files, the locks and the requests in flight keep the shapes the
\* code gives them, through every interleaving of requests, cleanups and crashes.
THEOREM UploadTypeCorrect == Spec => []TypeOK
<1>1. Spec => []Typed
  BY InitType, TypeNext, PTL DEF Spec
<1> QED
  BY <1>1, TypedIsTypeOK, PTL

-----------------------------------------------------------------------------
(* A completed session has its Evidence row.                                 *)

\* What a request has found out and acts on later: _on_duplicate and the commit of
\* finalizing write an image that was assembled, _persist_evidence_minimal is only
\* reached with a hash in the row, and complete_registration only after the insert.
Asserted(x) ==
  /\ x.pc \in {"duplicate", "finalizing"} => x.image # NoBytes
  /\ x.pc = "insert" => row.sha # NoBytes
  /\ x.pc \in {"complete", "automate"} => evidence # NoBytes

\* CompletedIsRegistered is not inductive alone: a request that is about to write
\* completed relies on what it asserted when the row and the evidence were read.
Registered ==
  /\ CompletedIsRegistered
  /\ \A t \in Tasks : Asserted(task[t])

\* Steps that leave the requests alone: nothing un-registers an evidence or erases
\* the hash of the row, and they do not write completed.
LEMMA RegisteredFrame ==
  ASSUME Typed, Registered, UNCHANGED task,
         row.sha # NoBytes => row'.sha # NoBytes,
         evidence # NoBytes => evidence' # NoBytes,
         row'.status = "completed" => row.status = "completed"
  PROVE  Registered'
  BY DEF Registered, Asserted, CompletedIsRegistered

\* Steps of one finalize, retry, repair or reconcile request.
LEMMA RegisteredTask ==
  ASSUME Typed, Registered, NEW t \in Tasks,
         \A u \in Tasks : u # t => task'[u] = task[u],
         Asserted(task[t])',
         row.sha # NoBytes => row'.sha # NoBytes,
         evidence # NoBytes => evidence' # NoBytes,
         row'.status = "completed" => row.status = "completed" \/ evidence' # NoBytes
  PROVE  Registered'
  BY DEF Registered, Asserted, CompletedIsRegistered

LEMMA RegisteredNext ==
  ASSUME Typed, Registered, [Next]_vars PROVE Registered'
<1>1. ASSUME NEW p \in Putters, NEW c \in Chunks, NEW b \in Bodies, PutStart(p, c, b)
      PROVE  Registered'
  BY <1>1, RegisteredFrame DEF PutStart
<1>2. ASSUME NEW p \in Putters, PutInspect(p) PROVE Registered'
  BY <1>2, RegisteredFrame DEF PutInspect, Typed, RowRec
<1>3. ASSUME NEW p \in Putters, PutFindsExpired(p) PROVE Registered'
  BY <1>3, RegisteredFrame DEF PutFindsExpired, Typed, RowRec
<1>4. ASSUME NEW p \in Putters, PutFindsDamage(p) PROVE Registered'
  BY <1>4, RegisteredFrame DEF PutFindsDamage, Typed, RowRec
<1>5. ASSUME NEW p \in Putters, PutRefused(p) PROVE Registered'
  BY <1>5, RegisteredFrame DEF PutRefused
<1>6. ASSUME NEW p \in Putters, PutLock(p) PROVE Registered'
  BY <1>6, RegisteredFrame DEF PutLock
<1>7. ASSUME NEW p \in Putters, PutMark(p) PROVE Registered'
  BY <1>7, RegisteredFrame DEF PutMark, Typed, RowRec
<1>8. ASSUME NEW p \in Putters, PutWrite(p) PROVE Registered'
  BY <1>8, RegisteredFrame DEF PutWrite, Typed, RowRec
<1>9. ASSUME NEW p \in Putters, PutWriteFails(p) PROVE Registered'
  BY <1>9, RegisteredFrame DEF PutWriteFails, Typed, RowRec
<1>10. ASSUME NEW p \in Putters, PutPlace(p) PROVE Registered'
  BY <1>10, RegisteredFrame DEF PutPlace, Typed, RowRec
<1>11. ASSUME NEW p \in Putters, PutFindsFile(p) PROVE Registered'
  BY <1>11, RegisteredFrame DEF PutFindsFile, Typed, RowRec
<1>12. ASSUME NEW p \in Putters, PutLosesFile(p) PROVE Registered'
  BY <1>12, RegisteredFrame DEF PutLosesFile, Typed, RowRec
<1>13. ASSUME NEW p \in Putters, PutRecordRefused(p) PROVE Registered'
  BY <1>13, RegisteredFrame DEF PutRecordRefused, Typed, RowRec
<1>14. ASSUME NEW p \in Putters, PutRecord(p) PROVE Registered'
  BY <1>14, RegisteredFrame DEF PutRecord, Typed, RowRec
<1>15. ASSUME NEW p \in Putters, PutMerge(p) PROVE Registered'
  BY <1>15, RegisteredFrame DEF PutMerge, Typed, RowRec
<1>16. ASSUME NEW p \in Putters, PutClear(p) PROVE Registered'
  BY <1>16, RegisteredFrame DEF PutClear, Typed, RowRec
<1>17. ASSUME NEW p \in Putters, PutUnmark(p) PROVE Registered'
  BY <1>17, RegisteredFrame DEF PutUnmark, Typed, RowRec
<1>18. ASSUME NEW t \in Tasks, FinalizeStart(t) PROVE Registered'
  BY <1>18, RegisteredTask
  DEF FinalizeStart, TaskAt, IdleTask, Registered, Asserted, Typed, TaskRec, RowRec
<1>19. ASSUME NEW t \in Tasks, FinalizeFindsDamage(t) PROVE Registered'
  BY <1>19, RegisteredTask
  DEF FinalizeFindsDamage, TaskAt, TaskEnds, IdleTask, Registered, Asserted, Typed, TaskRec, RowRec
<1>20. ASSUME NEW t \in Tasks, FinalizeFindsMissing(t) PROVE Registered'
  BY <1>20, RegisteredTask
  DEF FinalizeFindsMissing, TaskAt, TaskEnds, IdleTask, Registered, Asserted, Typed, TaskRec, RowRec
<1>21. ASSUME NEW t \in Tasks, FinalizeCheck(t) PROVE Registered'
  BY <1>21, RegisteredTask DEF FinalizeCheck, TaskAt, Registered, Asserted, Typed, TaskRec, RowRec
<1>22. ASSUME NEW t \in Tasks, FinalizeVerify(t) PROVE Registered'
  BY <1>22, RegisteredTask DEF FinalizeVerify, TaskAt, Registered, Asserted, Typed, TaskRec, RowRec
<1>23. ASSUME NEW t \in Tasks, FinalizeAssemble(t) PROVE Registered'
  BY <1>23, RegisteredTask, UploadConstants
  DEF FinalizeAssemble, TaskAt, Asserted, Typed, TaskRec, Images
<1>24. ASSUME NEW t \in Tasks, FinalizeAssembleFails(t) PROVE Registered'
  BY <1>24, RegisteredTask
  DEF FinalizeAssembleFails, TaskAt, TaskGoes, Registered, Asserted, Typed, TaskRec, RowRec
<1>25. ASSUME NEW t \in Tasks, FinalizeDuplicate(t) PROVE Registered'
  BY <1>25, RegisteredTask
  DEF FinalizeDuplicate, TaskAt, TaskEnds, IdleTask, Registered, Asserted, Typed, TaskRec, RowRec
<1>26. ASSUME NEW t \in Tasks, FinalizeFinalizing(t) PROVE Registered'
  BY <1>26, RegisteredTask
  DEF FinalizeFinalizing, TaskAt, Registered, Asserted, Typed, TaskRec, RowRec
<1>27. ASSUME NEW t \in Tasks, FinalizePromote(t) PROVE Registered'
  BY <1>27, RegisteredTask
  DEF FinalizePromote, TaskAt, TaskGoes, Registered, Asserted, Typed, TaskRec, RowRec
<1>28. ASSUME NEW t \in Tasks, FinalizePromoteFails(t) PROVE Registered'
  BY <1>28, RegisteredTask
  DEF FinalizePromoteFails, TaskAt, TaskGoes, Registered, Asserted, Typed, TaskRec, RowRec
<1>29. ASSUME NEW t \in Tasks, PostPromoteFails(t) PROVE Registered'
  BY <1>29, RegisteredTask
  DEF PostPromoteFails, TaskAt, TaskGoes, Registered, Asserted, Typed, TaskRec, RowRec
<1>30. ASSUME NEW t \in Tasks, FinalizeFails(t) PROVE Registered'
  BY <1>30, RegisteredTask
  DEF FinalizeFails, TaskAt, TaskEnds, IdleTask, Registered, Asserted, Typed, TaskRec, RowRec
<1>31. ASSUME NEW t \in Tasks, FinalizeCleanup(t) PROVE Registered'
  BY <1>31, RegisteredTask
  DEF FinalizeCleanup, TaskAt, TaskEnds, IdleTask, Registered, Asserted, Typed, TaskRec, RowRec
<1>32. ASSUME NEW t \in Tasks, RegisterFindsEvidence(t) PROVE Registered'
  BY <1>32, RegisteredTask
  DEF RegisterFindsEvidence, Completed, TaskAt, TaskGoes, TaskEnds, TaskRegistered, IdleTask,
      Asserted, Typed, TaskRec, RowRec
<1>33. ASSUME NEW t \in Tasks, RegisterFindsNoFile(t) PROVE Registered'
  BY <1>33, RegisteredTask
  DEF RegisterFindsNoFile, TaskAt, TaskEnds, IdleTask, Registered, Asserted, Typed, TaskRec, RowRec
<1>34. ASSUME NEW t \in Tasks, RegisterRefused(t) PROVE Registered'
  BY <1>34, RegisteredTask
  DEF RegisterRefused, TaskAt, TaskEnds, IdleTask, Registered, Asserted, Typed, TaskRec, RowRec
<1>35. ASSUME NEW t \in Tasks, RegisterDuplicate(t) PROVE Registered'
  BY <1>35, RegisteredTask
  DEF RegisterDuplicate, TaskAt, TaskEnds, IdleTask, Registered, Asserted, Typed, TaskRec, RowRec
<1>36. ASSUME NEW t \in Tasks, RegisterMark(t) PROVE Registered'
  BY <1>36, RegisteredTask
  DEF RegisterMark, Registrable, TaskAt, TaskGoes, Asserted, Typed, TaskRec, RowRec
<1>37. ASSUME NEW t \in Tasks, RegisterInsert(t) PROVE Registered'
  BY <1>37, RegisteredTask
  DEF RegisterInsert, TaskAt, TaskGoes, Registered, Asserted, Typed, TaskRec, RowRec
<1>38. ASSUME NEW t \in Tasks, RegisterRaced(t) PROVE Registered'
  BY <1>38, RegisteredTask
  DEF RegisterRaced, TaskAt, TaskGoes, TaskEnds, TaskRegistered, IdleTask, Registered, Asserted,
      Typed, TaskRec, RowRec
<1>39. ASSUME NEW t \in Tasks, RegisterFails(t) PROVE Registered'
  BY <1>39, RegisteredTask
  DEF RegisterFails, TaskAt, TaskEnds, IdleTask, Registered, Asserted, Typed, TaskRec, RowRec
<1>40. ASSUME NEW t \in Tasks, RegisterPending(t) PROVE Registered'
  BY <1>40, RegisteredTask
  DEF RegisterPending, TaskAt, TaskGoes, Registered, Asserted, Typed, TaskRec, RowRec
<1>41. ASSUME NEW t \in Tasks, RegisterComplete(t) PROVE Registered'
  BY <1>41, RegisteredTask
  DEF RegisterComplete, TaskAt, TaskGoes, TaskEnds, TaskRegistered, IdleTask, Registered, Asserted,
      Typed, TaskRec, RowRec
<1>42. ASSUME NEW t \in Tasks, Retry(t) PROVE Registered'
  BY <1>42, RegisteredTask
  DEF Retry, TaskAt, TaskRegisters, IdleTask, Registered, Asserted, Typed, TaskRec, RowRec
<1>43. ASSUME NEW t \in Tasks, Repair(t) PROVE Registered'
  BY <1>43, RegisteredTask
  DEF Repair, TaskAt, TaskRegisters, IdleTask, Registered, Asserted, Typed, TaskRec, RowRec
<1>44. ASSUME NEW t \in Tasks, Reconcile(t) PROVE Registered'
  BY <1>44, RegisteredTask
  DEF Reconcile, TaskAt, TaskRegisters, IdleTask, Registered, Asserted, Typed, TaskRec, RowRec
<1>45. CASE ReconcileRead
  BY <1>45, RegisteredFrame DEF ReconcileRead, Typed, RowRec
<1>46. CASE ReconcileInspect
  BY <1>46, RegisteredFrame DEF ReconcileInspect, Typed, RowRec
<1>47. CASE ReconcileCloses
  BY <1>47, RegisteredFrame DEF ReconcileCloses, Typed, RowRec
<1>48. CASE ReconcileLifecycles
  BY <1>48, RegisteredFrame DEF ReconcileLifecycles, Typed, RowRec
<1>49. CASE CancelRead
  BY <1>49, RegisteredFrame DEF CancelRead, Typed, RowRec
<1>50. CASE CancelCommit
  BY <1>50, RegisteredFrame DEF CancelCommit, Typed, RowRec
<1>51. CASE CancelRemove
  BY <1>51, RegisteredFrame DEF CancelRemove, Typed, RowRec
<1>52. CASE TimePasses
  BY <1>52, RegisteredFrame DEF TimePasses, Typed, RowRec
<1>53. CASE SweepSelect
  BY <1>53, RegisteredFrame DEF SweepSelect, Typed, RowRec
<1>54. CASE SweepCommit
  BY <1>54, RegisteredFrame DEF SweepCommit, Typed, RowRec
<1>55. CASE SweepRemove
  BY <1>55, RegisteredFrame DEF SweepRemove, Typed, RowRec
<1>56. CASE AdminCleanup
  BY <1>56, RegisteredFrame DEF AdminCleanup, Typed, RowRec
<1>57. CASE TwinCheck
  BY <1>57, RegisteredFrame DEF TwinCheck, Typed, RowRec
<1>58. CASE TwinRegister
  BY <1>58, RegisteredFrame DEF TwinRegister, Typed, RowRec
<1>59. CASE Crash
  BY <1>59 DEF Crash, Registered, Asserted, CompletedIsRegistered, IdleTask
<1>60. CASE LocksExpire
  BY <1>60, RegisteredFrame DEF LocksExpire, Typed, RowRec
<1>61. CASE UNCHANGED vars
  BY <1>61, RegisteredFrame DEF vars
<1> QED
  BY <1>1, <1>2, <1>3, <1>4, <1>5, <1>6, <1>7, <1>8, <1>9, <1>10, <1>11, <1>12, <1>13, <1>14,
     <1>15, <1>16, <1>17, <1>18, <1>19, <1>20, <1>21, <1>22, <1>23, <1>24, <1>25, <1>26, <1>27,
     <1>28, <1>29, <1>30, <1>31, <1>32, <1>33, <1>34, <1>35, <1>36, <1>37, <1>38, <1>39, <1>40,
     <1>41, <1>42, <1>43, <1>44, <1>45, <1>46, <1>47, <1>48, <1>49, <1>50, <1>51, <1>52, <1>53,
     <1>54, <1>55, <1>56, <1>57, <1>58, <1>59, <1>60, <1>61
  DEF Next, PutSteps, TaskSteps, Recover

\* A session says completed only when its Evidence row exists, whichever of finalize,
\* retry, repair and reconcile completed it, in whatever order they and the cleanups
\* ran and wherever the server crashed.
THEOREM CompletedUploadIsRegistered == Spec => []CompletedIsRegistered
<1>1. Init => Registered
  BY DEF Init, Registered, Asserted, CompletedIsRegistered, IdleTask
<1>2. Spec => []Typed
  BY InitType, TypeNext, PTL DEF Spec
<1>3. Spec => []Registered
  BY <1>1, <1>2, RegisteredNext, PTL DEF Spec
<1>4. Registered => CompletedIsRegistered
  BY DEF Registered
<1> QED
  BY <1>3, <1>4, PTL

-----------------------------------------------------------------------------
(* What a chunk request carries; MemoryUploadRefinement needs it.            *)

\* A chunk request carries bytes from its start to its end.
BodiesOk == \A p \in Putters : put[p].pc # "idle" => put[p].body \in Bodies

LEMMA BodiesFrame ==
  ASSUME BodiesOk, UNCHANGED put PROVE BodiesOk'
  BY DEF BodiesOk

LEMMA BodiesNext ==
  ASSUME Typed, BodiesOk, [Next]_vars PROVE BodiesOk'
<1>1. ASSUME NEW p \in Putters, NEW c \in Chunks, NEW b \in Bodies, PutStart(p, c, b)
      PROVE  BodiesOk'
  BY <1>1, IdleTypes DEF PutStart, PutAt, BodiesOk, Typed, PutRec
<1>2. ASSUME NEW p \in Putters, PutInspect(p) PROVE BodiesOk'
  <2>1. \A q \in Putters : q # p => put'[q] = put[q]
    BY <1>2 DEF PutInspect, PutGoes, PutEnds, Typed
  <2>2. put'[p].pc = "idle" \/ put'[p].body = put[p].body
    <3>1. PutGoes(p, "damaged") => put'[p].body = put[p].body
      BY DEF PutGoes, Typed, PutRec
    <3>2. PutEnds(p) => put'[p].pc = "idle"
      BY IdleTypes DEF PutEnds, Typed
    <3>3. put' = [put EXCEPT ![p].pc = "lock", ![p].meta = NoMeta] => put'[p].body = put[p].body
      BY DEF Typed, PutRec
    <3> QED
      BY <1>2, <3>1, <3>2, <3>3 DEF PutInspect
  <2> QED
    BY <1>2, <2>1, <2>2 DEF PutInspect, PutAt, BodiesOk
<1>3. ASSUME NEW p \in Putters, PutFindsExpired(p) PROVE BodiesOk'
  BY <1>3, IdleTypes DEF PutFindsExpired, PutAt, PutEnds, BodiesOk, Typed, PutRec
<1>4. ASSUME NEW p \in Putters, PutFindsDamage(p) PROVE BodiesOk'
  BY <1>4, IdleTypes DEF PutFindsDamage, PutAt, PutEnds, BodiesOk, Typed, PutRec
<1>5. ASSUME NEW p \in Putters, PutRefused(p) PROVE BodiesOk'
  BY <1>5, IdleTypes DEF PutRefused, PutAt, PutEnds, BodiesOk, Typed, PutRec
<1>6. ASSUME NEW p \in Putters, PutLock(p) PROVE BodiesOk'
  BY <1>6, IdleTypes DEF PutLock, PutAt, BodiesOk, Typed, PutRec
<1>7. ASSUME NEW p \in Putters, PutMark(p) PROVE BodiesOk'
  BY <1>7, IdleTypes DEF PutMark, PutAt, PutGoes, BodiesOk, Typed, PutRec
<1>8. ASSUME NEW p \in Putters, PutWrite(p) PROVE BodiesOk'
  BY <1>8, IdleTypes DEF PutWrite, PutAt, PutGoes, BodiesOk, Typed, PutRec
<1>9. ASSUME NEW p \in Putters, PutWriteFails(p) PROVE BodiesOk'
  BY <1>9, IdleTypes DEF PutWriteFails, PutAt, BodiesOk, Typed, PutRec
<1>10. ASSUME NEW p \in Putters, PutPlace(p) PROVE BodiesOk'
  BY <1>10, IdleTypes DEF PutPlace, PutAt, BodiesOk, Typed, PutRec
<1>11. ASSUME NEW p \in Putters, PutFindsFile(p) PROVE BodiesOk'
  BY <1>11, IdleTypes DEF PutFindsFile, PutAt, BodiesOk, Typed, PutRec
<1>12. ASSUME NEW p \in Putters, PutLosesFile(p) PROVE BodiesOk'
  BY <1>12, IdleTypes DEF PutLosesFile, PutAt, BodiesOk, Typed, PutRec
<1>13. ASSUME NEW p \in Putters, PutRecordRefused(p) PROVE BodiesOk'
  BY <1>13, IdleTypes DEF PutRecordRefused, PutAt, BodiesOk, Typed, PutRec
<1>14. ASSUME NEW p \in Putters, PutRecord(p) PROVE BodiesOk'
  BY <1>14, IdleTypes DEF PutRecord, PutAt, BodiesOk, Typed, PutRec
<1>15. ASSUME NEW p \in Putters, PutMerge(p) PROVE BodiesOk'
  BY <1>15, IdleTypes DEF PutMerge, PutAt, BodiesOk, Typed, PutRec
<1>16. ASSUME NEW p \in Putters, PutClear(p) PROVE BodiesOk'
  BY <1>16, IdleTypes DEF PutClear, PutAt, BodiesOk, Typed, PutRec
<1>17. ASSUME NEW p \in Putters, PutUnmark(p) PROVE BodiesOk'
  BY <1>17, IdleTypes DEF PutUnmark, PutAt, PutEnds, BodiesOk, Typed, PutRec
<1>18. ASSUME NEW t \in Tasks, FinalizeStart(t) PROVE BodiesOk'
  BY <1>18, BodiesFrame DEF FinalizeStart
<1>19. ASSUME NEW t \in Tasks, FinalizeFindsDamage(t) PROVE BodiesOk'
  BY <1>19, BodiesFrame DEF FinalizeFindsDamage
<1>20. ASSUME NEW t \in Tasks, FinalizeFindsMissing(t) PROVE BodiesOk'
  BY <1>20, BodiesFrame DEF FinalizeFindsMissing
<1>21. ASSUME NEW t \in Tasks, FinalizeCheck(t) PROVE BodiesOk'
  BY <1>21, BodiesFrame DEF FinalizeCheck
<1>22. ASSUME NEW t \in Tasks, FinalizeVerify(t) PROVE BodiesOk'
  BY <1>22, BodiesFrame DEF FinalizeVerify
<1>23. ASSUME NEW t \in Tasks, FinalizeAssemble(t) PROVE BodiesOk'
  BY <1>23, BodiesFrame DEF FinalizeAssemble
<1>24. ASSUME NEW t \in Tasks, FinalizeAssembleFails(t) PROVE BodiesOk'
  BY <1>24, BodiesFrame DEF FinalizeAssembleFails
<1>25. ASSUME NEW t \in Tasks, FinalizeDuplicate(t) PROVE BodiesOk'
  BY <1>25, BodiesFrame DEF FinalizeDuplicate
<1>26. ASSUME NEW t \in Tasks, FinalizeFinalizing(t) PROVE BodiesOk'
  BY <1>26, BodiesFrame DEF FinalizeFinalizing
<1>27. ASSUME NEW t \in Tasks, FinalizePromote(t) PROVE BodiesOk'
  BY <1>27, BodiesFrame DEF FinalizePromote
<1>28. ASSUME NEW t \in Tasks, FinalizePromoteFails(t) PROVE BodiesOk'
  BY <1>28, BodiesFrame DEF FinalizePromoteFails
<1>29. ASSUME NEW t \in Tasks, PostPromoteFails(t) PROVE BodiesOk'
  BY <1>29, BodiesFrame DEF PostPromoteFails
<1>30. ASSUME NEW t \in Tasks, FinalizeFails(t) PROVE BodiesOk'
  BY <1>30, BodiesFrame DEF FinalizeFails
<1>31. ASSUME NEW t \in Tasks, FinalizeCleanup(t) PROVE BodiesOk'
  BY <1>31, BodiesFrame DEF FinalizeCleanup
<1>32. ASSUME NEW t \in Tasks, RegisterFindsEvidence(t) PROVE BodiesOk'
  BY <1>32, BodiesFrame DEF RegisterFindsEvidence
<1>33. ASSUME NEW t \in Tasks, RegisterFindsNoFile(t) PROVE BodiesOk'
  BY <1>33, BodiesFrame DEF RegisterFindsNoFile
<1>34. ASSUME NEW t \in Tasks, RegisterRefused(t) PROVE BodiesOk'
  BY <1>34, BodiesFrame DEF RegisterRefused
<1>35. ASSUME NEW t \in Tasks, RegisterDuplicate(t) PROVE BodiesOk'
  BY <1>35, BodiesFrame DEF RegisterDuplicate
<1>36. ASSUME NEW t \in Tasks, RegisterMark(t) PROVE BodiesOk'
  BY <1>36, BodiesFrame DEF RegisterMark
<1>37. ASSUME NEW t \in Tasks, RegisterInsert(t) PROVE BodiesOk'
  BY <1>37, BodiesFrame DEF RegisterInsert
<1>38. ASSUME NEW t \in Tasks, RegisterRaced(t) PROVE BodiesOk'
  BY <1>38, BodiesFrame DEF RegisterRaced
<1>39. ASSUME NEW t \in Tasks, RegisterFails(t) PROVE BodiesOk'
  BY <1>39, BodiesFrame DEF RegisterFails
<1>40. ASSUME NEW t \in Tasks, RegisterPending(t) PROVE BodiesOk'
  BY <1>40, BodiesFrame DEF RegisterPending
<1>41. ASSUME NEW t \in Tasks, RegisterComplete(t) PROVE BodiesOk'
  BY <1>41, BodiesFrame DEF RegisterComplete
<1>42. ASSUME NEW t \in Tasks, Retry(t) PROVE BodiesOk'
  BY <1>42, BodiesFrame DEF Retry
<1>43. ASSUME NEW t \in Tasks, Repair(t) PROVE BodiesOk'
  BY <1>43, BodiesFrame DEF Repair
<1>44. ASSUME NEW t \in Tasks, Reconcile(t) PROVE BodiesOk'
  BY <1>44, BodiesFrame DEF Reconcile
<1>45. CASE ReconcileRead
  BY <1>45, BodiesFrame DEF ReconcileRead
<1>46. CASE ReconcileInspect
  BY <1>46, BodiesFrame DEF ReconcileInspect
<1>47. CASE ReconcileCloses
  BY <1>47, BodiesFrame DEF ReconcileCloses
<1>48. CASE ReconcileLifecycles
  BY <1>48, BodiesFrame DEF ReconcileLifecycles
<1>49. CASE CancelRead
  BY <1>49, BodiesFrame DEF CancelRead
<1>50. CASE CancelCommit
  BY <1>50, BodiesFrame DEF CancelCommit
<1>51. CASE CancelRemove
  BY <1>51, BodiesFrame DEF CancelRemove
<1>52. CASE TimePasses
  BY <1>52, BodiesFrame DEF TimePasses
<1>53. CASE SweepSelect
  BY <1>53, BodiesFrame DEF SweepSelect
<1>54. CASE SweepCommit
  BY <1>54, BodiesFrame DEF SweepCommit
<1>55. CASE SweepRemove
  BY <1>55, BodiesFrame DEF SweepRemove
<1>56. CASE AdminCleanup
  BY <1>56, BodiesFrame DEF AdminCleanup
<1>57. CASE TwinCheck
  BY <1>57, BodiesFrame DEF TwinCheck
<1>58. CASE TwinRegister
  BY <1>58, BodiesFrame DEF TwinRegister
<1>59. CASE Crash
  BY <1>59, IdleTypes DEF Crash, BodiesOk
<1>60. CASE LocksExpire
  BY <1>60, BodiesFrame DEF LocksExpire
<1>61. CASE UNCHANGED vars
  BY <1>61, BodiesFrame DEF vars
<1> QED
  BY <1>1, <1>2, <1>3, <1>4, <1>5, <1>6, <1>7, <1>8, <1>9, <1>10, <1>11, <1>12, <1>13, <1>14,
     <1>15, <1>16, <1>17, <1>18, <1>19, <1>20, <1>21, <1>22, <1>23, <1>24, <1>25, <1>26, <1>27,
     <1>28, <1>29, <1>30, <1>31, <1>32, <1>33, <1>34, <1>35, <1>36, <1>37, <1>38, <1>39, <1>40,
     <1>41, <1>42, <1>43, <1>44, <1>45, <1>46, <1>47, <1>48, <1>49, <1>50, <1>51, <1>52, <1>53,
     <1>54, <1>55, <1>56, <1>57, <1>58, <1>59, <1>60, <1>61
  DEF Next, PutSteps, TaskSteps, Recover

-----------------------------------------------------------------------------
(* A registered image can be completed again.                                *)

\* The row keeps canonical_preserved and the file is there, or the case has another
\* evidence of the same image.
Backed == (row.preserved /\ canonical # NoBytes) \/ twin = "registered"

\* The inductive invariant: what the row says of a registered image already holds when
\* a request is about to insert the Evidence row, and the one step that removes an
\* evidence file, _on_duplicate, relies on the duplicate it found.
Recoverable ==
  /\ evidence # NoBytes => Backed
  /\ \A t \in Tasks : task[t].pc = "insert" => Backed
  /\ \A t \in Tasks : task[t].pc = "duplicate" => twin = "registered"

\* Steps that leave the requests, the file and the evidence alone.
LEMMA RecoverableFrame ==
  ASSUME Recoverable, UNCHANGED <<canonical, evidence, task>>,
         row.preserved => row'.preserved,
         twin = "registered" => twin' = "registered"
  PROVE  Recoverable'
  BY DEF Recoverable, Backed

\* Steps of one request that leave the file and the evidence alone.
LEMMA RecoverableTask ==
  ASSUME Recoverable, NEW t \in Tasks, UNCHANGED <<canonical, evidence, twin>>,
         \A u \in Tasks : u # t => task'[u] = task[u],
         row.preserved => row'.preserved,
         task'[t].pc = "insert" => Backed',
         task'[t].pc = "duplicate" => twin = "registered"
  PROVE  Recoverable'
  BY DEF Recoverable, Backed

LEMMA RecoverableNext ==
  ASSUME Typed, Registered, Recoverable, [Next]_vars PROVE Recoverable'
<1>1. ASSUME NEW p \in Putters, NEW c \in Chunks, NEW b \in Bodies, PutStart(p, c, b)
      PROVE  Recoverable'
  BY <1>1, RecoverableFrame DEF PutStart, disk, Typed, RowRec
<1>2. ASSUME NEW p \in Putters, PutInspect(p) PROVE Recoverable'
  BY <1>2, RecoverableFrame DEF PutInspect, disk, Typed, RowRec
<1>3. ASSUME NEW p \in Putters, PutFindsExpired(p) PROVE Recoverable'
  BY <1>3, RecoverableFrame DEF PutFindsExpired, disk, Typed, RowRec
<1>4. ASSUME NEW p \in Putters, PutFindsDamage(p) PROVE Recoverable'
  BY <1>4, RecoverableFrame DEF PutFindsDamage, disk, Typed, RowRec
<1>5. ASSUME NEW p \in Putters, PutRefused(p) PROVE Recoverable'
  BY <1>5, RecoverableFrame DEF PutRefused, disk, Typed, RowRec
<1>6. ASSUME NEW p \in Putters, PutLock(p) PROVE Recoverable'
  BY <1>6, RecoverableFrame DEF PutLock, disk, Typed, RowRec
<1>7. ASSUME NEW p \in Putters, PutMark(p) PROVE Recoverable'
  BY <1>7, RecoverableFrame DEF PutMark, disk, Typed, RowRec
<1>8. ASSUME NEW p \in Putters, PutWrite(p) PROVE Recoverable'
  BY <1>8, RecoverableFrame DEF PutWrite, Typed, RowRec
<1>9. ASSUME NEW p \in Putters, PutWriteFails(p) PROVE Recoverable'
  BY <1>9, RecoverableFrame DEF PutWriteFails, Typed, RowRec
<1>10. ASSUME NEW p \in Putters, PutPlace(p) PROVE Recoverable'
  BY <1>10, RecoverableFrame DEF PutPlace, Typed, RowRec
<1>11. ASSUME NEW p \in Putters, PutFindsFile(p) PROVE Recoverable'
  BY <1>11, RecoverableFrame DEF PutFindsFile, Typed, RowRec
<1>12. ASSUME NEW p \in Putters, PutLosesFile(p) PROVE Recoverable'
  BY <1>12, RecoverableFrame DEF PutLosesFile, disk, Typed, RowRec
<1>13. ASSUME NEW p \in Putters, PutRecordRefused(p) PROVE Recoverable'
  BY <1>13, RecoverableFrame DEF PutRecordRefused, disk, Typed, RowRec
<1>14. ASSUME NEW p \in Putters, PutRecord(p) PROVE Recoverable'
  BY <1>14, RecoverableFrame DEF PutRecord, disk, Typed, RowRec
<1>15. ASSUME NEW p \in Putters, PutMerge(p) PROVE Recoverable'
  BY <1>15, RecoverableFrame DEF PutMerge, disk, Typed, RowRec
<1>16. ASSUME NEW p \in Putters, PutClear(p) PROVE Recoverable'
  BY <1>16, RecoverableFrame DEF PutClear, disk, Typed, RowRec
<1>17. ASSUME NEW p \in Putters, PutUnmark(p) PROVE Recoverable'
  BY <1>17, RecoverableFrame DEF PutUnmark, disk, Typed, RowRec
<1>18. ASSUME NEW t \in Tasks, FinalizeStart(t) PROVE Recoverable'
  BY <1>18, RecoverableTask
  DEF FinalizeStart, disk, TaskAt, IdleTask, Typed, TaskRec, RowRec, Recoverable, Backed
<1>19. ASSUME NEW t \in Tasks, FinalizeFindsDamage(t) PROVE Recoverable'
  BY <1>19, RecoverableTask
  DEF FinalizeFindsDamage, disk, TaskAt, TaskEnds, IdleTask, Typed, TaskRec, RowRec, Recoverable,
      Backed
<1>20. ASSUME NEW t \in Tasks, FinalizeFindsMissing(t) PROVE Recoverable'
  BY <1>20, RecoverableTask
  DEF FinalizeFindsMissing, disk, TaskAt, TaskEnds, IdleTask, Typed, TaskRec, RowRec, Recoverable,
      Backed
<1>21. ASSUME NEW t \in Tasks, FinalizeCheck(t) PROVE Recoverable'
  BY <1>21, RecoverableTask
  DEF FinalizeCheck, disk, TaskAt, Typed, TaskRec, RowRec, Recoverable, Backed
<1>22. ASSUME NEW t \in Tasks, FinalizeVerify(t) PROVE Recoverable'
  BY <1>22, RecoverableTask
  DEF FinalizeVerify, disk, TaskAt, Typed, TaskRec, RowRec, Recoverable, Backed
<1>23. ASSUME NEW t \in Tasks, FinalizeAssemble(t) PROVE Recoverable'
  BY <1>23, RecoverableTask
  DEF FinalizeAssemble, IsDuplicate, TaskAt, Typed, TaskRec, Recoverable, Backed, RowRec
<1>24. ASSUME NEW t \in Tasks, FinalizeAssembleFails(t) PROVE Recoverable'
  BY <1>24, RecoverableTask
  DEF FinalizeAssembleFails, disk, TaskAt, TaskGoes, Typed, TaskRec, RowRec, Recoverable, Backed
<1>25. ASSUME NEW t \in Tasks, FinalizeDuplicate(t) PROVE Recoverable'
  BY <1>25
  DEF FinalizeDuplicate, TaskAt, TaskEnds, IdleTask, Recoverable, Backed, Typed, TaskRec, RowRec
<1>26. ASSUME NEW t \in Tasks, FinalizeFinalizing(t) PROVE Recoverable'
  BY <1>26, RecoverableTask
  DEF FinalizeFinalizing, disk, TaskAt, Typed, TaskRec, RowRec, Recoverable, Backed
<1>27. ASSUME NEW t \in Tasks, FinalizePromote(t) PROVE Recoverable'
  BY <1>27 DEF FinalizePromote, TaskAt, TaskGoes, Recoverable, Backed, Typed, TaskRec, RowRec
<1>28. ASSUME NEW t \in Tasks, FinalizePromoteFails(t) PROVE Recoverable'
  BY <1>28, RecoverableTask
  DEF FinalizePromoteFails, disk, TaskAt, TaskGoes, Typed, TaskRec, RowRec, Recoverable, Backed
<1>29. ASSUME NEW t \in Tasks, PostPromoteFails(t) PROVE Recoverable'
  BY <1>29, RecoverableTask
  DEF PostPromoteFails, disk, TaskAt, TaskGoes, Typed, TaskRec, RowRec, Recoverable, Backed
<1>30. ASSUME NEW t \in Tasks, FinalizeFails(t) PROVE Recoverable'
  BY <1>30, RecoverableTask
  DEF FinalizeFails, TaskAt, TaskEnds, IdleTask, Typed, TaskRec, RowRec, Recoverable, Backed
<1>31. ASSUME NEW t \in Tasks, FinalizeCleanup(t) PROVE Recoverable'
  BY <1>31, RecoverableTask
  DEF FinalizeCleanup, RemoveStaging, TaskAt, TaskEnds, IdleTask, Typed, TaskRec, RowRec,
      Recoverable, Backed
<1>32. ASSUME NEW t \in Tasks, RegisterFindsEvidence(t) PROVE Recoverable'
  BY <1>32, RecoverableTask
  DEF RegisterFindsEvidence, disk, Completed, TaskAt, TaskGoes, TaskEnds, TaskRegistered, IdleTask,
      Typed, TaskRec, RowRec, Recoverable, Backed
<1>33. ASSUME NEW t \in Tasks, RegisterFindsNoFile(t) PROVE Recoverable'
  BY <1>33
  DEF RegisterFindsNoFile, disk, TaskAt, TaskEnds, IdleTask, Recoverable, Backed, Typed, TaskRec,
      RowRec
<1>34. ASSUME NEW t \in Tasks, RegisterRefused(t) PROVE Recoverable'
  \* a request at its insert has a hash and a file, which only a duplicate's removal takes
  \* away: it would not have been refused
  <2>1. ASSUME NEW u \in Tasks, task[u].pc = "insert"
        PROVE  Registrable(t) \/ twin = "registered" \/ task[t].kind # "retry"
    BY <2>1 DEF Registrable, Registered, Asserted, Recoverable, Backed
  <2> QED
    BY <1>34, <2>1
    DEF RegisterRefused, disk, TaskAt, TaskEnds, IdleTask, Recoverable, Backed, Typed, TaskRec,
        RowRec
<1>35. ASSUME NEW t \in Tasks, RegisterDuplicate(t) PROVE Recoverable'
  BY <1>35, RecoverableTask
  DEF RegisterDuplicate, disk, TaskAt, TaskEnds, IdleTask, Typed, TaskRec, RowRec, Recoverable,
      Backed
<1>36. ASSUME NEW t \in Tasks, RegisterMark(t) PROVE Recoverable'
  BY <1>36, RecoverableTask
  DEF RegisterMark, disk, Registrable, TaskAt, TaskGoes, Typed, TaskRec, RowRec, Recoverable, Backed
<1>37. ASSUME NEW t \in Tasks, RegisterInsert(t) PROVE Recoverable'
  BY <1>37
  DEF RegisterInsert, disk, TaskAt, TaskGoes, TaskEnds, IdleTask, Recoverable, Backed, Typed,
      TaskRec, RowRec
<1>38. ASSUME NEW t \in Tasks, RegisterRaced(t) PROVE Recoverable'
  BY <1>38, RecoverableTask
  DEF RegisterRaced, disk, TaskAt, TaskGoes, TaskEnds, TaskRegistered, IdleTask, Typed, TaskRec,
      RowRec, Recoverable, Backed
<1>39. ASSUME NEW t \in Tasks, RegisterFails(t) PROVE Recoverable'
  BY <1>39
  DEF RegisterFails, disk, TaskAt, TaskGoes, TaskEnds, IdleTask, Recoverable, Backed, Typed,
      TaskRec, RowRec
<1>40. ASSUME NEW t \in Tasks, RegisterPending(t) PROVE Recoverable'
  BY <1>40, RecoverableTask
  DEF RegisterPending, disk, TaskAt, TaskGoes, Typed, TaskRec, RowRec, Recoverable, Backed
<1>41. ASSUME NEW t \in Tasks, RegisterComplete(t) PROVE Recoverable'
  BY <1>41, RecoverableTask
  DEF RegisterComplete, disk, TaskAt, TaskGoes, TaskEnds, TaskRegistered, IdleTask, Typed, TaskRec,
      RowRec, Recoverable, Backed
<1>42. ASSUME NEW t \in Tasks, Retry(t) PROVE Recoverable'
  BY <1>42, RecoverableTask
  DEF Retry, disk, TaskAt, TaskRegisters, IdleTask, Typed, TaskRec, RowRec, Recoverable, Backed
<1>43. ASSUME NEW t \in Tasks, Repair(t) PROVE Recoverable'
  BY <1>43, RecoverableTask
  DEF Repair, disk, TaskAt, TaskRegisters, IdleTask, Typed, TaskRec, RowRec, Recoverable, Backed
<1>44. ASSUME NEW t \in Tasks, Reconcile(t) PROVE Recoverable'
  BY <1>44, RecoverableTask
  DEF Reconcile, disk, TaskAt, TaskRegisters, IdleTask, Typed, TaskRec, RowRec, Recoverable, Backed
<1>45. CASE ReconcileRead
  BY <1>45, RecoverableFrame DEF ReconcileRead, disk, Typed, RowRec
<1>46. CASE ReconcileInspect
  BY <1>46, RecoverableFrame DEF ReconcileInspect, disk, Typed, RowRec
<1>47. CASE ReconcileCloses
  BY <1>47, RecoverableFrame DEF ReconcileCloses, disk, Typed, RowRec
<1>48. CASE ReconcileLifecycles
  BY <1>48, RecoverableFrame DEF ReconcileLifecycles, disk, Typed, RowRec
<1>49. CASE CancelRead
  BY <1>49, RecoverableFrame DEF CancelRead, disk, Typed, RowRec
<1>50. CASE CancelCommit
  BY <1>50, RecoverableFrame DEF CancelCommit, disk, Typed, RowRec
<1>51. CASE CancelRemove
  BY <1>51, RecoverableFrame DEF CancelRemove, Typed, RowRec
<1>52. CASE TimePasses
  BY <1>52, RecoverableFrame DEF TimePasses, disk, Typed, RowRec
<1>53. CASE SweepSelect
  BY <1>53, RecoverableFrame DEF SweepSelect, disk, Typed, RowRec
<1>54. CASE SweepCommit
  BY <1>54, RecoverableFrame DEF SweepCommit, disk, Typed, RowRec
<1>55. CASE SweepRemove
  BY <1>55, RecoverableFrame DEF SweepRemove, Typed, RowRec
<1>56. CASE AdminCleanup
  BY <1>56, RecoverableFrame DEF AdminCleanup, Typed, RowRec
<1>57. CASE TwinCheck
  BY <1>57, RecoverableFrame DEF TwinCheck, disk, Typed, RowRec
<1>58. CASE TwinRegister
  BY <1>58, RecoverableFrame DEF TwinRegister, disk, Typed, RowRec
<1>59. CASE Crash
  BY <1>59 DEF Crash, disk, Recoverable, Backed, IdleTask
<1>60. CASE LocksExpire
  BY <1>60, RecoverableFrame DEF LocksExpire, disk, Typed, RowRec
<1>61. CASE UNCHANGED vars
  BY <1>61, RecoverableFrame DEF vars, disk
<1> QED
  BY <1>1, <1>2, <1>3, <1>4, <1>5, <1>6, <1>7, <1>8, <1>9, <1>10, <1>11, <1>12, <1>13, <1>14,
     <1>15, <1>16, <1>17, <1>18, <1>19, <1>20, <1>21, <1>22, <1>23, <1>24, <1>25, <1>26, <1>27,
     <1>28, <1>29, <1>30, <1>31, <1>32, <1>33, <1>34, <1>35, <1>36, <1>37, <1>38, <1>39, <1>40,
     <1>41, <1>42, <1>43, <1>44, <1>45, <1>46, <1>47, <1>48, <1>49, <1>50, <1>51, <1>52, <1>53,
     <1>54, <1>55, <1>56, <1>57, <1>58, <1>59, <1>60, <1>61
  DEF Next, PutSteps, TaskSteps, Recover

\* A registered image can be completed again, whatever a cancel, a chunk request, a
\* reconcile, a sweep or another finalize that read the row earlier commits over its
\* status, and wherever the server crashed: the row keeps canonical_preserved, unless
\* the case has another evidence of the image.
THEOREM RegisteredStaysRecoverable == Spec => []RegisteredIsRecoverable
<1>1. Init => Registered /\ Recoverable
  BY DEF Init, Registered, Asserted, CompletedIsRegistered, Recoverable, IdleTask
<1>2. Spec => [](Typed /\ Registered /\ Recoverable)
  BY <1>1, InitType, TypeNext, RegisteredNext, RecoverableNext, PTL DEF Spec
<1>3. Recoverable => RegisteredIsRecoverable
  BY DEF Recoverable, Backed, RegisteredIsRecoverable
<1> QED
  BY <1>2, <1>3, PTL
=============================================================================
