----------------------- MODULE MemoryUploadRefinement -----------------------
(***************************************************************************)
(* When the client declares the hash of the image, MemoryUpload implements *)
(* UploadContract: for every number of chunks and of concurrent chunk,     *)
(* finalize, retry, repair and reconcile requests, with cancels, sweeps,   *)
(* errors, another upload of the image and any number of crashes.          *)
(***************************************************************************)
EXTENDS MemoryUploadProofs

\* The premise Declared # NoBytes is needed.  Without a declared hash two finalizes
\* around a crash may assemble different images, and the retry path registers the
\* hash of one for the file of the other, since it does not hash the file again.

Whole == {NoBytes, Declared}

\* What a finalize has computed or found out, and acts on later: an assembly file
\* only exists while every chunk file it was made from is in place, and a request
\* that found a duplicate, or a file to register, is not refuted by a later step.
TaskIsWhole(t) ==
  /\ task[t].image \in Whole
  /\ assembly[t] \in Whole
  /\ assembly[t] # NoBytes => file = Declared
  /\ task[t].pc = "duplicate" => twin = "registered"
  /\ task[t].pc = "insert" => canonical # NoBytes \/ twin = "registered"

\* The inductive invariant: every hash and every file, of the row, of the evidence
\* and of each request, is of the one image the client declared; and an evidence
\* has its file, unless the case has another evidence of the image.
OneImage ==
  /\ row.sha \in Whole
  /\ canonical \in Whole
  /\ evidence \in Whole
  /\ evidence # NoBytes => canonical # NoBytes \/ twin = "registered"
  /\ \A t \in Tasks : TaskIsWhole(t)

LEMMA DeclaredImage ==
  ASSUME Declared # NoBytes
  PROVE  /\ Declared \in Images
         /\ \A c \in Chunks : Declared[c] \in Bodies /\ Declared[c] # NoBytes
  BY UploadConstants DEF Images

LEMMA InitImage == Init => OneImage
  BY DEF Init, OneImage, TaskIsWhole, Whole, IdleTask

\* Steps that leave the bytes and the finalize requests alone.
LEMMA ImageFrame ==
  ASSUME OneImage, UNCHANGED <<file, assembly, canonical, evidence, task>>,
         row'.sha = row.sha,
         twin = "registered" => twin' = "registered"
  PROVE  OneImage'
  BY DEF OneImage, TaskIsWhole

\* Steps of one request that leave the bytes alone.
LEMMA ImageTask ==
  ASSUME OneImage, NEW t \in Tasks,
         \A u \in Tasks : u # t => task'[u] = task[u],
         UNCHANGED <<file, assembly, canonical, evidence, twin>>,
         row'.sha \in Whole,
         TaskIsWhole(t)'
  PROVE  OneImage'
  BY DEF OneImage, TaskIsWhole

\* Cancel, expiry and cleanup remove the staging directory with the assembly files.
LEMMA ImageRemoved ==
  ASSUME OneImage, RemoveStaging, UNCHANGED <<canonical, evidence, twin, row, task>>
  PROVE  OneImage'
  BY DEF OneImage, TaskIsWhole, RemoveStaging, Whole

LEMMA ImageNext ==
  ASSUME Declared # NoBytes, Typed, OneImage, [Next]_vars PROVE OneImage'
<1>1. ASSUME NEW p \in Putters, NEW c \in Chunks, NEW b \in Bodies, PutStart(p, c, b)
      PROVE  OneImage'
  BY <1>1, ImageFrame DEF PutStart, disk, Typed, RowRec
<1>2. ASSUME NEW p \in Putters, PutInspect(p) PROVE OneImage'
  BY <1>2, ImageFrame DEF PutInspect, disk, Typed, RowRec
<1>3. ASSUME NEW p \in Putters, PutFindsExpired(p) PROVE OneImage'
  BY <1>3, ImageFrame DEF PutFindsExpired, disk, Typed, RowRec
<1>4. ASSUME NEW p \in Putters, PutFindsDamage(p) PROVE OneImage'
  BY <1>4, ImageFrame DEF PutFindsDamage, disk, Typed, RowRec
<1>5. ASSUME NEW p \in Putters, PutRefused(p) PROVE OneImage'
  BY <1>5, ImageFrame DEF PutRefused, disk, Typed, RowRec
<1>6. ASSUME NEW p \in Putters, PutLock(p) PROVE OneImage'
  BY <1>6, ImageFrame DEF PutLock, disk, Typed, RowRec
<1>7. ASSUME NEW p \in Putters, PutMark(p) PROVE OneImage'
  BY <1>7, ImageFrame DEF PutMark, disk, Typed, RowRec
<1>8. ASSUME NEW p \in Putters, PutWrite(p) PROVE OneImage'
  BY <1>8, ImageFrame DEF PutWrite, Typed, RowRec
<1>9. ASSUME NEW p \in Putters, PutWriteFails(p) PROVE OneImage'
  BY <1>9, ImageFrame DEF PutWriteFails, Typed, RowRec
<1>10. ASSUME NEW p \in Putters, PutPlace(p) PROVE OneImage'
  \* a chunk is missing, so nothing has been assembled from the files of now
  <2>1. \A t \in Tasks : assembly[t] = NoBytes
    BY <1>10, DeclaredImage DEF PutPlace, OneImage, TaskIsWhole, Typed, PutRec
  <2> QED
    BY <1>10, <2>1 DEF PutPlace, OneImage, TaskIsWhole
<1>11. ASSUME NEW p \in Putters, PutFindsFile(p) PROVE OneImage'
  BY <1>11, ImageFrame DEF PutFindsFile, Typed, RowRec
<1>12. ASSUME NEW p \in Putters, PutLosesFile(p) PROVE OneImage'
  BY <1>12, ImageFrame DEF PutLosesFile, disk, Typed, RowRec
<1>13. ASSUME NEW p \in Putters, PutRecordRefused(p) PROVE OneImage'
  BY <1>13, ImageFrame DEF PutRecordRefused, disk, Typed, RowRec
<1>14. ASSUME NEW p \in Putters, PutRecord(p) PROVE OneImage'
  BY <1>14, ImageFrame DEF PutRecord, disk, Typed, RowRec
<1>15. ASSUME NEW p \in Putters, PutMerge(p) PROVE OneImage'
  BY <1>15, ImageFrame DEF PutMerge, disk, Typed, RowRec
<1>16. ASSUME NEW p \in Putters, PutClear(p) PROVE OneImage'
  BY <1>16, ImageFrame DEF PutClear, disk, Typed, RowRec
<1>17. ASSUME NEW p \in Putters, PutUnmark(p) PROVE OneImage'
  BY <1>17, ImageFrame DEF PutUnmark, disk, Typed, RowRec
<1>18. ASSUME NEW t \in Tasks, FinalizeStart(t) PROVE OneImage'
  BY <1>18, ImageTask
  DEF FinalizeStart, disk, TaskAt, IdleTask, OneImage, TaskIsWhole, Whole, Typed, TaskRec, RowRec
<1>19. ASSUME NEW t \in Tasks, FinalizeFindsDamage(t) PROVE OneImage'
  BY <1>19, ImageTask
  DEF FinalizeFindsDamage, disk, TaskAt, TaskEnds, IdleTask, OneImage, TaskIsWhole, Whole, Typed,
      TaskRec, RowRec
<1>20. ASSUME NEW t \in Tasks, FinalizeFindsMissing(t) PROVE OneImage'
  BY <1>20, ImageTask
  DEF FinalizeFindsMissing, disk, TaskAt, TaskEnds, IdleTask, OneImage, TaskIsWhole, Whole, Typed,
      TaskRec, RowRec
<1>21. ASSUME NEW t \in Tasks, FinalizeCheck(t) PROVE OneImage'
  BY <1>21, ImageTask
  DEF FinalizeCheck, disk, TaskAt, OneImage, TaskIsWhole, Whole, Typed, TaskRec, RowRec
<1>22. ASSUME NEW t \in Tasks, FinalizeVerify(t) PROVE OneImage'
  BY <1>22, ImageTask
  DEF FinalizeVerify, disk, TaskAt, OneImage, TaskIsWhole, Whole, Typed, TaskRec, RowRec
<1>23. ASSUME NEW t \in Tasks, FinalizeAssemble(t) PROVE OneImage'
  BY <1>23
  DEF FinalizeAssemble, IsDuplicate, TaskAt, OneImage, TaskIsWhole, Whole, Typed, DiskTyped,
      TaskRec, RowRec
<1>24. ASSUME NEW t \in Tasks, FinalizeAssembleFails(t) PROVE OneImage'
  BY <1>24, ImageTask
  DEF FinalizeAssembleFails, disk, TaskAt, TaskGoes, OneImage, TaskIsWhole, Whole, Typed, TaskRec,
      RowRec
<1>25. ASSUME NEW t \in Tasks, FinalizeDuplicate(t) PROVE OneImage'
  BY <1>25
  DEF FinalizeDuplicate, RemoveStaging, TaskAt, TaskEnds, IdleTask, OneImage, TaskIsWhole, Whole,
      Typed, TaskRec, RowRec
<1>26. ASSUME NEW t \in Tasks, FinalizeFinalizing(t) PROVE OneImage'
  BY <1>26, ImageTask
  DEF FinalizeFinalizing, disk, TaskAt, OneImage, TaskIsWhole, Whole, Typed, TaskRec, RowRec
<1>27. ASSUME NEW t \in Tasks, FinalizePromote(t) PROVE OneImage'
  BY <1>27
  DEF FinalizePromote, TaskAt, TaskGoes, OneImage, TaskIsWhole, Whole, Typed, DiskTyped, TaskRec,
      RowRec
<1>28. ASSUME NEW t \in Tasks, FinalizePromoteFails(t) PROVE OneImage'
  BY <1>28, ImageTask
  DEF FinalizePromoteFails, disk, TaskAt, TaskGoes, OneImage, TaskIsWhole, Whole, Typed, TaskRec,
      RowRec
<1>29. ASSUME NEW t \in Tasks, PostPromoteFails(t) PROVE OneImage'
  BY <1>29, ImageTask
  DEF PostPromoteFails, disk, TaskAt, TaskGoes, OneImage, TaskIsWhole, Whole, Typed, TaskRec, RowRec
<1>30. ASSUME NEW t \in Tasks, FinalizeFails(t) PROVE OneImage'
  BY <1>30
  DEF FinalizeFails, TaskAt, TaskEnds, IdleTask, OneImage, TaskIsWhole, Whole, Typed, DiskTyped,
      TaskRec, RowRec
<1>31. ASSUME NEW t \in Tasks, FinalizeCleanup(t) PROVE OneImage'
  BY <1>31
  DEF FinalizeCleanup, RemoveStaging, TaskAt, TaskEnds, IdleTask, OneImage, TaskIsWhole, Whole,
      Typed, TaskRec
<1>32. ASSUME NEW t \in Tasks, RegisterFindsEvidence(t) PROVE OneImage'
  BY <1>32, ImageTask
  DEF RegisterFindsEvidence, Completed, disk, TaskAt, TaskGoes, TaskEnds, TaskRegistered, IdleTask,
      OneImage, TaskIsWhole, Whole, Typed, TaskRec, RowRec
<1>33. ASSUME NEW t \in Tasks, RegisterFindsNoFile(t) PROVE OneImage'
  BY <1>33, ImageTask
  DEF RegisterFindsNoFile, disk, TaskAt, TaskEnds, IdleTask, OneImage, TaskIsWhole, Whole, Typed,
      TaskRec, RowRec
<1>34. ASSUME NEW t \in Tasks, RegisterRefused(t) PROVE OneImage'
  BY <1>34, ImageTask
  DEF RegisterRefused, disk, TaskAt, TaskEnds, IdleTask, OneImage, TaskIsWhole, Whole, Typed,
      TaskRec, RowRec
<1>35. ASSUME NEW t \in Tasks, RegisterDuplicate(t) PROVE OneImage'
  BY <1>35, ImageTask
  DEF RegisterDuplicate, disk, TaskAt, TaskEnds, IdleTask, OneImage, TaskIsWhole, Whole, Typed,
      TaskRec, RowRec
<1>36. ASSUME NEW t \in Tasks, RegisterMark(t) PROVE OneImage'
  BY <1>36, ImageTask
  DEF RegisterMark, Registrable, disk, TaskAt, TaskGoes, OneImage, TaskIsWhole, Whole, Typed,
      TaskRec, RowRec
<1>37. ASSUME NEW t \in Tasks, RegisterInsert(t) PROVE OneImage'
  BY <1>37
  DEF RegisterInsert, disk, TaskAt, TaskGoes, OneImage, TaskIsWhole, Whole, Typed, TaskRec, RowRec
<1>38. ASSUME NEW t \in Tasks, RegisterRaced(t) PROVE OneImage'
  BY <1>38, ImageTask
  DEF RegisterRaced, disk, TaskAt, TaskGoes, TaskEnds, TaskRegistered, IdleTask, OneImage,
      TaskIsWhole, Whole, Typed, TaskRec, RowRec
<1>39. ASSUME NEW t \in Tasks, RegisterFails(t) PROVE OneImage'
  BY <1>39
  DEF RegisterFails, disk, TaskAt, TaskEnds, IdleTask, OneImage, TaskIsWhole, Whole, Typed, TaskRec,
      RowRec
<1>40. ASSUME NEW t \in Tasks, RegisterPending(t) PROVE OneImage'
  BY <1>40, ImageTask
  DEF RegisterPending, disk, TaskAt, TaskGoes, OneImage, TaskIsWhole, Whole, Typed, TaskRec, RowRec
<1>41. ASSUME NEW t \in Tasks, RegisterComplete(t) PROVE OneImage'
  BY <1>41, ImageTask
  DEF RegisterComplete, disk, TaskAt, TaskGoes, TaskEnds, TaskRegistered, IdleTask, OneImage,
      TaskIsWhole, Whole, Typed, TaskRec, RowRec
<1>42. ASSUME NEW t \in Tasks, Retry(t) PROVE OneImage'
  BY <1>42, ImageTask
  DEF Retry, disk, TaskAt, TaskRegisters, IdleTask, OneImage, TaskIsWhole, Whole, Typed, TaskRec,
      RowRec
<1>43. ASSUME NEW t \in Tasks, Repair(t) PROVE OneImage'
  BY <1>43, ImageTask
  DEF Repair, disk, TaskAt, TaskRegisters, IdleTask, OneImage, TaskIsWhole, Whole, Typed, TaskRec,
      RowRec
<1>44. ASSUME NEW t \in Tasks, Reconcile(t) PROVE OneImage'
  BY <1>44, ImageTask
  DEF Reconcile, disk, TaskAt, TaskRegisters, IdleTask, OneImage, TaskIsWhole, Whole, Typed,
      TaskRec, RowRec
<1>45. CASE ReconcileRead
  BY <1>45, ImageFrame DEF ReconcileRead, disk, Typed, RowRec
<1>46. CASE ReconcileInspect
  BY <1>46, ImageFrame DEF ReconcileInspect, disk, Typed, RowRec
<1>47. CASE ReconcileCloses
  BY <1>47, ImageFrame DEF ReconcileCloses, disk, Typed, RowRec
<1>48. CASE ReconcileLifecycles
  BY <1>48, ImageFrame DEF ReconcileLifecycles, disk, Typed, RowRec
<1>49. CASE CancelRead
  BY <1>49, ImageFrame DEF CancelRead, disk, Typed, RowRec
<1>50. CASE CancelCommit
  BY <1>50, ImageFrame DEF CancelCommit, disk, Typed, RowRec
<1>51. CASE CancelRemove
  BY <1>51, ImageRemoved DEF CancelRemove
<1>52. CASE TimePasses
  BY <1>52, ImageFrame DEF TimePasses, disk, Typed, RowRec
<1>53. CASE SweepSelect
  BY <1>53, ImageFrame DEF SweepSelect, disk, Typed, RowRec
<1>54. CASE SweepCommit
  BY <1>54, ImageFrame DEF SweepCommit, disk, Typed, RowRec
<1>55. CASE SweepRemove
  BY <1>55, ImageRemoved DEF SweepRemove
<1>56. CASE AdminCleanup
  BY <1>56, ImageRemoved DEF AdminCleanup
<1>57. CASE TwinCheck
  BY <1>57, ImageFrame DEF TwinCheck, disk, Typed, RowRec
<1>58. CASE TwinRegister
  BY <1>58, ImageFrame DEF TwinRegister, disk, Typed, RowRec
<1>59. CASE Crash
  BY <1>59 DEF Crash, disk, OneImage, TaskIsWhole, Whole, IdleTask
<1>60. CASE LocksExpire
  BY <1>60, ImageFrame DEF LocksExpire, disk, Typed, RowRec
<1>61. CASE UNCHANGED vars
  BY <1>61, ImageFrame DEF vars, disk
<1> QED
  BY <1>1, <1>2, <1>3, <1>4, <1>5, <1>6, <1>7, <1>8, <1>9, <1>10, <1>11, <1>12, <1>13, <1>14,
     <1>15, <1>16, <1>17, <1>18, <1>19, <1>20, <1>21, <1>22, <1>23, <1>24, <1>25, <1>26, <1>27,
     <1>28, <1>29, <1>30, <1>31, <1>32, <1>33, <1>34, <1>35, <1>36, <1>37, <1>38, <1>39, <1>40,
     <1>41, <1>42, <1>43, <1>44, <1>45, <1>46, <1>47, <1>48, <1>49, <1>50, <1>51, <1>52, <1>53,
     <1>54, <1>55, <1>56, <1>57, <1>58, <1>59, <1>60, <1>61
  DEF Next, PutSteps, TaskSteps, Recover

\* The bytes an Evidence row was registered with stay in canonical storage: no later
\* finalize, cancel, sweep, retry or crash replaces or removes them, unless the case
\* has another evidence of the same image, as whose duplicate they may be dropped.
THEOREM RegisteredImageIsKept == Declared # NoBytes => (Spec => []ImageIsKept)
<1> SUFFICES ASSUME Declared # NoBytes PROVE Spec => []ImageIsKept
  OBVIOUS
<1>1. Spec => [](Typed /\ OneImage)
  BY InitType, InitImage, TypeNext, ImageNext, PTL DEF Spec
<1>2. OneImage => ImageIsKept
  BY DEF OneImage, ImageIsKept, Whole
<1> QED
  BY <1>1, <1>2, PTL

-----------------------------------------------------------------------------
(* Every step is a step of the contract, or leaves its variables alone.      *)

ContractStep == [Contract!Next]_(Contract!contract)

LEMMA ContractStutters ==
  ASSUME UNCHANGED <<file, canonical, evidence, twin>> PROVE ContractStep
  BY DEF ContractStep, Contract!contract

LEMMA ContractDiscards ==
  ASSUME RemoveStaging, UNCHANGED <<canonical, evidence, twin>> PROVE ContractStep
  BY DEF ContractStep, RemoveStaging, Contract!Next, Contract!Discard, Contract!Nothing, NoFiles

\* The step of the contract each step of the session is.
LEMMA ContractNext ==
  ASSUME Declared # NoBytes, Typed, BodiesOk, Registered, OneImage, [Next]_vars PROVE ContractStep
<1>1. ASSUME NEW p \in Putters, NEW c \in Chunks, NEW b \in Bodies, PutStart(p, c, b)
      PROVE  ContractStep
  BY <1>1, ContractStutters DEF PutStart, disk
<1>2. ASSUME NEW p \in Putters, PutInspect(p) PROVE ContractStep
  BY <1>2, ContractStutters DEF PutInspect, disk
<1>3. ASSUME NEW p \in Putters, PutFindsExpired(p) PROVE ContractStep
  BY <1>3, ContractStutters DEF PutFindsExpired, disk
<1>4. ASSUME NEW p \in Putters, PutFindsDamage(p) PROVE ContractStep
  BY <1>4, ContractStutters DEF PutFindsDamage, disk
<1>5. ASSUME NEW p \in Putters, PutRefused(p) PROVE ContractStep
  BY <1>5, ContractStutters DEF PutRefused, disk
<1>6. ASSUME NEW p \in Putters, PutLock(p) PROVE ContractStep
  BY <1>6, ContractStutters DEF PutLock, disk
<1>7. ASSUME NEW p \in Putters, PutMark(p) PROVE ContractStep
  BY <1>7, ContractStutters DEF PutMark, disk
<1>8. ASSUME NEW p \in Putters, PutWrite(p) PROVE ContractStep
  BY <1>8, ContractStutters DEF PutWrite
<1>9. ASSUME NEW p \in Putters, PutWriteFails(p) PROVE ContractStep
  BY <1>9, ContractStutters DEF PutWriteFails
<1>10. ASSUME NEW p \in Putters, PutPlace(p) PROVE ContractStep
  <2>1. put[p].chunk \in Chunks /\ put[p].body \in Bodies
    BY <1>10 DEF PutPlace, PutAt, BodiesOk, Typed, PutRec
  <2>2. Contract!Stage(put[p].chunk, put[p].body)
    BY <1>10 DEF PutPlace, Contract!Stage
  <2> QED
    BY <2>1, <2>2 DEF ContractStep, Contract!Next
<1>11. ASSUME NEW p \in Putters, PutFindsFile(p) PROVE ContractStep
  BY <1>11, ContractStutters DEF PutFindsFile
<1>12. ASSUME NEW p \in Putters, PutLosesFile(p) PROVE ContractStep
  BY <1>12, ContractStutters DEF PutLosesFile, disk
<1>13. ASSUME NEW p \in Putters, PutRecordRefused(p) PROVE ContractStep
  BY <1>13, ContractStutters DEF PutRecordRefused, disk
<1>14. ASSUME NEW p \in Putters, PutRecord(p) PROVE ContractStep
  BY <1>14, ContractStutters DEF PutRecord, disk
<1>15. ASSUME NEW p \in Putters, PutMerge(p) PROVE ContractStep
  BY <1>15, ContractStutters DEF PutMerge, disk
<1>16. ASSUME NEW p \in Putters, PutClear(p) PROVE ContractStep
  BY <1>16, ContractStutters DEF PutClear, disk
<1>17. ASSUME NEW p \in Putters, PutUnmark(p) PROVE ContractStep
  BY <1>17, ContractStutters DEF PutUnmark, disk
<1>18. ASSUME NEW t \in Tasks, FinalizeStart(t) PROVE ContractStep
  BY <1>18, ContractStutters DEF FinalizeStart, disk
<1>19. ASSUME NEW t \in Tasks, FinalizeFindsDamage(t) PROVE ContractStep
  BY <1>19, ContractStutters DEF FinalizeFindsDamage, disk
<1>20. ASSUME NEW t \in Tasks, FinalizeFindsMissing(t) PROVE ContractStep
  BY <1>20, ContractStutters DEF FinalizeFindsMissing, disk
<1>21. ASSUME NEW t \in Tasks, FinalizeCheck(t) PROVE ContractStep
  BY <1>21, ContractStutters DEF FinalizeCheck, disk
<1>22. ASSUME NEW t \in Tasks, FinalizeVerify(t) PROVE ContractStep
  BY <1>22, ContractStutters DEF FinalizeVerify, disk
<1>23. ASSUME NEW t \in Tasks, FinalizeAssemble(t) PROVE ContractStep
  BY <1>23, ContractStutters DEF FinalizeAssemble
<1>24. ASSUME NEW t \in Tasks, FinalizeAssembleFails(t) PROVE ContractStep
  BY <1>24, ContractStutters DEF FinalizeAssembleFails, disk
<1>25. ASSUME NEW t \in Tasks, FinalizeDuplicate(t) PROVE ContractStep
  <2>1. Contract!Withdraw
    BY <1>25
    DEF FinalizeDuplicate, RemoveStaging, TaskAt, OneImage, TaskIsWhole, Contract!Withdraw,
        Contract!Nothing, NoFiles
  <2> QED
    BY <2>1 DEF ContractStep, Contract!Next
<1>26. ASSUME NEW t \in Tasks, FinalizeFinalizing(t) PROVE ContractStep
  BY <1>26, ContractStutters DEF FinalizeFinalizing, disk
<1>27. ASSUME NEW t \in Tasks, FinalizePromote(t) PROVE ContractStep
  <2>1. Contract!Seal
    BY <1>27, DeclaredImage
    DEF FinalizePromote, OneImage, TaskIsWhole, Whole, Contract!Seal, Contract!Images, Images
  <2> QED
    BY <2>1 DEF ContractStep, Contract!Next
<1>28. ASSUME NEW t \in Tasks, FinalizePromoteFails(t) PROVE ContractStep
  BY <1>28, ContractStutters DEF FinalizePromoteFails, disk
<1>29. ASSUME NEW t \in Tasks, PostPromoteFails(t) PROVE ContractStep
  BY <1>29, ContractStutters DEF PostPromoteFails, disk
<1>30. ASSUME NEW t \in Tasks, FinalizeFails(t) PROVE ContractStep
  BY <1>30, ContractStutters DEF FinalizeFails
<1>31. ASSUME NEW t \in Tasks, FinalizeCleanup(t) PROVE ContractStep
  BY <1>31, ContractDiscards DEF FinalizeCleanup
<1>32. ASSUME NEW t \in Tasks, RegisterFindsEvidence(t) PROVE ContractStep
  BY <1>32, ContractStutters DEF RegisterFindsEvidence, disk
<1>33. ASSUME NEW t \in Tasks, RegisterFindsNoFile(t) PROVE ContractStep
  BY <1>33, ContractStutters DEF RegisterFindsNoFile, disk
<1>34. ASSUME NEW t \in Tasks, RegisterRefused(t) PROVE ContractStep
  BY <1>34, ContractStutters DEF RegisterRefused, disk
<1>35. ASSUME NEW t \in Tasks, RegisterDuplicate(t) PROVE ContractStep
  BY <1>35, ContractStutters DEF RegisterDuplicate, disk
<1>36. ASSUME NEW t \in Tasks, RegisterMark(t) PROVE ContractStep
  BY <1>36, ContractStutters DEF RegisterMark, disk
<1>37. ASSUME NEW t \in Tasks, RegisterInsert(t) PROVE ContractStep
  <2>1. row.sha = Declared
    BY <1>37 DEF RegisterInsert, TaskAt, Registered, Asserted, OneImage, Whole
  <2>2. Contract!Register
    BY <1>37, <2>1, DeclaredImage
    DEF RegisterInsert, disk, TaskAt, OneImage, TaskIsWhole, Whole, Contract!Register,
        Contract!Images, Images
  <2> QED
    BY <2>2 DEF ContractStep, Contract!Next
<1>38. ASSUME NEW t \in Tasks, RegisterRaced(t) PROVE ContractStep
  BY <1>38, ContractStutters DEF RegisterRaced, disk
<1>39. ASSUME NEW t \in Tasks, RegisterFails(t) PROVE ContractStep
  <2>1. row.sha = Declared
    BY <1>39 DEF RegisterFails, TaskAt, Registered, Asserted, OneImage, Whole
  <2>2. CASE evidence' = NoBytes
    BY <1>39, <2>2, ContractStutters DEF RegisterFails, disk
  <2>3. CASE evidence' = row.sha
    <3>1. Contract!Register
      BY <1>39, <2>1, <2>3, DeclaredImage
      DEF RegisterFails, disk, TaskAt, OneImage, TaskIsWhole, Whole, Contract!Register,
          Contract!Images, Images
    <3> QED
      BY <3>1 DEF ContractStep, Contract!Next
  <2> QED
    BY <1>39, <2>2, <2>3 DEF RegisterFails
<1>40. ASSUME NEW t \in Tasks, RegisterPending(t) PROVE ContractStep
  BY <1>40, ContractStutters DEF RegisterPending, disk
<1>41. ASSUME NEW t \in Tasks, RegisterComplete(t) PROVE ContractStep
  BY <1>41, ContractStutters DEF RegisterComplete, disk
<1>42. ASSUME NEW t \in Tasks, Retry(t) PROVE ContractStep
  BY <1>42, ContractStutters DEF Retry, disk
<1>43. ASSUME NEW t \in Tasks, Repair(t) PROVE ContractStep
  BY <1>43, ContractStutters DEF Repair, disk
<1>44. ASSUME NEW t \in Tasks, Reconcile(t) PROVE ContractStep
  BY <1>44, ContractStutters DEF Reconcile, disk
<1>45. CASE ReconcileRead
  BY <1>45, ContractStutters DEF ReconcileRead, disk
<1>46. CASE ReconcileInspect
  BY <1>46, ContractStutters DEF ReconcileInspect, disk
<1>47. CASE ReconcileCloses
  BY <1>47, ContractStutters DEF ReconcileCloses, disk
<1>48. CASE ReconcileLifecycles
  BY <1>48, ContractStutters DEF ReconcileLifecycles, disk
<1>49. CASE CancelRead
  BY <1>49, ContractStutters DEF CancelRead, disk
<1>50. CASE CancelCommit
  BY <1>50, ContractStutters DEF CancelCommit, disk
<1>51. CASE CancelRemove
  BY <1>51, ContractDiscards DEF CancelRemove
<1>52. CASE TimePasses
  BY <1>52, ContractStutters DEF TimePasses, disk
<1>53. CASE SweepSelect
  BY <1>53, ContractStutters DEF SweepSelect, disk
<1>54. CASE SweepCommit
  BY <1>54, ContractStutters DEF SweepCommit, disk
<1>55. CASE SweepRemove
  BY <1>55, ContractDiscards DEF SweepRemove
<1>56. CASE AdminCleanup
  BY <1>56, ContractDiscards DEF AdminCleanup
<1>57. CASE TwinCheck
  BY <1>57 DEF TwinCheck, disk, ContractStep, Contract!contract
<1>58. CASE TwinRegister
  <2>1. Contract!RivalRegisters
    BY <1>58 DEF TwinRegister, disk, Contract!RivalRegisters
  <2> QED
    BY <2>1 DEF ContractStep, Contract!Next
<1>59. CASE Crash
  BY <1>59, ContractStutters DEF Crash, disk
<1>60. CASE LocksExpire
  BY <1>60, ContractStutters DEF LocksExpire, disk
<1>61. CASE UNCHANGED vars
  BY <1>61, ContractStutters DEF vars, disk
<1> QED
  BY <1>1, <1>2, <1>3, <1>4, <1>5, <1>6, <1>7, <1>8, <1>9, <1>10, <1>11, <1>12, <1>13, <1>14,
     <1>15, <1>16, <1>17, <1>18, <1>19, <1>20, <1>21, <1>22, <1>23, <1>24, <1>25, <1>26, <1>27,
     <1>28, <1>29, <1>30, <1>31, <1>32, <1>33, <1>34, <1>35, <1>36, <1>37, <1>38, <1>39, <1>40,
     <1>41, <1>42, <1>43, <1>44, <1>45, <1>46, <1>47, <1>48, <1>49, <1>50, <1>51, <1>52, <1>53,
     <1>54, <1>55, <1>56, <1>57, <1>58, <1>59, <1>60, <1>61
  DEF Next, PutSteps, TaskSteps, Recover

\* The session does to bytes what the contract allows, and nothing else: chunks are
\* placed once, the evidence file appears whole in one step, is sealed again only
\* with the same bytes, and evidence is registered once, for the bytes of that file.
THEOREM UploadImplementsContract == Declared # NoBytes => (Spec => ImplementsContract)
<1> SUFFICES ASSUME Declared # NoBytes PROVE Spec => ImplementsContract
  OBVIOUS
<1>1. Init => Registered /\ BodiesOk /\ Contract!Init
  BY IdleTypes
  DEF Init, Registered, Asserted, CompletedIsRegistered, IdleTask, BodiesOk, Contract!Init,
      Contract!Nothing, NoFiles
<1>2. Spec => [](Typed /\ BodiesOk /\ Registered /\ OneImage)
  BY <1>1, InitType, InitImage, TypeNext, BodiesNext, RegisteredNext, ImageNext, PTL DEF Spec
<1>3. ASSUME Typed, BodiesOk, Registered, OneImage, [Next]_vars
      PROVE  [Contract!Next]_(Contract!contract)
  BY <1>3, ContractNext DEF ContractStep
<1> QED
  BY <1>1, <1>2, <1>3, PTL DEF Spec, ImplementsContract, Contract!Spec
=============================================================================
