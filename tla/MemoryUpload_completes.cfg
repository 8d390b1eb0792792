SPECIFICATION FairSpec
CONSTANTS
  Chunks = {c1, c2, c3}
  Bodies = {whole}
  whole = whole
  NoBytes = NoBytes
  Declared = NoBytes
  HashHeader = TRUE
  Patient = TRUE
  Putters = {p1}
  Tasks = {t1, t2}
  Nobody = Nobody
  Crashed = Crashed
  Cancels = FALSE
  Sweeps = FALSE
  Twins = FALSE
  Errors = FALSE
  Recoveries = TRUE
  MaxCrashes = 0
PROPERTIES
  UploadCompletes
CHECK_DEADLOCK FALSE
