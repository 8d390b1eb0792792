SPECIFICATION FairSpec
CONSTANTS
  Chunks = {c1, c2}
  Bodies = {whole}
  whole = whole
  NoBytes = NoBytes
  Declared = NoBytes
  HashHeader = TRUE
  Patient = TRUE
  Putters = {p1, p2}
  Tasks = {t1}
  Nobody = Nobody
  Crashed = Crashed
  Cancels = FALSE
  Sweeps = FALSE
  Twins = FALSE
  Errors = FALSE
  Recoveries = FALSE
  MaxCrashes = 0
PROPERTIES
  UploadCompletes
CHECK_DEADLOCK FALSE
