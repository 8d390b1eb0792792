SPECIFICATION Spec
SYMMETRY Requests
CONSTANTS
  Chunks = {c1, c2}
  Bodies = {whole}
  whole = whole
  NoBytes = NoBytes
  Declared <- DeclaredImage
  HashHeader = TRUE
  Patient = FALSE
  Putters = {p1, p2}
  Tasks = {t1}
  Nobody = Nobody
  Crashed = Crashed
  Cancels = FALSE
  Sweeps = FALSE
  Twins = TRUE
  Errors = TRUE
  Recoveries = TRUE
  MaxCrashes = 1
INVARIANTS
  ImageIsKept
PROPERTIES
  ImplementsContract
CHECK_DEADLOCK FALSE
