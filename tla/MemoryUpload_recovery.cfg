SPECIFICATION Spec
SYMMETRY Requests
CONSTANTS
  Chunks = {c1}
  Bodies = {whole, other}
  whole = whole
  NoBytes = NoBytes
  Declared <- DeclaredImage
  HashHeader = TRUE
  Patient = FALSE
  Putters = {p1}
  Tasks = {t1, t2}
  Nobody = Nobody
  Crashed = Crashed
  Cancels = TRUE
  Sweeps = TRUE
  Twins = FALSE
  Errors = FALSE
  Recoveries = TRUE
  MaxCrashes = 0
INVARIANTS
  TypeOK
  CompletedIsRegistered
  RegisteredIsRecoverable
PROPERTIES
  ImplementsContract
CHECK_DEADLOCK FALSE
