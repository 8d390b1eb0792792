SPECIFICATION Spec
CONSTANTS
  Runs = {r1}
  FirstRun = r0
  NoRun = none
  Absent = absent
  Jobs = {j0, j1}
  FirstJob = j0
  Api = {a1}
  Errors = FALSE
  MaxUpsets = 0
INVARIANTS
  ReleasedIsDead
CHECK_DEADLOCK FALSE
