SPECIFICATION CaseSpec
SYMMETRY Symmetry
CONSTANTS
  Runs = {r1}
  FirstRun = r0
  NoRun = none
  Absent = absent
  Jobs = {j0, j1}
  FirstJob = j0
  Api = {a1}
  Errors = FALSE
  MaxUpsets = 0
  AiJobs = {k1, k2}
  NoAi = noai
INVARIANTS
  CaseTypeOK
  DeletedCaseKeepsNoEvents
PROPERTIES
  AiOutcomeIsFinal
CHECK_DEADLOCK FALSE
