SPECIFICATION FairSpec
CONSTANTS
  Runs = {r1}
  FirstRun = r0
  NoRun = none
  Absent = absent
  Jobs = {j0, j1}
  FirstJob = j0
  Api = {a1}
  Errors = TRUE
  MaxUpsets = 1
INVARIANTS
  EventsAreOneIngest

  
CHECK_DEADLOCK FALSE
