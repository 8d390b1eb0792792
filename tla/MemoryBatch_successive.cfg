SPECIFICATION FairSpec
CONSTANTS
  N = 3
  Outcomes = {"completed_with_errors", "failed"}
  Gated = {}
  MaxBatches = 2
  MaxScans = 0
  Api = {a1}
  Worker = {w1}
  MaxFaults = 1
  MaxRestarts = 0
INVARIANTS
  RunningPointsAtUnrecorded
  EndedJobIsNotActive
PROPERTIES
  BatchEventuallyCloses
CHECK_DEADLOCK FALSE
