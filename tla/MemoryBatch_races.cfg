SPECIFICATION Spec
SYMMETRY Symmetry
CONSTANTS
  N = 2
  Outcomes = {"completed_with_errors", "failed"}
  Gated = {}
  MaxBatches = 1
  MaxScans = 1
  Api = {a1, a2}
  Worker = {w1, w2}
  MaxFaults = 1
  MaxRestarts = 1
INVARIANTS
  TypeOK
  RecordedRunsEnded
  RunningPointsAtProfile
PROPERTIES
  BatchRunStaysEnded
CHECK_DEADLOCK FALSE
