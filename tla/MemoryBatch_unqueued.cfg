SPECIFICATION Spec
CONSTANTS
  N = 2
  Outcomes = {"completed_with_errors", "failed"}
  Gated = {}
  MaxBatches = 1
  MaxScans = 0
  Api = {a1}
  Worker = {w1}
  MaxFaults = 0
  MaxRestarts = 1
INVARIANTS
  CurrentProfileWasEnqueued
CHECK_DEADLOCK FALSE
