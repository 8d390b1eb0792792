SPECIFICATION Spec
CONSTANTS
  Size = 3
  Client = {c1}
  Worker = w
  MaxFaults = 2
  MaxCrashes = 1
  MaxCancels = 0
  MaxRetries = 1
  MaxExpiries = 0
  MaxOverruns = 1
INVARIANTS
  TypeOK
  StagedBytesArePrefix
  EvidenceIsWhole
PROPERTIES
  LockIsKept
