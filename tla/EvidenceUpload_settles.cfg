SPECIFICATION FairSpec
CONSTANTS
  Size = 3
  Client = {c1}
  Worker = w
  MaxFaults = 0
  MaxCrashes = 0
  MaxCancels = 1
  MaxRetries = 0
  MaxExpiries = 1
  MaxOverruns = 0
INVARIANTS
  ConfirmedOffsetIsUsable
PROPERTIES
  CompleteUploadIsInspected
  ExpiredIsCleaned
