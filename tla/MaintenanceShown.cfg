SPECIFICATION MtSpec
CONSTANTS
  MtReplica = {"r1", "r2"}
  MtTtl = 2
  MaxSets = 3
  MaxMtFaults = 1
INVARIANTS ActiveIsShown
CHECK_DEADLOCK FALSE
