CONSTANTS
  Absent = Absent
  Kernels = {1, 2}
  Drivers = {1, 2, 3}
  Rollbacks = FALSE
  MaxKills = 3
  MaxBoots = 2
  MaxUpdates = 2
SPECIFICATION FairSpec
INVARIANTS TypeOK RequestedDriverRuns
PROPERTIES GetsInstalled
CHECK_DEADLOCK FALSE
