CONSTANTS
  monkey = monkey  user = user
  Callers = {monkey}
  Offered = {"DeleteRandomDeployment"}
  Wanted = 2
  MaxNames = 4
  MaxPods = 0
  MaxCalls = 2
  MaxFaults = 0
  Interrupts = FALSE
SPECIFICATION FairSpec
INVARIANTS TypeOK
PROPERTIES WorkUndone
CHECK_DEADLOCK FALSE
