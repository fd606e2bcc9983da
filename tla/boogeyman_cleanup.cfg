CONSTANTS
  monkey = monkey  user = user
  Callers = {monkey}
  Offered = {"DeleteRandomDeployment"}
  Wanted = 1
  MaxNames = 1
  MaxPods = 0
  MaxCalls = 0
  MaxFaults = 0
  Interrupts = TRUE
SPECIFICATION Spec
INVARIANTS AllDeletedOnExit
CHECK_DEADLOCK FALSE
