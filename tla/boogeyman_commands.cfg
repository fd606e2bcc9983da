CONSTANTS
  monkey = monkey  user = user
  Callers = {user}
  Offered = {"Deploy", "DeploySharedPVC", "CreatePersistentVolumeClaim", "DeleteRandomPod", "DeleteAllPods", "DeleteRandomDeployment", "DeleteAllDeployments"}
  Wanted = 0
  MaxNames = 1
  MaxPods = 1
  MaxCalls = 3
  MaxFaults = 1
  Interrupts = TRUE
SPECIFICATION Spec
INVARIANTS ViewLagsByStream
PROPERTIES ClaimFirst
CHECK_DEADLOCK FALSE
