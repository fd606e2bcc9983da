CONSTANTS
  n1 = n1  n2 = n2  b1 = b1  b2 = b2
  Missing = Missing
  Nodes = {n1, n2}
  NodeStates <- ThreeStates
  FirstNodes <- First
  Batches = {b1, b2}
  WorkspaceQuotas <- TwoQuotas
  Project <- Limits
  MaxChanges = 3
  MaxFaults = 1
SPECIFICATION Spec
INVARIANTS TypeOK NodesAsTheyWere FreeIsFree
CHECK_DEADLOCK FALSE
