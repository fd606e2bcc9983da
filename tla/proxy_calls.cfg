CONSTANTS
  c1 = c1  c2 = c2  c3 = c3  c4 = c4  c5 = c5  m1 = m1
  Nobody = Nobody
  Modules = {m1}
  Calls = {c1, c2, c3, c4, c5}
  Builds <- OnlyMounted
  MaxVolumes = 1
  MaxFaults = 1
  MaxTimeouts = 1
SPECIFICATION Spec
SYMMETRY CallSymmetry
INVARIANTS TypeOK
PROPERTIES DeploymentWhole RunReportsWhole DisposeLeavesOnlyFailed
CHECK_DEADLOCK FALSE
