CONSTANTS
  c1 = c1  c2 = c2  c3 = c3  c4 = c4  c5 = c5  m1 = m1
  Nobody = Nobody
  Modules = {m1}
  Calls = {c1, c2, c3}
  Builds <- OnlyDisk
  MaxVolumes = 2
  MaxFaults = 0
  MaxTimeouts = 1
SPECIFICATION Spec
PROPERTIES DisposeRemovesAll
CHECK_DEADLOCK FALSE
