CONSTANTS
  c1 = c1  c2 = c2  c3 = c3  p1 = p1  p2 = p2  a = a  b = b  x = x
  d1 = d1  d2 = d2  s1 = s1  s2 = s2
  NoProject = NoProject
  Calls = {c1, c2, c3}
  ProjectIDs = {p1, p2}
  Existing = {p1}
  Members = {a, b, x}
  Untyped = {x}
  FirstMembers = {a}
  MemberLists <- Lists
  Details = {d1, d2}
  Policies = {s1, s2}
  Settings <- TwoSettings
  FirstSetting <- First
  Operations = {"CreateProject", "UpdateProject", "DeleteProject", "AddProjectMember"}
  MaxFaults = 1
SPECIFICATION Spec
SYMMETRY CallSymmetry
INVARIANTS TypeOK MembersSettle SettingsSettle ErrorMeansUntouched
CHECK_DEADLOCK FALSE
