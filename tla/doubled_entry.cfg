CONSTANTS
  u1 = u1  u2 = u2  p1 = p1  p2 = p2  n1 = n1  n2 = n2  h1 = h1  h2 = h2
  owner = owner  member = member  noProject = noProject  emptyUser = emptyUser
  Users = {u1, u2, emptyUser}
  Requesters = {u1, u2}
  Projects = {p1, p2}
  Namespaces = {n1, n2}
  Roles = {owner, member}
  Owner = owner
  HasPrefix <- MCHasPrefix
  NoProject = noProject
  EmptyUser = emptyUser
  NoBinding = NoBinding
  Handlers = {h1, h2}
  InitialBindings <- OneBindings
  InitialOwners <- OutsideOnly
  MaxRequests = 3
  MaxChanges = 0
  MaxFaults = 0
SPECIFICATION Spec
PROPERTIES SoleMemberAnnotated
CHECK_DEADLOCK FALSE
