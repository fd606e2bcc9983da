CONSTANTS
  u1 = u1  u2 = u2  p1 = p1  p2 = p2  n1 = n1  n2 = n2  h1 = h1  h2 = h2
  owner = owner  member = member  noProject = noProject  emptyUser = emptyUser
  Users = {u1}
  Requesters = {u1}
  Projects = {p1}
  Namespaces = {n1}
  Roles = {owner, member}
  Owner = owner
  HasPrefix <- MCHasPrefix
  NoProject = noProject
  EmptyUser = emptyUser
  NoBinding = NoBinding
  Handlers = {h1, h2}
  InitialBindings <- OneBindings
  InitialOwners <- OutsideOnly
  MaxRequests = 3
  MaxChanges = 1
  MaxFaults = 1
SPECIFICATION FairHistorySpec
INVARIANTS TypeOK LimitBacked CacheRecent
PROPERTIES EveryRequestAnswered
CHECK_DEADLOCK FALSE
