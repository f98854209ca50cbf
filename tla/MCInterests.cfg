SPECIFICATION Spec
CONSTANTS
  alice = alice
  s1 = s1
  s2 = s2
  k1 = k1
  GhostKey = {alice}
  Script = {s1, s2}
  Operator = Operator
  WatchKey = {k1}
  Request <- Requests
  AlwaysWatch = {s1}
  Registered = {s2}
  MaxWatches = 1
  Deep = 2
  Lifetime = 1
  RequestAhead = 1
  DelegatedAhead = 1
  Memory = 1
  Waits = 1
  AheadBlocks = 1
  Window = 1
  NodeTips <- NoneOrZero
  MainnetTips = {0}
  BlockTimes = {1, 3}
  MaxTime = 3
  MaxHeight = 2
  MaxReorgs = 1
  PaidTo = {s1}
INVARIANTS
  WatchedIffWanted
  NewestDecides
  HeightsHeld
  RevokedStayOut
PROPERTIES
  EndsOnlyWhenDue
CHECK_DEADLOCK FALSE
