SPECIFICATION Spec
CONSTANTS
  Peer = {p1, p2}
  p1 = p1
  p2 = p2
  alice = alice
  bob = bob
  none = none
  Home = p1
  GhostKey = {alice, bob}
  NoFloor = NoFloor
  NoSerial = none
  Entry <- EntriesMixed
  Prefix <- MCPrefix
  Link <- LinkPair
  BucketOf <- MCBucketOf
  Window = 1
  MaxEntries = 2
  MaxPerGhostKey = 2
  MaxRemoved = 4
  MaxBatches = 3
  MaxFloor = 2
  MaxInFlight = 1
INVARIANTS
  EveryStateVerifies
  PeersAgree
  ReadAtMostOnce
  OnlyReadIsRemoved
PROPERTIES
  NothingReturns
CHECK_DEADLOCK FALSE
