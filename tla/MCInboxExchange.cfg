SPECIFICATION Spec
CONSTANTS
  Peer = {p1, p2}
  p1 = p1
  p2 = p2
  alice = alice
  bob = bob
  none = none
  Home = p1
  GhostKey = {alice, bob}
  NoFloor = NoFloor
  NoSerial = none
  Entry <- EntriesOneKey
  Prefix <- MCPrefix
  Link <- LinkPair
  BucketOf <- MCBucketOf
  Window = 2
  MaxEntries = 4
  MaxPerGhostKey = 2
  MaxRemoved = 4
  MaxBatches = 3
  MaxFloor = 1
  MaxInFlight = 0
INVARIANTS
  ExchangeAgrees
CHECK_DEADLOCK FALSE
