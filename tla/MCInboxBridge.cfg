SPECIFICATION FairSpec
CONSTANTS
  Peer = {p1, p2}
  p1 = p1
  p2 = p2
  alice = alice
  bob = bob
  none = none
  Home = p1
  GhostKey = {alice, bob}
  NoFloor = NoFloor
  NoSerial = none
  NoPass = NoPass
  Entry <- EntriesTwo
  Prefix <- MCPrefix
  Link <- LinkDown
  BucketOf <- MCBucketOf
  Window = 1
  MaxEntries = 4
  MaxPerGhostKey = 2
  MaxRemoved = 4
  MaxBatches = 6
  Budget = 1
  Share = 1
  OwnerReserve = 0
  Lag = 1
  Tips = {0, 3}
  MaxTip = 3
  MaxInFlight = 1
PROPERTIES
  ImplementsReplicas
  FloorsLand
  RequestsAnswered
CHECK_DEADLOCK FALSE
