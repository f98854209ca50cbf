SPECIFICATION FairSpec
CONSTANTS
  None = None
  a = a
  b = b
  Generations = 2
  Held <- MCHeld
  Interval = 1
  Spacing = 2
  SealAfter = 4
  Dark = 5
  MaxSkew = 2
  MaxSets = 1
  MaxRestarts = 1
  MaxFaults = 1
INVARIANTS
  CountedIsStored
  SealedOverNothing
PROPERTIES
  EvidenceIsSpaced
  ReachableIsCarried
  MigrationEnds
CHECK_DEADLOCK FALSE
