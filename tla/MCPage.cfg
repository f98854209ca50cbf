SPECIFICATION Spec
CONSTANTS
  None = None
  signet = signet
  bitcoin = bitcoin
  x = x
  Address = Address
  Tip = Tip
  Artifact = {Address, Tip}
  Builds = 2
  MaxMishaps = 2
  Network = {signet, bitcoin}
  Home = signet
  Ask = {x}
  Demo <- MCDemo
  Embedded = 1
  MaxHeight = 1
  MaxSwitches = 2
INVARIANTS
  ShownBelongs
PROPERTIES
  PointersFollow
  AbsenceIsAnswered
  PageSpeaks
CHECK_DEADLOCK FALSE
