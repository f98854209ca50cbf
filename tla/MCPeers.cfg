SPECIFICATION MCSpec
CONSTANTS
  p1 = p1
  p2 = p2
  o1 = o1
  o2 = o2
  Peer = {p1, p2}
  Bridge = {1, 2, 3}
  Trusted = {1, 2}
  Outpoint = {o1, o2}
  TipRetain = 2
  NotScanned = NotScanned
  Claim <- AllClaims
  Mark <- Marks
  KeyOf <- MCKeyOf
  CostOf <- MCCostOf
  BucketOf <- MCBucketOf
  MaxClaims = 3
  MaxBytes = 5
  MaxPublished = 1
  Summary <- Summaries
  SummaryBucketOf <- MCSummaryBucketOf
  MaxSummaries = 2
  PowFloor = 3
  MaxRawTx = 4
  MaxMerkleDepth = 4
  MaxFollowingHeaders = 2
  Params <- MCParams
  Id <- MCId
  Script = {"s", "t"}
  Block <- MCBlock
  Chain <- MCChain
  MaxMoves = 1
  MaxRung = 4
INVARIANTS
  HeldIsWhatWasHeard
  EvidenceIsJudged
  EveryStateVerifies
  NoPaymentOverRetraction
PROPERTIES
  NeverStepsBack
  PeersSettle
  TipPeersSettle
