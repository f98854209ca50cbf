SPECIFICATION Spec
CONSTANTS
  o1 = o1
  o2 = o2
  s1 = s1
  s2 = s2
  Self = 1
  Bridge = {1}
  Outpoint = {o1}
  Script = {s1}
  ScriptOf <- PayBoth
  NoBlock = NoBlock
  RoundBlocks = 2
  MaxReorgDepth = 2
  DeepConfirmations = 3
  BlocksKept = 2
  MaxHeld = 0
  Recorded = 0
  MaxHeight = 5
  MaxForks = 2
  MidRound = TRUE
  Fault = {"crash", "crash_in_reorg", "unread", "unreachable", "refused", "tip", "unwatch"}
  MaxFaults = 1
PROPERTIES
  SignedAsSeen
