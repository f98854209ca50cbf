SPECIFICATION FairSpec
CONSTANTS
  o1 = o1
  o2 = o2
  s1 = s1
  s2 = s2
  Self = 1
  Bridge = {1}
  Outpoint = {o1}
  Script = {s1}
  ScriptOf <- PayBoth
  NoBlock = NoBlock
  RoundBlocks = 1
  MaxReorgDepth = 2
  DeepConfirmations = 4
  BlocksKept = 2
  MaxHeld = 2
  Recorded = 2
  MaxHeight = 6
  MaxForks = 2
  MidRound = FALSE
  Fault = {"unwatch"}
  MaxFaults = 1
INVARIANTS
  StatusMatchesChain
  NoContradiction
PROPERTIES
  LadderCompletes
