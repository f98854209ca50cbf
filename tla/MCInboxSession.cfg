SPECIFICATION FairSpec
CONSTANTS
  renewal = renewal
  Request = {renewal}
  Renewal = renewal
  Lag = 1
  Window = 2
  Slack = 1
  Budget = 1
  Life = 2
  Hold = 1
  Rearm = 2
  ReadTimeout = 1
  Reopen = 1
  NotSent = NotSent
  Absent = Absent
  NoRead = NoRead
  Noisy = Noisy
  MaxTip = 3
  Crowded = {3}
  MaxReads = 1
  MaxLosses = 1
  MaxRestarts = 0
INVARIANTS
  NothingAwaitedIsDropped
PROPERTIES
  RenewalsAreHeeded
  RequestsRead
  FloorFollows
CHECK_DEADLOCK FALSE
