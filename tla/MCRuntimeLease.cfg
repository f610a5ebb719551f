SPECIFICATION LeaseFairSpec
CONSTANTS
  Host = {h1, h2, h3}
  Ttl = 1
  DayMs = 2
  Limit = 1
  MaxClock = 2
  MaxRequests = 2
  NoRow = NoRow
INVARIANT
  RollingBudget
PROPERTIES
  FencedSuccession
  LoserNotices
CHECK_DEADLOCK FALSE
