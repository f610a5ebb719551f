SPECIFICATION LeaseSpec
CONSTANTS
  Host = {h1, h2}
  Ttl = 1
  DayMs = 1
  Limit = 1
  MaxClock = 3
  MaxRequests = 0
  NoRow = NoRow
PROPERTIES
  OldOwnerNeverCommits
CHECK_DEADLOCK FALSE
