SPECIFICATION Spec
CONSTANTS
  Mutation = {"clear"}
  PageSize = 1
  MaxRevision = 3
  MaxEntries = 2
  MaxMounts = 2
  MaxGeneration = 3
  MaxFailures = 1
  OlderCall = {first, second}
  NoRefresh = NoRefresh
INVARIANTS
  OneLongPoll
  NoGhosts
  CaughtUp
SYMMETRY Calls
PROPERTIES
  SettledIsShown
  NothingSlipsOut
CHECK_DEADLOCK FALSE
