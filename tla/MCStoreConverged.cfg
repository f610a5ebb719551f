SPECIFICATION Spec
CONSTANTS
  Mutation = {"settings", "feedback"}
  PageSize = 1
  MaxRevision = 3
  MaxEntries = 1
  MaxMounts = 1
  MaxGeneration = 3
  MaxFailures = 1
  OlderCall = {first}
  NoRefresh = NoRefresh
INVARIANTS
  Converged
CHECK_DEADLOCK FALSE
