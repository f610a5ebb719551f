SPECIFICATION Spec
CONSTANTS
  Session = {s1}
  Command = {}
  Scripts <- OneScript
  PageSize = 3
  Texts = {"x", "y"}
  LoadedOn = {TRUE}
  MaxEpoch = 0
  None = none
INVARIANTS LatestWins
CHECK_DEADLOCK FALSE
