SPECIFICATION FairSpec
CONSTANTS
  Session = {s1}
  Command = {c1}
  Scripts <- OneTurn
  PageSize = 2
  Texts = {"x", "y"}
  LoadedOn = {TRUE}
  MaxEpoch = 0
  None = none
INVARIANTS
  TypeOK
  QueuedOnce
PROPERTIES
  CapturesEnd
  CommandsAnswered
CHECK_DEADLOCK FALSE
