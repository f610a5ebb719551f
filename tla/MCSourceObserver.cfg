SPECIFICATION ObserverSpec
CONSTANTS
  Session = {s1}
  Command = {c1}
  Scripts <- BothScripts
  PageSize = 3
  Texts = {"x", "y"}
  LoadedOn = {TRUE, FALSE}
  MaxEpoch = 3
  None = none
  Limits = {1, 3, 4, 5, 10, 20, 40}
  Lengths = {1, 8, 30}
  ToolLists <- SomeToolLists
  PreviewChars = 4
  UserChars = 6
  NameChars = 5
  MaxNames = 2
  NoText = notext
INVARIANTS
  WholeTurn
  ReadsOneCut
  NothingFromBefore
  WellCut
CHECK_DEADLOCK FALSE
