SPECIFICATION BoundsSpec
CONSTANTS
  Limits = {20}
  Lengths = {1, 8, 30}
  ToolLists <- SomeToolLists
  PreviewChars = 4
  UserChars = 6
  NameChars = 5
  MaxNames = 2
  NoText = notext
INVARIANT TruncationTold
CHECK_DEADLOCK FALSE
