SPECIFICATION FairSpec
CONSTANTS
  Topic = {t1, t2}
  Intervals <- OneTwo
  RoundSize = 1
  Remembered = 1
  None = none
PROPERTIES
  Spaced
  DueIsAsked
CHECK_DEADLOCK FALSE
