SPECIFICATION Spec
CONSTANTS
  Topic = {t1, t2}
  Intervals <- OneTwo
  RoundSize = 2
  Remembered = 3
  None = none
INVARIANT NextDueIsAsked
CHECK_DEADLOCK FALSE
