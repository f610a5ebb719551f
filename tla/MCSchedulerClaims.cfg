SPECIFICATION Spec
CONSTANTS
  Source = {s1}
  Instant = {1}
  Caps = {1}
  MaxAttempts = 2
  MaxSequence = 1
  NoCandidate = NoCandidate
  ManualJob = {m1}
  ReviewJob = {}
  Question = {}
  Subject <- MCSubject
  Compacts = TRUE
  MaxWorld = 2
  NoRun = NoRun
\* One statement at a time: TLC stops at the first that fails.
PROPERTY
  DuplicateKeepsRephrase
\* INVARIANT RefreshBringsRoute
CHECK_DEADLOCK FALSE
