SPECIFICATION Spec
CONSTANTS
  Source = {s1}
  Instant = {1}
  Caps = {1}
  MaxAttempts = 2
  MaxSequence = 1
  NoCandidate = NoCandidate
  ManualJob = {m1}
  ReviewJob = {}
  Question = {}
  Subject <- MCSubject
  Compacts = TRUE
  MaxWorld = 2
  NoRun = NoRun
INVARIANTS
  RouteBeforeWork
CHECK_DEADLOCK FALSE
