SPECIFICATION Spec
CONSTANTS
  Source = {s1}
  Instant = {1}
  Caps = {1}
  MaxAttempts = 2
  MaxSequence = 0
  NoCandidate = NoCandidate
  ManualJob = {}
  ReviewJob = {r1}
  Question = {q1}
  Subject <- MCSubject
  Compacts = TRUE
  MaxWorld = 2
  NoRun = NoRun
INVARIANTS
  NoLostWakeup
  FailedArePending
PROPERTIES
  FreshCommits
CHECK_DEADLOCK FALSE
