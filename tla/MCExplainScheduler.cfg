SPECIFICATION FairSpec
CONSTANTS
  Source = {s1}
  Instant = {1}
  Caps = {1}
  MaxAttempts = 2
  MaxSequence = 2
  NoCandidate = NoCandidate
  ManualJob = {m1}
  ReviewJob = {}
  Question = {}
  Subject <- MCSubject
  Compacts = FALSE
  MaxWorld = 1
  NoRun = NoRun
INVARIANT
  OutcomeMatchesStore
PROPERTIES
  ClearIsQuiescent
  QueueProtocol
  JobsSettle
  ResetCompletes
CHECK_DEADLOCK FALSE
