CONSTANTS
  IdleMs = 1
  Day = 2
  MaxLimit = 1
  MaxQueued = 1
  Requests = {}
  ProfileEdits = FALSE
  Never = Never
SPECIFICATION Spec
\* One statement of the documents at a time: TLC stops at the first that fails.
INVARIANT
  BlockedHasWakeup
\* INVARIANT StoppedIsSilent
\* PROPERTY OneIdleAttempt
\* PROPERTY CheckpointIsCurrent
