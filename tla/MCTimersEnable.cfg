CONSTANTS
  IdleMs = 1
  Day = 2
  MaxLimit = 1
  MaxQueued = 1
  Requests = {}
  ProfileEdits = FALSE
  Never = Never
SPECIFICATION FairSpec
PROPERTIES
  EnableRearms
