CONSTANTS
  IdleMs = 1
  Day = 2
  MaxLimit = 1
  MaxQueued = 1
  Requests = {"manual"}
  ProfileEdits = FALSE
  Never = Never
SPECIFICATION FairSpec
INVARIANT
  TypeOK
PROPERTIES
  IdleRuns
  BudgetReopens
