CONSTANTS
  IdleMs = 2
  Day = 2
  MaxLimit = 2
  MaxQueued = 1
  Requests = {"review", "manual"}
  ProfileEdits = TRUE
  Never = Never
SPECIFICATION Spec
INVARIANTS
  IdleArmed
  BudgetArmed
PROPERTY
  ParkedUntilActivity
