SPECIFICATION Spec
CONSTANTS
  Host = {h1, h2}
  Request = {r1, r2}
  Dimension = {structure}
  Topic = {git}
  None = None
  Delay = {0}
  MaxEvidence = 1
  MaxRevision = 4
INVARIANTS
  NothingSurvivesClear
  NeverCoveredTwice
  ForgetStays
  AuditTells
PROPERTIES
  FreshCheckpoint
  AppliedOnce
SYMMETRY ContextSymmetry
CHECK_DEADLOCK FALSE
