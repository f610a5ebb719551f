SPECIFICATION Spec
CONSTANTS
  Host = {h1, h2}
  Request = {r1, r2}
  Dimension = {structure}
  Topic = {}
  None = None
  Delay = {0}
  MaxEvidence = 1
  MaxRevision = 4
SYMMETRY ContextSymmetry
INVARIANTS
  NewJudgementForms
CHECK_DEADLOCK FALSE
