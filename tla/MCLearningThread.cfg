SPECIFICATION Spec
CONSTANTS
  Topic = {t1, t2}
  Source = {s1, s2}
  Explanation = {e1, e2, e3}
  Review = {q1, q2}
  Request = {r1, r2, r3}
  BatchSize = 3
  MaxRevision = 2
  MaxEra = 1
  None = None
INVARIANTS
  OneConversation
  RoundIsOpen
PROPERTIES
  KeepsPromise
  RetryChangesNothing
SYMMETRY ThreadSymmetry
CHECK_DEADLOCK FALSE
