SPECIFICATION QueueSpec
CONSTANTS
  Source = {s1, s2, s3}
  Instant = {1, 2}
  Caps = {1, 2}
  MaxAttempts = 2
  MaxSequence = 4
  NoCandidate = NoCandidate
INVARIANTS
  CapHolds
  NoResurrection
SYMMETRY SourceSymmetry
