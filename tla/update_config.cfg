SPECIFICATION Spec
CONSTANTS
  None = None
  Keys = {k1, k2}
  Callers = {c1, c2}
  DurationMax = 100
  NanosPerSec = 2
  U32Max = 3
  U64Max = 20
  StartedAt = 0
  MaxTime = 3
  Costs = {1, 2}
  Configs <- UpdateConfigs
  Feedbacks <- NoFeedback
  Backoffs = {}
SYMMETRY Symmetry
INVARIANTS
  TypeOK
  BucketsRunAlgorithm
  PermitsFinalizable
  OutstandingIsHeld
