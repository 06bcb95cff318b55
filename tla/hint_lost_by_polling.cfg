SPECIFICATION TSpec
CONSTANTS
  None = None
  Keys = {k1}
  Callers = {c1}
  DurationMax = 100
  NanosPerSec = 2
  U32Max = 3
  U64Max = 20
  StartedAt = 0
  MaxTime = 6
  Costs = {1}
  Configs <- SlowPool
  Feedbacks <- NoFeedback
  Backoffs = {}
SYMMETRY Symmetry
INVARIANTS
  WaitSuffices
