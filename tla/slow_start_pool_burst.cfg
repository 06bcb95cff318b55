SPECIFICATION HSpec
CONSTANTS
  None = None
  Keys = {k1}
  Callers = {c1, c2}
  DurationMax = 100
  NanosPerSec = 2
  U32Max = 3
  U64Max = 20
  StartedAt = 1
  MaxTime = 7
  MaxSupply = 0
  Costs = {1, 2}
  Configs <- PoolRamps
  Feedbacks <- NoFeedback
  Backoffs = {}
SYMMETRY Symmetry
PROPERTIES
  RampBudget
