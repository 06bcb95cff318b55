SPECIFICATION HSpec
CONSTANTS
  None = None
  Keys = {k1, k2}
  Callers = {c1, c2}
  DurationMax = 100
  NanosPerSec = 2
  U32Max = 3
  U64Max = 20
  StartedAt = 0
  MaxTime = 4
  MaxSupply = 0
  Costs = {1}
  Configs <- OnePlace
  Feedbacks <- RouteFeedbacks
  Backoffs = {}
SYMMETRY Symmetry
PROPERTIES
  BackoffHonoured
  GrowthBounded
