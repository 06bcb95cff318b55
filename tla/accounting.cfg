SPECIFICATION HSpec
CONSTANTS
  None = None
  Keys = {k1}
  Callers = {c1, c2}
  DurationMax = 100
  NanosPerSec = 2
  U32Max = 3
  U64Max = 20
  StartedAt = 0
  MaxTime = 5
  MaxSupply = 10
  Costs = {1, 2}
  Configs <- AccountingConfigs
  Feedbacks <- AccountingFeedbacks
  Backoffs = {2}
SYMMETRY Symmetry
INVARIANTS
  HistoryTypeOK
  PermitsFinalizable
  OutstandingIsHeld
  RateBound
PROPERTIES
  WindowBudget
  RampBudget
  BackoffHonoured
