SPECIFICATION TSpec
CONSTANTS
  None = None
  Keys = {k1}
  Callers = {c1, c2}
  DurationMax = 100
  NanosPerSec = 2
  U32Max = 3
  U64Max = 20
  StartedAt = 1
  MaxTime = 7
  Costs = {1, 2}
  Configs <- HintConfigs
  Feedbacks <- HintFeedback
  Backoffs = {}
SYMMETRY Symmetry
INVARIANTS
  HintTypeOK
  WaitSufficesWhenIdle
  WaitSufficesUnpolled
  NoLongerThanNeeded
  RampWaitExact
PROPERTIES
  ZeroWaitsExplained
