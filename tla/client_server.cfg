SPECIFICATION CSpec
CONSTANTS
  None = None
  Keys = {k1}
  Callers = {c1, c2, c3}
  DurationMax = 100
  NanosPerSec = 2
  U32Max = 3
  U64Max = 20
  StartedAt = 0
  MaxTime = 5
  Costs = {1}
  Configs <- ClientConfigs
  Feedbacks <- NoFeedback
  Backoffs <- AnyWait
  ServerAlgos <- ServerLimits
  Deadlines = {3, 5}
SYMMETRY Symmetry
INVARIANTS
  CTypeOK
  ServerLoadBounded
PROPERTIES
  OnlyStragglersRejected
  BlocksAreHeeded
