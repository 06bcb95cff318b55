SPECIFICATION Spec
CONSTANTS
  None = None
  Keys = {k1, k2, k3}
  Callers = {c1, c2}
  DurationMax = 100
  NanosPerSec = 2
  U32Max = 3
  U64Max = 20
  StartedAt = 0
  MaxTime = 2
  Costs = {1}
  Configs <- EvictingConfigs
  Feedbacks <- Remaps
  Backoffs = {}
SYMMETRY Symmetry
INVARIANTS
  PermitsFinalizable
  OutstandingIsHeld
  FifoTracksBuckets
PROPERTIES
  GrowthBounded
