SPECIFICATION Spec
CONSTANTS
  Threads = {t1, t2}
  DurationMax = 100
  NanosPerSec = 2
  U32Max = 3
  U64Max = 4
  TicksPerMilli = 2
  MaxTime = 6
  MaxMishaps = 2
  GateConfigs <- MixedGates
INVARIANTS
  GateTypeOK
  RecordCoversPromises
PROPERTIES
  GrantsKeepPromises
  BlocksForAReason
  GateReopens
  ImplementsGate
