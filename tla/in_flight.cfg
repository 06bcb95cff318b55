SPECIFICATION Spec
CONSTANTS
  Ids = {i1, i2, i3}
  Fingerprints = {f1, f2}
  Waiters = {w1, w2, w3}
  Deadlines = {1, 2}
  DurationMax = 100
  NanosPerSec = 2
  U32Max = 3
  U64Max = 20
  MaxInFlight = 2
  HeapFactor = 1
  HeapSlack = 1
  MaxTime = 2
  MaxBegins = 3
INVARIANTS
  TableTypeOK
  EntriesHaveTimers
  HeapBounded
  WaitersInOnePlace
PROPERTIES
  AnswersReachTheirOwn
  WaitersAreDrained
  ImplementsDedup
