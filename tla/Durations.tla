------------------------------ MODULE Durations ------------------------------
(***************************************************************************)
(* The numbers the limiter computes with.  A Duration is a natural number  *)
(* of ticks, the model's nanoseconds: NanosPerSec of them make a second,   *)
(* and Duration::MAX is DurationMax.  Counters keep their width: a u32 ends *)
(* at U32Max, a u64 at U64Max.                                             *)
(***************************************************************************)
EXTENDS Integers

CONSTANTS
  DurationMax,  \* Duration::MAX, where duration arithmetic saturates
  NanosPerSec,  \* ticks in one second
  U32Max,       \* u32::MAX, the largest cost and window limit
  U64Max        \* u64::MAX, the largest credit count

ASSUME WidthAssumption ==
  /\ NanosPerSec \in Nat \ {0}
  /\ U32Max \in Nat \ {0}
  /\ U64Max \in Nat /\ U32Max <= U64Max
  /\ DurationMax \in Nat /\ U64Max * NanosPerSec < DurationMax

Duration == 0..DurationMax
U32 == 0..U32Max
U64 == 0..U64Max

\* Cost: a non-zero u32.
Cost == 1..U32Max

Lesser(a, b) == IF a <= b THEN a ELSE b
Greater(a, b) == IF a >= b THEN a ELSE b

\* Integer and Duration saturating_add, the type's maximum as parameter.
SatAdd(a, b, max) == Lesser(a + b, max)

\* Integer and Duration saturating_sub.
SatSub(a, b) == IF a >= b THEN a - b ELSE 0

\* u128::div_ceil.
DivCeil(a, b) == (a + b - 1) \div b
=============================================================================
