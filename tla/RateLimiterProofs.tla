-------------------------- MODULE RateLimiterProofs --------------------------
(***************************************************************************)
(* The limiter keeps its types and its books, for any number of keys and   *)
(* callers, any configurations and any times: every open permit can be     *)
(* finalized, and a bucket's outstanding capacity is what its permits hold. *)
(***************************************************************************)
EXTENDS RateLimiter, BucketProofs, FiniteSetTheorems

\* The inductive invariant.
IInv ==
  /\ TypeOK
  /\ BucketsRunAlgorithm
  /\ PermitsFinalizable
  /\ OutstandingIsHeld

-----------------------------------------------------------------------------
(***************************************************************************)
(* Slow start.                                                             *)
(***************************************************************************)
\* A scaled limit is no larger than the limit.
LEMMA EffectiveBound ==
  ASSUME NEW max \in Nat, NEW ramp \in Duration, NEW started \in Duration, NEW t \in Duration
  PROVE  Effective(max, ramp, started, t) \in 0..max
<1> DEFINE elapsed == SatSub(t, started)
<1>1. ramp \in Nat /\ elapsed \in Nat
  BY Widths DEF Duration, SatSub
<1>2. Effective(max, ramp, started, t) =
        IF ramp = 0 \/ elapsed >= ramp THEN max ELSE (max * elapsed) \div ramp
  BY DEF Effective
<1> HIDE DEF elapsed
<1>3. ASSUME ramp # 0, elapsed < ramp
      PROVE  (max * elapsed) \div ramp \in 0..max
  <2>1. max * elapsed \in Nat
    BY <1>1
  <2>2. max * elapsed <= ramp * max
    BY <1>1, <1>3
  <2>3. max * elapsed < ramp * max + ramp
    BY <1>1, <1>3, <2>2
  <2> HIDE DEF elapsed
  <2> QED
    BY <1>1, <1>3, <2>1, <2>3, DivBounds
<1> QED
  BY <1>1, <1>2, <1>3

\* A slow-start denial's wait is at most the rest of the ramp.
LEMMA RetryAfterForCostType ==
  ASSUME NEW max \in Nat, NEW ramp \in Duration, NEW started \in Duration,
         NEW t \in Duration, NEW cost \in Cost
  PROVE  RetryAfterForCost(max, ramp, started, t, cost) \in Duration
<1> DEFINE elapsed == SatSub(t, started)
           needed == DivCeil(cost * ramp, max)
<1>1. ramp \in Nat /\ ramp <= DurationMax /\ elapsed \in Nat /\ cost \in Nat
  BY Widths DEF Duration, SatSub, Cost
<1>2. RetryAfterForCost(max, ramp, started, t, cost) =
        IF ramp = 0 \/ max = 0 \/ elapsed >= ramp THEN 0
        ELSE IF cost > max THEN ramp - elapsed
        ELSE SatSub(needed, elapsed)
  BY DEF RetryAfterForCost
<1> HIDE DEF elapsed
<1>3. ASSUME max # 0, ~(cost > max)
      PROVE  needed \in 0..ramp
  <2>1. cost * ramp \in Nat
    BY <1>1
  <2>2. cost * ramp <= max * ramp
    BY <1>1, <1>3
  <2> QED
    BY <1>1, <1>3, <2>1, <2>2, DivCeilBounds
<1> HIDE DEF needed
<1> QED
  BY <1>1, <1>2, <1>3, Widths DEF Duration, SatSub

\* Scaling keeps kind and window.
LEMMA EffectiveAlgorithmType ==
  ASSUME TypeOK
  PROVE  /\ EffectiveAlgorithm \in AlgorithmConfig
         /\ EffectiveAlgorithm.kind = cfg.algorithm.kind
<1> DEFINE a == cfg.algorithm
<1>1. a \in AlgorithmConfig /\ now \in Duration /\ StartedAt \in Duration
  BY LimiterAssumption DEF TypeOK, Config, LimiterAssumption
<1>2. CASE cfg.slow_start = None
  BY <1>1, <1>2 DEF EffectiveAlgorithm
<1>3. CASE cfg.slow_start # None
  <2>1. cfg.slow_start \in Duration
    BY <1>3 DEF TypeOK, Config
  <2>2. \A max \in Nat : Ramped(max) \in 0..max
    BY <1>1, <2>1, EffectiveBound DEF Ramped
  <2>3. CASE a.kind = "FixedWindow"
    <3>1. a \in FixedWindowAlgorithm
      BY <1>1, <2>3 DEF AlgorithmConfig, TokenBucketAlgorithm
    <3>2. Ramped(a.max_per_window) \in U32
      BY <2>2, <3>1, Widths DEF FixedWindowAlgorithm, U32
    <3>3. EffectiveAlgorithm = [a EXCEPT !.max_per_window = Ramped(a.max_per_window)]
      BY <1>3, <2>3 DEF EffectiveAlgorithm
    <3> QED
      BY <2>3, <3>1, <3>2, <3>3 DEF AlgorithmConfig, FixedWindowAlgorithm
  <2>4. CASE a.kind # "FixedWindow"
    <3>1. a \in TokenBucketAlgorithm
      BY <1>1, <2>4 DEF AlgorithmConfig, FixedWindowAlgorithm
    <3>2. Ramped(a.capacity) \in U64 /\ Ramped(a.refill_per_sec) \in U64
      BY <2>2, <3>1, Widths DEF TokenBucketAlgorithm, U64
    <3>3. EffectiveAlgorithm = [a EXCEPT !.capacity = Ramped(a.capacity),
                                         !.refill_per_sec = Ramped(a.refill_per_sec)]
      BY <1>3, <2>4 DEF EffectiveAlgorithm
    <3> QED
      BY <2>4, <3>1, <3>2, <3>3 DEF AlgorithmConfig, TokenBucketAlgorithm
  <2> QED
    BY <2>3, <2>4
<1> QED
  BY <1>2, <1>3

-----------------------------------------------------------------------------
(***************************************************************************)
(* Units of capacity, counted.                                             *)
(***************************************************************************)
PermitTable == [Callers -> Permit \cup {NoPermit}]

UnitsOf(table, k) ==
  {u \in Callers \X Cost : table[u[1]].key = k /\ u[2] <= table[u[1]].cost}

\* No permit looks like the absence of one.
LEMMA NoPermitIsNone == NoPermit \notin Permit /\ NoPermit.key \notin Keys /\ NoPermit.cost = 0
BY LimiterAssumption DEF NoPermit, Permit, LimiterAssumption

\* The units are finitely many and fit a u64.
LEMMA UnitsFit ==
  ASSUME NEW table, NEW k
  PROVE  /\ IsFiniteSet(UnitsOf(table, k))
         /\ Cardinality(UnitsOf(table, k)) \in Nat
         /\ Cardinality(UnitsOf(table, k)) <= U64Max
<1>1. IsFiniteSet(Cost) /\ Cardinality(Cost) = U32Max
  BY FS_Interval, WidthAssumption DEF Cost, WidthAssumption
<1>2. /\ IsFiniteSet(Callers \X Cost)
      /\ Cardinality(Callers \X Cost) = Cardinality(Callers) * Cardinality(Cost)
  BY <1>1, FS_Product, PermitsFitAssumption DEF PermitsFitAssumption
<1>3. Cardinality(Callers \X Cost) <= U64Max
  BY <1>1, <1>2, PermitsFitAssumption DEF PermitsFitAssumption
<1>4. UnitsOf(table, k) \subseteq Callers \X Cost
  BY DEF UnitsOf
<1>5. /\ IsFiniteSet(UnitsOf(table, k))
      /\ Cardinality(UnitsOf(table, k)) <= Cardinality(Callers \X Cost)
  BY <1>2, <1>4, FS_Subset
<1>6. Cardinality(UnitsOf(table, k)) \in Nat /\ Cardinality(Callers \X Cost) \in Nat
  BY <1>2, <1>5, FS_CardinalityType
<1> QED
  BY <1>3, <1>5, <1>6, Widths

\* Giving c a permit adds its cost to the units of its key and to no other's.
LEMMA UnitsOfGrant ==
  ASSUME NEW table \in PermitTable, NEW c \in Callers, table[c] = NoPermit,
         NEW p \in Permit
  PROVE  LET after == [table EXCEPT ![c] = p] IN
         /\ Cardinality(UnitsOf(after, p.key)) = Cardinality(UnitsOf(table, p.key)) + p.cost
         /\ \A k \in Keys : k # p.key => UnitsOf(after, k) = UnitsOf(table, k)
<1> DEFINE after == [table EXCEPT ![c] = p]
           new == {c} \X (1..p.cost)
           old == UnitsOf(table, p.key)
<1>1. p.key \in Keys /\ p.cost \in Cost
  BY DEF Permit
<1>2. p.cost \in Nat /\ \A n \in 1..p.cost : n \in Cost
  BY <1>1, Widths DEF Cost
<1>3. after[c] = p /\ \A d \in Callers : d # c => after[d] = table[d]
  BY DEF PermitTable
<1>4. table[c].key \notin Keys
  BY NoPermitIsNone
<1> HIDE DEF after
<1>5. UnitsOf(after, p.key) = old \cup new
  <2>1. \A u \in UnitsOf(after, p.key) : u \in old \cup new
    BY <1>3 DEF UnitsOf, Cost
  <2>2. \A u \in old : u \in UnitsOf(after, p.key)
    BY <1>1, <1>3, <1>4 DEF UnitsOf
  <2>3. \A u \in new : u \in UnitsOf(after, p.key)
    BY <1>2, <1>3 DEF UnitsOf
  <2> QED
    BY <2>1, <2>2, <2>3
<1>6. old \cap new = {}
  BY <1>1, <1>4 DEF UnitsOf
<1>7. IsFiniteSet(new) /\ Cardinality(new) = p.cost
  <2>1. IsFiniteSet({c}) /\ Cardinality({c}) = 1
    BY FS_Singleton
  <2>2. IsFiniteSet(1..p.cost) /\ Cardinality(1..p.cost) = p.cost
    <3> DEFINE n == p.cost
    <3>1. n \in Nat
      BY <1>2
    <3> HIDE DEF n
    <3>2. /\ IsFiniteSet(1..n)
          /\ Cardinality(1..n) = IF 1 > n THEN 0 ELSE n - 1 + 1
      BY <3>1, FS_Interval
    <3>3. Cardinality(1..n) = n
      BY <3>1, <3>2
    <3> QED
      BY <3>2, <3>3 DEF n
  <2>3. IsFiniteSet(new) /\ Cardinality(new) = 1 * p.cost
    <3> DEFINE units == 1..p.cost
    <3>1. /\ IsFiniteSet({c} \X units)
          /\ Cardinality({c} \X units) = Cardinality({c}) * Cardinality(units)
      <4>1. IsFiniteSet({c}) /\ IsFiniteSet(units)
        BY <2>1, <2>2
      <4> HIDE DEF units
      <4> QED
        BY <4>1, FS_Product
    <3> QED
      BY <2>1, <2>2, <3>1, Zenon
  <2> QED
    BY <1>2, <2>3
<1>8. IsFiniteSet(old) /\ Cardinality(old) \in Nat
  BY UnitsFit
<1> HIDE DEF new, old
<1>9. Cardinality(old \cup new) = Cardinality(old) + Cardinality(new) - Cardinality(old \cap new)
  BY <1>7, <1>8, FS_Union
<1>10. Cardinality(old \cap new) = 0
  BY <1>6, FS_EmptySet
<1>11. Cardinality(UnitsOf(after, p.key)) = Cardinality(old) + p.cost
  BY <1>2, <1>5, <1>7, <1>8, <1>9, <1>10
<1>12. \A k \in Keys : k # p.key => UnitsOf(after, k) = UnitsOf(table, k)
  BY <1>3, <1>4 DEF UnitsOf
<1> QED
  BY <1>11, <1>12 DEF after, old

\* Taking c's permit away subtracts its cost from its key's units only.
LEMMA UnitsOfFinalization ==
  ASSUME NEW table \in PermitTable, NEW c \in Callers, table[c] # NoPermit
  PROVE  LET after == [table EXCEPT ![c] = NoPermit]
             p == table[c]
         IN
         /\ p \in Permit
         /\ p.cost <= Cardinality(UnitsOf(table, p.key))
         /\ Cardinality(UnitsOf(after, p.key)) = Cardinality(UnitsOf(table, p.key)) - p.cost
         /\ \A k \in Keys : k # p.key => UnitsOf(after, k) = UnitsOf(table, k)
<1> DEFINE after == [table EXCEPT ![c] = NoPermit]
           p == table[c]
<1>1. p \in Permit /\ after \in PermitTable /\ after[c] = NoPermit
  BY DEF PermitTable
<1>2. table = [after EXCEPT ![c] = p]
  BY DEF PermitTable
<1>3. p.cost \in Nat
  BY <1>1, Widths DEF Permit, Cost
<1> HIDE DEF after, p
<1>4. /\ Cardinality(UnitsOf(table, p.key)) = Cardinality(UnitsOf(after, p.key)) + p.cost
      /\ \A k \in Keys : k # p.key => UnitsOf(table, k) = UnitsOf(after, k)
  BY <1>1, <1>2, UnitsOfGrant
<1>5. Cardinality(UnitsOf(after, p.key)) \in Nat
  BY UnitsFit
<1>6. /\ p.cost <= Cardinality(UnitsOf(table, p.key))
      /\ Cardinality(UnitsOf(after, p.key)) = Cardinality(UnitsOf(table, p.key)) - p.cost
  BY <1>3, <1>4, <1>5
<1>7. \A k \in Keys : k # p.key => UnitsOf(after, k) = UnitsOf(table, k)
  BY <1>4
<1> QED
  BY <1>1, <1>6, <1>7 DEF after, p

\* A permit holds at least one unit of its key.
LEMMA PermitHoldsUnit ==
  ASSUME NEW table \in PermitTable, NEW c \in Callers, table[c] # NoPermit
  PROVE  Cardinality(UnitsOf(table, table[c].key)) # 0
<1>1. table[c] \in Permit
  BY DEF PermitTable
<1>2. table[c].cost \in Nat /\ table[c].cost # 0
  BY <1>1, Widths DEF Permit, Cost
<1>3. table[c].cost <= Cardinality(UnitsOf(table, table[c].key))
  BY UnitsOfFinalization
<1>4. Cardinality(UnitsOf(table, table[c].key)) \in Nat
  BY UnitsFit
<1> QED
  BY <1>2, <1>3, <1>4

-----------------------------------------------------------------------------
(***************************************************************************)
(* The invariant key by key: an operation disturbs the key it works on and *)
(* the one it evicts, and the others keep their books.                     *)
(***************************************************************************)
KeyOK(k) ==
  /\ Tracked(k) =>
       /\ buckets[k].state.algo = cfg.algorithm.kind
       /\ Outstanding(buckets[k].state) = Cardinality(UnitsOf(permits, k))
  /\ \A c \in Callers :
       permits[c].key = k =>
         /\ Tracked(k)
         /\ buckets[k].state.algo = permits[c].algo
         /\ permits[c].algo = "FixedWindow"
              => buckets[k].state.window_start = permits[c].window_start

\* The units the safety property counts.
LEMMA UnitsAreHeld == \A k : HeldUnits(k) = UnitsOf(permits, k)
BY DEF HeldUnits, UnitsOf

\* A caller holds a permit exactly when it names a key.
LEMMA HoldsIffKey ==
  ASSUME TypeOK, NEW c \in Callers
  PROVE  /\ Holds(c) <=> permits[c].key \in Keys
         /\ Holds(c) => permits[c] \in Permit
BY NoPermitIsNone DEF TypeOK, Holds, Permit

\* The inductive invariant is the types and every key's books.
LEMMA InvByKey ==
  ASSUME TypeOK
  PROVE  IInv <=> \A k \in Keys : KeyOK(k)
<1>1. ASSUME IInv PROVE \A k \in Keys : KeyOK(k)
  <2> SUFFICES ASSUME NEW k \in Keys PROVE KeyOK(k)
    OBVIOUS
  <2>1. Tracked(k) => /\ buckets[k].state.algo = cfg.algorithm.kind
                      /\ Outstanding(buckets[k].state) = Cardinality(UnitsOf(permits, k))
    BY <1>1, UnitsAreHeld DEF IInv, BucketsRunAlgorithm, OutstandingIsHeld, TrackedKeys
  <2>2. ASSUME NEW c \in Callers, permits[c].key = k
        PROVE  /\ Tracked(k)
               /\ buckets[k].state.algo = permits[c].algo
               /\ permits[c].algo = "FixedWindow"
                    => buckets[k].state.window_start = permits[c].window_start
    BY <1>1, <2>2, HoldsIffKey DEF IInv, PermitsFinalizable
  <2> QED
    BY <2>1, <2>2 DEF KeyOK
<1>2. ASSUME \A k \in Keys : KeyOK(k) PROVE IInv
  <2>1. BucketsRunAlgorithm
    BY <1>2 DEF KeyOK, BucketsRunAlgorithm, TrackedKeys
  <2>2. OutstandingIsHeld
    BY <1>2, UnitsAreHeld DEF KeyOK, OutstandingIsHeld, TrackedKeys
  <2>3. PermitsFinalizable
    <3> SUFFICES ASSUME NEW c \in Callers, Holds(c)
                 PROVE  LET p == permits[c] IN
                        /\ Tracked(p.key)
                        /\ buckets[p.key].state.algo = p.algo
                        /\ cfg.algorithm.kind = p.algo
                        /\ p.algo = "FixedWindow"
                             => buckets[p.key].state.window_start = p.window_start
      BY DEF PermitsFinalizable
    <3>1. permits[c].key \in Keys
      BY HoldsIffKey
    <3>2. KeyOK(permits[c].key)
      BY <1>2, <3>1
    <3> QED
      BY <3>2 DEF KeyOK
  <2> QED
    BY <2>1, <2>2, <2>3 DEF IInv
<1> QED
  BY <1>1, <1>2

\* A key whose bucket is missing or idle has no open permit.
LEMMA EvictableHasNoPermit ==
  ASSUME TypeOK, NEW k \in Keys, KeyOK(k), Evictable(k)
  PROVE  \A c \in Callers : permits[c].key # k
<1> SUFFICES ASSUME NEW c \in Callers, permits[c].key = k PROVE FALSE
  OBVIOUS
<1>1. Tracked(k) /\ Outstanding(buckets[k].state) = Cardinality(UnitsOf(permits, k))
  BY DEF KeyOK
<1>2. permits[c] # NoPermit /\ permits \in PermitTable
  BY NoPermitIsNone DEF TypeOK, PermitTable
<1>3. Cardinality(UnitsOf(permits, k)) # 0
  BY <1>2, PermitHoldsUnit
<1> QED
  BY <1>1, <1>3 DEF Evictable, HasOutstanding

\* A key without permits has no units.
LEMMA NoPermitNoUnits ==
  ASSUME NEW table, NEW k, \A c \in Callers : table[c].key # k
  PROVE  Cardinality(UnitsOf(table, k)) = 0
<1>1. UnitsOf(table, k) = {}
  BY DEF UnitsOf
<1> QED
  BY <1>1, FS_EmptySet

\* What an operation does to the keys it is not about.
LEMMA OtherKey ==
  ASSUME TypeOK, NEW k \in Keys, KeyOK(k), UNCHANGED cfg,
         \A c \in Callers :
           permits[c].key = k \/ permits'[c].key = k => permits'[c] = permits[c],
         \/ buckets'[k] = buckets[k]
         \/ buckets'[k] = NoBucket /\ Evictable(k)
  PROVE  KeyOK(k)'
<1>1. UnitsOf(permits', k) = UnitsOf(permits, k)
  BY DEF UnitsOf
<1>2. CASE buckets'[k] = buckets[k]
  BY <1>1, <1>2 DEF KeyOK, Tracked
<1>3. CASE buckets'[k] = NoBucket /\ Evictable(k)
  <2>1. \A c \in Callers : permits[c].key # k
    BY <1>3, EvictableHasNoPermit
  <2> QED
    BY <1>3, <2>1 DEF KeyOK, Tracked
<1> QED
  BY <1>2, <1>3

\* The bucket an operation finds or makes for a key has the key's books.
LEMMA BucketAtKey ==
  ASSUME TypeOK, NEW key \in Keys, KeyOK(key)
  PROVE  /\ BucketAt(key) \in Bucket
         /\ BucketAt(key).state.algo = cfg.algorithm.kind
         /\ Outstanding(BucketAt(key).state) = Cardinality(UnitsOf(permits, key))
         /\ Tracked(key) => BucketAt(key) = buckets[key]
<1>1. CASE Tracked(key)
  BY <1>1 DEF BucketAt, KeyOK, TypeOK, Tracked
<1>2. CASE ~Tracked(key)
  <2>1. Cardinality(UnitsOf(permits, key)) = 0
    <3>1. \A c \in Callers : permits[c].key # key
      BY <1>2 DEF KeyOK
    <3> QED
      BY <3>1, NoPermitNoUnits
  <2>2. now \in Duration /\ cfg.algorithm \in AlgorithmConfig
    BY DEF TypeOK, Config
  <2> QED
    BY <1>2, <2>1, <2>2, NewBucketEffect DEF BucketAt
<1> QED
  BY <1>1, <1>2

\* Placing a bucket changes its key, evicts at most one idle key, and keeps the types.
LEMMA PlaceEffect ==
  ASSUME TypeOK, NEW key \in Keys, NEW b \in Bucket, NEW i \in 0..Len(fifo),
         HasRoom(key, i), Place(key, i, b)
  PROVE  /\ fifo' \in Seq(Keys)
         /\ buckets' \in [Keys -> Bucket \cup {NoBucket}]
         /\ buckets'[key] = b
         /\ \A k \in Keys \ {key} :
              buckets'[k] = buckets[k] \/ (buckets'[k] = NoBucket /\ Evictable(k))
<1>1. fifo \in Seq(Keys) /\ buckets \in [Keys -> Bucket \cup {NoBucket}]
  BY DEF TypeOK
<1>2. i # 0 => RemoveAt(fifo, i) \in Seq(Keys)
  <2> SUFFICES ASSUME i # 0 PROVE RemoveAt(fifo, i) \in Seq(Keys)
    OBVIOUS
  <2>1. i \in 1..Len(fifo) /\ Len(fifo) \in Nat
    BY <1>1
  <2>2. SubSeq(fifo, 1, i - 1) \in Seq(Keys) /\ SubSeq(fifo, i + 1, Len(fifo)) \in Seq(Keys)
    BY <1>1, <2>1
  <2> QED
    BY <2>2 DEF RemoveAt
<1>3. fifo' \in Seq(Keys)
  BY <1>1, <1>2 DEF Place
<1>4. i # 0 => Evictable(fifo[i])
  BY DEF HasRoom, IsVictim
<1>5. buckets' = [k \in Keys |-> IF k = key THEN b
                                 ELSE IF i # 0 /\ k = fifo[i] THEN NoBucket
                                 ELSE buckets[k]]
  BY DEF Place
<1> QED
  BY <1>1, <1>3, <1>4, <1>5

-----------------------------------------------------------------------------
(***************************************************************************)
(* The steps.                                                              *)
(***************************************************************************)
LEMMA InitInv == Init => IInv
<1> SUFFICES ASSUME Init PROVE IInv
  OBVIOUS
<1>1. TypeOK
  <2>1. cfg \in Config /\ now \in Duration
    BY LimiterAssumption DEF Init, LimiterAssumption
  <2>2. reply \in [reason : Reasons, retry_after : Duration]
    BY Widths DEF Init, Reasons, Duration
  <2> QED
    BY <2>1, <2>2, Widths DEF Init, TypeOK, Duration
<1>2. \A k \in Keys : KeyOK(k)
  BY NoPermitIsNone DEF Init, KeyOK, Tracked
<1> QED
  BY <1>1, <1>2, InvByKey

\* A reply with a known reason and a representable wait.
LEMMA ReplyType ==
  ASSUME NEW reason \in Reasons, NEW wait \in Duration, Returns(reason, wait)
  PROVE  reply' \in [reason : Reasons, retry_after : Duration]
BY DEF Returns

\* What the configuration yields is well typed.
LEMMA ConfigType ==
  ASSUME TypeOK
  PROVE  /\ cfg.algorithm \in AlgorithmConfig
         /\ Limit(cfg.algorithm) \in Nat
         /\ cfg.slow_start # None => cfg.slow_start \in Duration
         /\ StartedAt \in Duration /\ now \in Duration
         /\ RetryAfterOnNewKeyDeny \in Duration
<1>1. cfg.algorithm \in AlgorithmConfig /\ (cfg.slow_start # None => cfg.slow_start \in Duration)
  BY DEF TypeOK, Config
<1>2. Limit(cfg.algorithm) \in Nat
  BY <1>1, AlgorithmKind, Widths DEF Limit, U32, U64
<1>3. NanosPerSec \in Duration
  <2>1. U64Max >= 1 /\ U64Max * NanosPerSec < DurationMax
    BY WidthAssumption DEF WidthAssumption
  <2>2. NanosPerSec <= U64Max * NanosPerSec
    BY <2>1, Widths
  <2> QED
    BY <2>1, <2>2, Widths DEF Duration
<1>4. RetryAfterOnNewKeyDeny \in Duration
  BY <1>1, <1>3, AlgorithmKind DEF RetryAfterOnNewKeyDeny
<1> QED
  BY <1>1, <1>2, <1>4, LimiterAssumption DEF TypeOK, LimiterAssumption

\* Slow start lowers the limits and leaves kind and window.
Lowers(effective, algorithm) ==
  /\ effective.kind = algorithm.kind
  /\ algorithm.kind = "FixedWindow" =>
       /\ effective.window = algorithm.window
       /\ effective.max_per_window <= algorithm.max_per_window
  /\ algorithm.kind # "FixedWindow" =>
       /\ effective.capacity <= algorithm.capacity
       /\ effective.refill_per_sec <= algorithm.refill_per_sec

\* Slow start only lowers limits.
LEMMA EffectiveLowers ==
  ASSUME TypeOK
  PROVE  Lowers(EffectiveAlgorithm, cfg.algorithm)
<1> DEFINE a == cfg.algorithm
<1>1. a \in AlgorithmConfig /\ now \in Duration /\ StartedAt \in Duration
  BY ConfigType
<1>2. CASE cfg.slow_start = None
  BY <1>1, <1>2, AlgorithmKind, Widths DEF EffectiveAlgorithm, Lowers, U32, U64
<1>3. CASE cfg.slow_start # None
  <2>1. cfg.slow_start \in Duration
    BY <1>3, ConfigType
  <2>2. \A max \in Nat : Ramped(max) \in 0..max
    BY <1>1, <2>1, EffectiveBound DEF Ramped
  <2>3. CASE a.kind = "FixedWindow"
    <3>1. EffectiveAlgorithm = [a EXCEPT !.max_per_window = Ramped(a.max_per_window)]
      BY <1>3, <2>3 DEF EffectiveAlgorithm
    <3>2. a \in FixedWindowAlgorithm /\ Ramped(a.max_per_window) \in 0..a.max_per_window
      BY <1>1, <2>2, <2>3, Widths DEF AlgorithmConfig, TokenBucketAlgorithm,
         FixedWindowAlgorithm, U32
    <3> HIDE DEF a
    <3>3. Lowers([a EXCEPT !.max_per_window = Ramped(a.max_per_window)], a)
      BY <2>3, <3>2 DEF Lowers, FixedWindowAlgorithm
    <3> QED
      BY <3>1, <3>3 DEF a
  <2>4. CASE a.kind # "FixedWindow"
    <3> DEFINE lowered == [a EXCEPT !.capacity = Ramped(a.capacity),
                                    !.refill_per_sec = Ramped(a.refill_per_sec)]
    <3>1. EffectiveAlgorithm = lowered
      BY <1>3, <2>4 DEF EffectiveAlgorithm
    <3>2. a \in TokenBucketAlgorithm /\ Ramped(a.refill_per_sec) \in 0..a.refill_per_sec
          /\ Ramped(a.capacity) \in 0..a.capacity
      BY <1>1, <2>2, <2>4, Widths DEF AlgorithmConfig, FixedWindowAlgorithm,
         TokenBucketAlgorithm, U64
    <3> HIDE DEF a
    <3>3. lowered.kind = a.kind /\ lowered.refill_per_sec = Ramped(a.refill_per_sec)
          /\ lowered.capacity = Ramped(a.capacity)
      BY <3>2 DEF TokenBucketAlgorithm
    <3> HIDE DEF lowered
    <3>4. Lowers(lowered, a)
      BY <2>4, <3>2, <3>3 DEF Lowers
    <3> QED
      BY <3>1, <3>4 DEF a
  <2> QED
    BY <2>3, <2>4
<1> QED
  BY <1>2, <1>3

\* A step that leaves configuration, buckets and permits alone keeps the books.
LEMMA BooksUntouched ==
  ASSUME IInv, TypeOK', UNCHANGED <<cfg, buckets, permits>>
  PROVE  IInv'
<1>1. \A k \in Keys : KeyOK(k)
  BY InvByKey DEF IInv
<1>2. ASSUME NEW k \in Keys PROVE KeyOK(k)'
  BY <1>1, OtherKey DEF IInv
<1>3. (IInv <=> \A k \in Keys : KeyOK(k))'
  BY InvByKey, PTL
<1> QED
  BY <1>2, <1>3

\* The three denials that never reach a bucket.
LEMMA EarlyDenyInv ==
  ASSUME IInv, NEW key \in Keys, NEW cost \in Cost,
         GlobalDeny \/ SlowStartDeny(cost) \/ KeyBoundDeny(key, cost),
         UNCHANGED <<cfg, route_map, global_blocked_until, now>>
  PROVE  IInv'
<1>1. TypeOK
  BY DEF IInv
<1>2. UNCHANGED <<buckets, fifo, permits>>
  BY DEF GlobalDeny, SlowStartDeny, KeyBoundDeny
<1>3. reply' \in [reason : Reasons, retry_after : Duration]
  <2>1. CASE GlobalDeny
    <3>1. global_blocked_until - now \in Duration
      BY <1>1, <2>1, Widths DEF TypeOK, GlobalDeny, Duration
    <3> QED
      BY <2>1, <3>1, ReplyType DEF GlobalDeny, Reasons
  <2>2. CASE SlowStartDeny(cost)
    <3> DEFINE wait ==
          RetryAfterForCost(Limit(cfg.algorithm), cfg.slow_start, StartedAt, now, cost)
    <3>1. wait \in Duration
      BY <1>1, <2>2, ConfigType, RetryAfterForCostType DEF SlowStartDeny, SlowStartDenies
    <3>2. Returns("SlowStart", wait)
      BY <2>2 DEF SlowStartDeny
    <3> QED
      BY <3>1, <3>2, ReplyType DEF Reasons
  <2>3. CASE KeyBoundDeny(key, cost)
    BY <1>1, <2>3, ConfigType, ReplyType DEF KeyBoundDeny, Reasons
  <2> QED
    BY <2>1, <2>2, <2>3
<1>4. TypeOK'
  BY <1>1, <1>2, <1>3 DEF TypeOK
<1> QED
  BY <1>2, <1>4, BooksUntouched

\* The bucket's answer: granted permits and outstanding capacity grow together.
LEMMA BucketAnswerInv ==
  ASSUME IInv, NEW c \in Callers, NEW key \in Keys, NEW cost \in Cost, ~Holds(c),
         BucketAnswer(c, key, cost),
         UNCHANGED <<cfg, route_map, global_blocked_until, now>>
  PROVE  IInv'
<1> DEFINE b == BucketAt(key)
           answer == TryReserve(b, EffectiveAlgorithm, cost, now)
           p == PermitFor(key, cost, answer.bucket.state)
<1>1. TypeOK /\ permits \in PermitTable /\ permits[c] = NoPermit
  BY DEF IInv, TypeOK, PermitTable, Holds
<1>2. \A k \in Keys : KeyOK(k)
  BY <1>1, InvByKey
<1>3. /\ b \in Bucket /\ b.state.algo = cfg.algorithm.kind
      /\ Outstanding(b.state) = Cardinality(UnitsOf(permits, key))
      /\ Tracked(key) => b = buckets[key]
  BY <1>1, <1>2, BucketAtKey
<1>4. EffectiveAlgorithm \in AlgorithmConfig /\ now \in Duration
  BY <1>1, EffectiveAlgorithmType DEF TypeOK
<1> HIDE DEF b
<1>5. /\ answer.bucket \in Bucket
      /\ answer.reason \in BucketReasons
      /\ answer.retry_after \in Duration
      /\ answer.bucket.state.algo = b.state.algo
      /\ answer.reason = "Granted" /\ Outstanding(b.state) + cost <= U64Max
           => Outstanding(answer.bucket.state) = Outstanding(b.state) + cost
      /\ answer.reason # "Granted"
           => Outstanding(answer.bucket.state) = Outstanding(b.state)
      /\ b.state.algo = "FixedWindow" /\ Outstanding(b.state) # 0
           => answer.bucket.state.window_start = b.state.window_start
  BY <1>3, <1>4, TryReserveEffect
<1>6. PICK i \in 0..Len(fifo) : HasRoom(key, i) /\ Place(key, i, answer.bucket)
  BY DEF BucketAnswer, b
<1>7. /\ permits' = IF answer.reason = "Granted" THEN [permits EXCEPT ![c] = p] ELSE permits
      /\ Returns(DenyReason(answer.reason), answer.retry_after)
  BY DEF BucketAnswer, b
<1> HIDE DEF answer
<1>8. /\ fifo' \in Seq(Keys)
      /\ buckets' \in [Keys -> Bucket \cup {NoBucket}]
      /\ buckets'[key] = answer.bucket
      /\ \A k \in Keys \ {key} :
           buckets'[k] = buckets[k] \/ (buckets'[k] = NoBucket /\ Evictable(k))
  BY <1>1, <1>5, <1>6, PlaceEffect
<1>9. p \in Permit /\ p.key = key /\ p.cost = cost /\ p.algo = answer.bucket.state.algo
      /\ (p.algo = "FixedWindow" => p.window_start = answer.bucket.state.window_start)
  <2>1. answer.bucket.state \in BucketState
    BY <1>5 DEF Bucket, BucketState
  <2>2. /\ answer.bucket.state.algo \in {"FixedWindow", "TokenBucket"}
        /\ answer.bucket.state.algo = "FixedWindow"
             => answer.bucket.state.window_start \in Duration
    BY <2>1 DEF BucketState, FixedWindowState, TokenBucketState
  <2> QED
    BY <2>2, Widths DEF PermitFor, Permit, Duration
<1> HIDE DEF p
<1>10. DenyReason(answer.reason) \in Reasons
  BY <1>5 DEF BucketReasons, DenyReason, Reasons
<1>11. reply' \in [reason : Reasons, retry_after : Duration]
  BY <1>5, <1>7, <1>10, ReplyType
<1>12. permits' \in PermitTable
  BY <1>1, <1>7, <1>9 DEF PermitTable
<1>13. TypeOK'
  BY <1>1, <1>8, <1>11, <1>12 DEF TypeOK, PermitTable
<1>14. KeyOK(key)'
  <2>1. buckets'[key] # NoBucket
    BY <1>5, <1>8, NoBucketIsNone
  <2>2. CASE answer.reason = "Granted"
    <3>1. permits' = [permits EXCEPT ![c] = p]
      BY <1>7, <2>2
    <3>2. Cardinality(UnitsOf(permits', key)) = Cardinality(UnitsOf(permits, key)) + cost
      BY <1>1, <1>9, <3>1, UnitsOfGrant
    <3>3. Cardinality(UnitsOf(permits', key)) <= U64Max
      BY UnitsFit
    <3>4. Outstanding(answer.bucket.state) = Cardinality(UnitsOf(permits', key))
      BY <1>3, <1>5, <2>2, <3>2, <3>3
    <3>5. ASSUME NEW d \in Callers, permits'[d].key = key
          PROVE  /\ answer.bucket.state.algo = permits'[d].algo
                 /\ permits'[d].algo = "FixedWindow"
                      => answer.bucket.state.window_start = permits'[d].window_start
      <4>1. CASE d = c
        BY <1>1, <1>9, <3>1, <4>1 DEF PermitTable
      <4>2. CASE d # c
        <5>1. permits'[d] = permits[d] /\ permits[d].key = key
          BY <1>1, <3>1, <3>5, <4>2 DEF PermitTable
        <5>2. permits[d] # NoPermit
          BY <5>1, NoPermitIsNone
        <5>3. Outstanding(b.state) # 0
          BY <1>1, <1>3, <5>1, <5>2, PermitHoldsUnit
        <5>4. /\ Tracked(key) /\ buckets[key].state.algo = permits[d].algo
              /\ permits[d].algo = "FixedWindow"
                   => buckets[key].state.window_start = permits[d].window_start
          BY <1>2, <5>1 DEF KeyOK
        <5> QED
          BY <1>3, <1>5, <5>1, <5>3, <5>4
      <4> QED
        BY <4>1, <4>2
    <3> QED
      BY <1>3, <1>5, <1>8, <2>1, <3>4, <3>5 DEF KeyOK, Tracked
  <2>3. CASE answer.reason # "Granted"
    <3>1. permits' = permits
      BY <1>7, <2>3
    <3>2. Outstanding(answer.bucket.state) = Cardinality(UnitsOf(permits', key))
      BY <1>3, <1>5, <2>3, <3>1
    <3>3. ASSUME NEW d \in Callers, permits[d].key = key
          PROVE  /\ answer.bucket.state.algo = permits[d].algo
                 /\ permits[d].algo = "FixedWindow"
                      => answer.bucket.state.window_start = permits[d].window_start
      <4>1. permits[d] # NoPermit
        BY <3>3, NoPermitIsNone
      <4>2. Outstanding(b.state) # 0
        BY <1>1, <1>3, <3>3, <4>1, PermitHoldsUnit
      <4>3. /\ Tracked(key) /\ buckets[key].state.algo = permits[d].algo
            /\ permits[d].algo = "FixedWindow"
                 => buckets[key].state.window_start = permits[d].window_start
        BY <1>2, <3>3 DEF KeyOK
      <4> QED
        BY <1>3, <1>5, <4>2, <4>3
    <3> QED
      BY <1>3, <1>5, <1>8, <2>1, <3>1, <3>2, <3>3 DEF KeyOK, Tracked
  <2> QED
    BY <2>2, <2>3
<1>15. ASSUME NEW k \in Keys, k # key PROVE KeyOK(k)'
  <2>1. \A d \in Callers :
          permits[d].key = k \/ permits'[d].key = k => permits'[d] = permits[d]
    BY <1>1, <1>7, <1>9, <1>15, NoPermitIsNone DEF PermitTable
  <2> QED
    BY <1>1, <1>2, <1>8, <1>15, <2>1, OtherKey
<1>16. (IInv <=> \A k \in Keys : KeyOK(k))'
  BY <1>13, InvByKey, PTL
<1> QED
  BY <1>14, <1>15, <1>16

\* try_acquire keeps the invariant, whichever of its returns it takes.
LEMMA TryAcquireInv ==
  ASSUME IInv, NEW c \in Callers, NEW route \in Keys, NEW cost \in Costs,
         TryAcquire(c, route, cost)
  PROVE  IInv'
<1> DEFINE key == ResolveBucketKey(route_map, route)
<1>1. key \in Keys
  BY DEF IInv, TypeOK, ResolveBucketKey
<1>2. cost \in Cost
  BY LimiterAssumption DEF LimiterAssumption
<1>3. /\ ~Holds(c)
      /\ \/ GlobalDeny \/ SlowStartDeny(cost) \/ KeyBoundDeny(key, cost)
         \/ BucketAnswer(c, key, cost)
      /\ UNCHANGED <<cfg, route_map, global_blocked_until, now>>
  BY DEF TryAcquire
<1> HIDE DEF key
<1>4. CASE BucketAnswer(c, key, cost)
  BY <1>1, <1>2, <1>3, <1>4, BucketAnswerInv
<1>5. CASE GlobalDeny \/ SlowStartDeny(cost) \/ KeyBoundDeny(key, cost)
  BY <1>1, <1>2, <1>3, <1>5, EarlyDenyInv
<1> QED
  BY <1>3, <1>4, <1>5

(***************************************************************************)
(* Finalization: the bucket releases exactly what the permit held.  `b` is *)
(* what commit or refund makes of the permit's bucket.                     *)
(***************************************************************************)
LEMMA FinalizedInv ==
  ASSUME IInv, NEW c \in Callers, NEW b, Holds(c), Finalized(c, b),
         StillKnows(buckets[permits[c].key].state, permits[c], cfg.algorithm)
           => /\ b \in Bucket
              /\ Finalizes(buckets[permits[c].key].state, permits[c], b.state),
         global_blocked_until' \in Duration
  PROVE  IInv'
<1> DEFINE p == permits[c]
           old == buckets[p.key].state
<1>1. TypeOK /\ permits \in PermitTable /\ permits[c] # NoPermit
  BY DEF IInv, TypeOK, PermitTable, Holds
<1>2. \A k \in Keys : KeyOK(k)
  BY <1>1, InvByKey
<1>3. /\ p \in Permit /\ p.key \in Keys /\ p.cost \in Cost
      /\ p.cost <= Cardinality(UnitsOf(permits, p.key))
  BY <1>1, UnitsOfFinalization DEF Permit
<1>4. /\ Tracked(p.key) /\ old.algo = p.algo /\ old.algo = cfg.algorithm.kind
      /\ p.algo = "FixedWindow" => old.window_start = p.window_start
      /\ Outstanding(old) = Cardinality(UnitsOf(permits, p.key))
  BY <1>2, <1>3 DEF KeyOK
<1>5. StillKnows(old, p, cfg.algorithm)
  BY <1>3, <1>4 DEF StillKnows
<1>6. b \in Bucket /\ Finalizes(old, p, b.state)
  BY <1>5
<1>7. /\ buckets' = [buckets EXCEPT ![p.key] = b]
      /\ permits' = [permits EXCEPT ![c] = NoPermit]
      /\ Returns("None", 0)
      /\ UNCHANGED <<cfg, route_map, fifo, now>>
  BY <1>4 DEF Finalized
<1>8. /\ Cardinality(UnitsOf(permits', p.key)) = Cardinality(UnitsOf(permits, p.key)) - p.cost
      /\ \A k \in Keys : k # p.key => UnitsOf(permits', k) = UnitsOf(permits, k)
  BY <1>1, <1>7, UnitsOfFinalization
<1> HIDE DEF p, old
<1>9. /\ buckets' \in [Keys -> Bucket \cup {NoBucket}]
      /\ buckets'[p.key] = b
      /\ \A k \in Keys : k # p.key => buckets'[k] = buckets[k]
  BY <1>1, <1>3, <1>6, <1>7 DEF TypeOK
<1>10. /\ permits' \in PermitTable /\ permits'[c] = NoPermit
       /\ \A d \in Callers : d # c => permits'[d] = permits[d]
  BY <1>1, <1>7 DEF PermitTable
<1>11. reply' \in [reason : Reasons, retry_after : Duration]
  BY <1>7, ReplyType, Widths DEF Reasons, Duration
<1>12. TypeOK'
  BY <1>1, <1>7, <1>9, <1>10, <1>11 DEF TypeOK, PermitTable
<1>13. ASSUME NEW k \in Keys, k = p.key PROVE KeyOK(k)'
  <2>1. buckets'[k] = b /\ b # NoBucket
    BY <1>6, <1>9, <1>13, NoBucketIsNone
  <2>2. /\ b.state.algo = old.algo
        /\ Outstanding(b.state) = Cardinality(UnitsOf(permits', k))
        /\ old.algo = "FixedWindow" => b.state.window_start = old.window_start
    BY <1>4, <1>6, <1>8, <1>13 DEF Finalizes
  <2>3. ASSUME NEW d \in Callers, permits'[d].key = k
        PROVE  /\ b.state.algo = permits'[d].algo
               /\ permits'[d].algo = "FixedWindow"
                    => b.state.window_start = permits'[d].window_start
    <3>1. d # c
      BY <1>10, <2>3, NoPermitIsNone
    <3>2. permits'[d] = permits[d]
      BY <1>10, <3>1
    <3>3. /\ old.algo = permits[d].algo
          /\ permits[d].algo = "FixedWindow" => old.window_start = permits[d].window_start
      BY <1>2, <1>13, <2>3, <3>2 DEF KeyOK, old
    <3> QED
      BY <2>2, <3>2, <3>3
  <2>4. b.state.algo = cfg'.algorithm.kind
    BY <1>4, <1>7, <2>2
  <2> QED
    BY <2>1, <2>2, <2>3, <2>4 DEF KeyOK, Tracked
<1>14. ASSUME NEW k \in Keys, k # p.key PROVE KeyOK(k)'
  <2>1. \A d \in Callers :
          permits[d].key = k \/ permits'[d].key = k => permits'[d] = permits[d]
    BY <1>10, <1>14, NoPermitIsNone DEF p
  <2> QED
    BY <1>1, <1>2, <1>7, <1>9, <1>14, <2>1, OtherKey
<1>15. (IInv <=> \A k \in Keys : KeyOK(k))'
  BY <1>12, InvByKey, PTL
<1> QED
  BY <1>13, <1>14, <1>15

\* The bucket of a held permit, as FinalizeEffect wants it.
LEMMA HeldBucket ==
  ASSUME IInv, NEW c \in Callers, Holds(c)
  PROVE  /\ buckets[permits[c].key] \in Bucket
         /\ cfg.algorithm \in AlgorithmConfig
         /\ now \in Duration /\ global_blocked_until \in Duration
BY HoldsIffKey DEF IInv, TypeOK, PermitsFinalizable, Tracked, Config

\* commit keeps the invariant, also when the outcome carries a backoff.
LEMMA CommitInv ==
  ASSUME IInv, NEW c \in Callers, NEW outcome \in Outcome, Commit(c, outcome)
  PROVE  IInv'
<1> DEFINE p == permits[c]
           until == SatAdd(now, outcome.retry_after, DurationMax)
           block == IF outcome.scope = "Key" THEN until ELSE 0
           sent == outcome.kind # "NotSent"
           b == BucketCommit(buckets[p.key], p, sent, block, cfg.algorithm, now)
<1>1. Holds(c) /\ Finalized(c, b)
  BY DEF Commit
<1>2. /\ buckets[p.key] \in Bucket /\ cfg.algorithm \in AlgorithmConfig
      /\ now \in Duration /\ global_blocked_until \in Duration
  BY <1>1, HeldBucket
<1>3. outcome.retry_after \in Nat
  <2>1. outcome.retry_after \in {0} \cup Backoffs
    BY DEF Outcome
  <2>2. Backoffs \subseteq Duration
    BY LimiterAssumption DEF LimiterAssumption
  <2>3. \A wait \in {0} \cup Backoffs : wait \in Nat
    BY <2>2, Widths DEF Duration
  <2> QED
    BY <2>1, <2>3
<1>4. until \in Duration
  BY <1>2, <1>3, Widths DEF SatAdd, Lesser, Duration
<1>5. global_blocked_until' \in Duration
  BY <1>2, <1>4, Widths DEF Commit, Greater, Duration
<1> HIDE DEF until
<1>6. block \in Duration /\ sent \in BOOLEAN
  BY <1>4, Widths DEF Duration
<1> HIDE DEF block, sent
<1>7. StillKnows(buckets[p.key].state, p, cfg.algorithm)
        => b \in Bucket /\ Finalizes(buckets[p.key].state, p, b.state)
  BY <1>2, <1>6, FinalizeEffect
<1> HIDE DEF b
<1> QED
  BY <1>1, <1>5, <1>7, FinalizedInv

\* refund keeps the invariant.
LEMMA RefundInv ==
  ASSUME IInv, NEW c \in Callers, Refund(c)
  PROVE  IInv'
<1> DEFINE p == permits[c]
           b == BucketRefund(buckets[p.key], p, cfg.algorithm, now)
<1>1. Holds(c) /\ Finalized(c, b) /\ UNCHANGED global_blocked_until
  BY DEF Refund
<1>2. /\ buckets[p.key] \in Bucket /\ cfg.algorithm \in AlgorithmConfig
      /\ now \in Duration /\ global_blocked_until \in Duration
  BY <1>1, HeldBucket
<1>3. 0 \in Duration /\ TRUE \in BOOLEAN
  BY Widths DEF Duration
<1>4. StillKnows(buckets[p.key].state, p, cfg.algorithm)
        => b \in Bucket /\ Finalizes(buckets[p.key].state, p, b.state)
  BY <1>2, <1>3, FinalizeEffect
<1> HIDE DEF b
<1> QED
  BY <1>1, <1>2, <1>4, FinalizedInv

\* A held permit's bucket knows it, so what becomes of the bucket is a bucket.
LEMMA HeldBucketKnows ==
  ASSUME IInv, NEW c \in Callers, Holds(c)
  PROVE  /\ permits[c].key \in Keys /\ Tracked(permits[c].key)
         /\ StillKnows(buckets[permits[c].key].state, permits[c], cfg.algorithm)
<1> DEFINE p == permits[c]
<1>1. TypeOK /\ permits \in PermitTable /\ permits[c] # NoPermit
  BY DEF IInv, TypeOK, PermitTable, Holds
<1>2. \A k \in Keys : KeyOK(k)
  BY <1>1, InvByKey
<1>3. /\ p \in Permit /\ p.key \in Keys /\ p.cost \in Cost
      /\ p.cost <= Cardinality(UnitsOf(permits, p.key))
  BY <1>1, UnitsOfFinalization DEF Permit
<1> QED
  BY <1>2, <1>3 DEF KeyOK, StillKnows

-----------------------------------------------------------------------------
\* The time a rate-limited outcome asks to wait until.
OutcomeUntil(outcome) == SatAdd(now, outcome.retry_after, DurationMax)

KeyBlock(outcome) == IF outcome.scope = "Key" THEN OutcomeUntil(outcome) ELSE 0

LEMMA OutcomeUntilType ==
  ASSUME TypeOK, NEW outcome \in Outcome
  PROVE  OutcomeUntil(outcome) \in Duration /\ KeyBlock(outcome) \in Duration
<1>1. outcome.retry_after \in {0} \cup Backoffs
  BY DEF Outcome
<1>2. \A wait \in {0} \cup Backoffs : wait \in Nat
  <2>1. Backoffs \subseteq Duration
    BY LimiterAssumption DEF LimiterAssumption
  <2> QED
    BY <2>1, Widths DEF Duration
<1>3. outcome.retry_after \in Nat
  BY <1>1, <1>2
<1>4. now \in Nat
  BY Widths DEF Duration, TypeOK
<1> QED
  BY <1>3, <1>4, Widths DEF OutcomeUntil, KeyBlock, SatAdd, Lesser, Duration

\* What a feedback signal yields is well typed.
LEMMA FeedbackType ==
  ASSUME TypeOK, NEW route \in Keys, NEW f \in Feedbacks
  PROVE  /\ FeedbackUntil(f) \in Duration
         /\ RemappedBy(route, f.bucket_remap) \in [Keys -> Keys \cup {None}]
         /\ ResolveBucketKey(RemappedBy(route, f.bucket_remap), route) \in Keys
<1> DEFINE wait == IF f.exhausted /\ f.reset_after # None
                   THEN Greater(f.retry_after, f.reset_after) ELSE f.retry_after
<1>1. /\ f.retry_after \in Duration /\ f.reset_after \in Duration \cup {None}
      /\ f.bucket_remap \in Keys \cup {None}
  BY LimiterAssumption DEF LimiterAssumption, Feedback
<1>2. wait \in Nat
  BY <1>1, Widths DEF Greater, Duration
<1> HIDE DEF wait
<1>3. FeedbackUntil(f) = SatAdd(now, wait, DurationMax)
  BY DEF FeedbackUntil, wait
<1>4. FeedbackUntil(f) \in Duration
  BY <1>2, <1>3, Widths DEF TypeOK, SatAdd, Lesser, Duration
<1>5. RemappedBy(route, f.bucket_remap) \in [Keys -> Keys \cup {None}]
  BY <1>1 DEF TypeOK, RemappedBy
<1> QED
  BY <1>4, <1>5 DEF ResolveBucketKey

\* Key feedback: blocking a bucket, made for it if need be, moves no capacity.
LEMMA FeedbackBlocksKeyInv ==
  ASSUME IInv, NEW key \in Keys, NEW until \in Duration, FeedbackBlocksKey(key, until),
         Returns("None", 0), UNCHANGED <<cfg, now, permits>>,
         route_map' \in [Keys -> Keys \cup {None}]
  PROVE  IInv'
<1> DEFINE b == BucketAt(key)
           blocked == ApplyBlockedUntil(b, until)
<1>1. TypeOK
  BY DEF IInv
<1>2. \A k \in Keys : KeyOK(k)
  BY <1>1, InvByKey
<1>3. reply' \in [reason : Reasons, retry_after : Duration]
  BY ReplyType, Widths DEF Reasons, Duration
<1>4. CASE UNCHANGED <<buckets, fifo>>
  <2>1. TypeOK'
    BY <1>1, <1>3, <1>4 DEF TypeOK, FeedbackBlocksKey
  <2> QED
    BY <1>4, <2>1, BooksUntouched
<1>5. CASE \E i \in 0..Len(fifo) : HasRoom(key, i) /\ Place(key, i, blocked)
  <2>1. /\ b \in Bucket /\ b.state.algo = cfg.algorithm.kind
        /\ Outstanding(b.state) = Cardinality(UnitsOf(permits, key))
        /\ Tracked(key) => b = buckets[key]
    BY <1>1, <1>2, BucketAtKey
  <2> HIDE DEF b
  <2>2. blocked \in Bucket /\ blocked.state = b.state
    BY <1>1, <2>1, BlockEffect DEF TypeOK
  <2> HIDE DEF blocked
  <2>3. /\ fifo' \in Seq(Keys)
        /\ buckets' \in [Keys -> Bucket \cup {NoBucket}]
        /\ buckets'[key] = blocked
        /\ \A k \in Keys \ {key} :
             buckets'[k] = buckets[k] \/ (buckets'[k] = NoBucket /\ Evictable(k))
    BY <1>1, <1>5, <2>2, PlaceEffect
  <2>4. TypeOK'
    BY <1>1, <1>3, <2>3 DEF TypeOK, FeedbackBlocksKey
  <2>5. KeyOK(key)'
    <3>1. buckets'[key] # NoBucket
      BY <2>2, <2>3, NoBucketIsNone
    <3>2. KeyOK(key)
      BY <1>2
    <3> QED
      BY <2>1, <2>2, <2>3, <3>1, <3>2 DEF KeyOK, Tracked
  <2>6. ASSUME NEW k \in Keys, k # key PROVE KeyOK(k)'
    BY <1>1, <1>2, <2>3, <2>6, OtherKey
  <2>7. (IInv <=> \A k \in Keys : KeyOK(k))'
    BY <2>4, InvByKey, PTL
  <2> QED
    BY <2>5, <2>6, <2>7
<1> QED
  BY <1>4, <1>5 DEF FeedbackBlocksKey

\* apply_feedback keeps the invariant, with its remap and either scope.
LEMMA ApplyFeedbackInv ==
  ASSUME IInv, NEW route \in Keys, NEW f \in Feedbacks, ApplyFeedback(route, f)
  PROVE  IInv'
<1> DEFINE map == RemappedBy(route, f.bucket_remap)
           key == ResolveBucketKey(map, route)
           until == FeedbackUntil(f)
<1>1. TypeOK
  BY DEF IInv
<1>2. until \in Duration /\ map \in [Keys -> Keys \cup {None}] /\ key \in Keys
  BY <1>1, FeedbackType
<1>3. /\ route_map' = map
      /\ FeedbackBlocksAll(until) \/ FeedbackBlocksKey(key, until)
      /\ Returns("None", 0)
      /\ UNCHANGED <<cfg, now, permits>>
  BY DEF ApplyFeedback
<1> HIDE DEF map, key, until
<1>4. CASE FeedbackBlocksAll(until)
  <2>1. global_blocked_until' \in Duration /\ UNCHANGED <<buckets, fifo>>
    BY <1>1, <1>2, <1>4, Widths DEF FeedbackBlocksAll, TypeOK, Greater, Duration
  <2>2. reply' \in [reason : Reasons, retry_after : Duration]
    BY <1>3, ReplyType, Widths DEF Reasons, Duration
  <2>3. TypeOK'
    BY <1>1, <1>2, <1>3, <2>1, <2>2 DEF TypeOK
  <2> QED
    BY <1>3, <2>1, <2>3, BooksUntouched
<1>5. CASE FeedbackBlocksKey(key, until)
  BY <1>2, <1>3, <1>5, FeedbackBlocksKeyInv
<1> QED
  BY <1>3, <1>4, <1>5

-----------------------------------------------------------------------------
(***************************************************************************)
(* An update that changes the algorithm only while no bucket has anything  *)
(* outstanding keeps the books of every bucket.                            *)
(***************************************************************************)
LEMMA ReconfiguredInv ==
  ASSUME IInv, NEW new \in Configs, Reconfigured(new),
         cfg.algorithm.kind # new.algorithm.kind =>
           \A k \in TrackedKeys : ~HasOutstanding(buckets[k])
  PROVE  IInv'
<1>1. TypeOK /\ permits \in PermitTable
  BY DEF IInv, TypeOK, PermitTable
<1>2. \A k \in Keys : KeyOK(k)
  BY <1>1, InvByKey
<1>3. new \in Config /\ new.algorithm \in AlgorithmConfig
  BY LimiterAssumption DEF LimiterAssumption, Config
<1>4. /\ cfg' = new
      /\ buckets' = [k \in Keys |->
           IF Tracked(k) THEN OnUpdate(buckets[k], cfg.algorithm, new.algorithm, now)
           ELSE NoBucket]
      /\ Returns("None", 0)
      /\ UNCHANGED <<route_map, fifo, global_blocked_until, now, permits>>
  BY DEF Reconfigured
<1>5. cfg.algorithm \in AlgorithmConfig /\ now \in Duration
  BY <1>1, ConfigType
<1>6. ASSUME NEW k \in Keys, Tracked(k)
      PROVE  /\ buckets'[k] \in Bucket
             /\ buckets'[k].state.algo = new.algorithm.kind
             /\ Outstanding(buckets'[k].state) = Outstanding(buckets[k].state)
             /\ Outstanding(buckets[k].state) # 0 /\ buckets[k].state.algo = "FixedWindow"
                  => buckets'[k].state.window_start = buckets[k].state.window_start
  <2>1. buckets[k] \in Bucket
    BY <1>1, <1>6 DEF TypeOK, Tracked
  <2>2. buckets[k].state.algo = cfg.algorithm.kind
    BY <1>2, <1>6 DEF KeyOK
  <2>3. cfg.algorithm.kind # new.algorithm.kind => Outstanding(buckets[k].state) = 0
    BY <1>6 DEF TrackedKeys, HasOutstanding
  <2> DEFINE b == buckets[k]
             old == cfg.algorithm
             update == new.algorithm
             after == OnUpdate(b, old, update, now)
  <2>4. buckets'[k] = after
    BY <1>4, <1>6
  <2>5. /\ b \in Bucket /\ old \in AlgorithmConfig /\ update \in AlgorithmConfig
        /\ b.state.algo = old.kind /\ (old.kind # update.kind => Outstanding(b.state) = 0)
    BY <1>3, <1>5, <2>1, <2>2, <2>3
  <2> HIDE DEF b, old, update
  <2>6. /\ after \in Bucket
        /\ after.state.algo = update.kind
        /\ Outstanding(after.state) = Outstanding(b.state)
        /\ Outstanding(b.state) # 0 /\ b.state.algo = "FixedWindow"
             => after.state.window_start = b.state.window_start
    BY <1>5, <2>5, OnUpdateEffect
  <2> HIDE DEF after
  <2> QED
    BY <2>4, <2>6 DEF b, update
<1>7. \A k \in Keys : ~Tracked(k) => buckets'[k] = NoBucket
  BY <1>4
<1>8. TypeOK'
  <2>1. buckets' \in [Keys -> Bucket \cup {NoBucket}]
    BY <1>4, <1>6, <1>7
  <2>2. reply' \in [reason : Reasons, retry_after : Duration]
    BY <1>4, ReplyType, Widths DEF Reasons, Duration
  <2> QED
    BY <1>1, <1>3, <1>4, <2>1, <2>2 DEF TypeOK
<1>9. ASSUME NEW k \in Keys PROVE KeyOK(k)'
  <2>1. CASE Tracked(k)
    <3>1. buckets'[k] # NoBucket
      BY <1>6, <2>1, NoBucketIsNone
    <3>2. Outstanding(buckets'[k].state) = Cardinality(UnitsOf(permits', k))
      BY <1>2, <1>4, <1>6, <2>1 DEF KeyOK
    <3>3. ASSUME NEW c \in Callers, permits'[c].key = k
          PROVE  /\ buckets'[k].state.algo = permits'[c].algo
                 /\ permits'[c].algo = "FixedWindow"
                      => buckets'[k].state.window_start = permits'[c].window_start
      <4>1. permits'[c] = permits[c] /\ permits[c].key = k /\ permits[c] # NoPermit
        BY <1>4, <3>3, NoPermitIsNone
      <4>2. Outstanding(buckets[k].state) # 0
        BY <1>1, <1>2, <2>1, <4>1, PermitHoldsUnit DEF KeyOK
      <4>3. cfg.algorithm.kind = new.algorithm.kind
        BY <2>1, <4>2 DEF TrackedKeys, HasOutstanding
      <4>4. /\ buckets[k].state.algo = permits[c].algo
            /\ buckets[k].state.algo = cfg.algorithm.kind
            /\ permits[c].algo = "FixedWindow"
                 => buckets[k].state.window_start = permits[c].window_start
        BY <1>2, <2>1, <4>1 DEF KeyOK
      <4> QED
        BY <1>6, <2>1, <4>1, <4>2, <4>3, <4>4
    <3> QED
      BY <1>4, <1>6, <2>1, <3>1, <3>2, <3>3 DEF KeyOK, Tracked
  <2>2. CASE ~Tracked(k)
    <3>1. \A c \in Callers : permits'[c].key # k
      BY <1>2, <1>4, <2>2 DEF KeyOK
    <3> QED
      BY <1>7, <2>2, <3>1 DEF KeyOK, Tracked
  <2> QED
    BY <2>1, <2>2
<1>10. (IInv <=> \A k \in Keys : KeyOK(k))'
  BY <1>8, InvByKey, PTL
<1> QED
  BY <1>9, <1>10

\* update_config refuses the update or finds nothing outstanding.
LEMMA UpdateConfigInv ==
  ASSUME IInv, NEW new \in Configs, UpdateConfig(new)
  PROVE  IInv'
<1>1. CASE RejectUpdate(new)
  <2>1. DisruptiveChange(cfg.algorithm, new.algorithm) \in Reasons
    BY DEF DisruptiveChange, Reasons
  <2>2. reply' \in [reason : Reasons, retry_after : Duration]
    BY <1>1, <2>1, ReplyType, Widths DEF RejectUpdate, Duration
  <2>3. TypeOK'
    BY <1>1, <2>2 DEF RejectUpdate, IInv, TypeOK
  <2> QED
    BY <1>1, <2>3, BooksUntouched DEF RejectUpdate
<1>2. CASE ~UpdateRejected(new) /\ Reconfigured(new)
  <2>1. cfg.algorithm.kind # new.algorithm.kind =>
          \A k \in TrackedKeys : ~HasOutstanding(buckets[k])
    BY <1>2 DEF UpdateRejected, DisruptiveChange
  <2> QED
    BY <1>2, <2>1, ReconfiguredInv
<1> QED
  BY <1>1, <1>2 DEF UpdateConfig

\* update_config_unchecked relies on its caller: no permit, nothing outstanding.
LEMMA UpdateConfigUncheckedInv ==
  ASSUME IInv, NEW new \in Configs, UpdateConfigUnchecked(new)
  PROVE  IInv'
<1>1. \A k \in Keys : KeyOK(k)
  BY InvByKey DEF IInv
<1>2. ASSUME cfg.algorithm.kind # new.algorithm.kind, NEW k \in TrackedKeys
      PROVE  ~HasOutstanding(buckets[k])
  <2>1. \A c \in Callers : ~Holds(c)
    BY <1>2 DEF UpdateConfigUnchecked, DisruptiveChange
  <2>2. \A c \in Callers : permits[c].key # k
    BY <2>1, HoldsIffKey DEF IInv, TrackedKeys
  <2>3. Cardinality(UnitsOf(permits, k)) = 0
    BY <2>2, NoPermitNoUnits
  <2> QED
    BY <1>1, <2>3 DEF KeyOK, TrackedKeys, HasOutstanding
<1> QED
  BY <1>2, ReconfiguredInv DEF UpdateConfigUnchecked

\* The passing of time, and a step of some other system, move no capacity.
LEMMA TickInv ==
  ASSUME IInv, Tick \/ UNCHANGED vars
  PROVE  IInv'
<1>1. UNCHANGED <<cfg, route_map, buckets, fifo, global_blocked_until, permits, reply>>
  BY DEF Tick, vars
<1>2. now' \in Duration
  BY LimiterAssumption, Widths DEF IInv, TypeOK, Tick, vars, LimiterAssumption, Duration
<1>3. TypeOK'
  BY <1>1, <1>2 DEF IInv, TypeOK
<1> QED
  BY <1>1, <1>3, BooksUntouched

-----------------------------------------------------------------------------
(***************************************************************************)
(* What some theorems of the modules that extend this one assume of the    *)
(* constants.  An evicted key's window, pool and backoff are forgotten;    *)
(* and at Duration::MAX a window ends at once and is replaced by itself.   *)
(***************************************************************************)
NeverEvicts ==
  \A new \in Configs : new.max_keys = None \/ new.overflow_policy = "DenyNewKey"

ClockShortOfMax == StartedAt < DurationMax /\ MaxTime < DurationMax

\* Room is made by no eviction: it is there, or the key has its bucket already.
LEMMA PlacedWithoutEviction ==
  ASSUME NeverEvicts, TypeOK, cfg \in Configs, NEW key \in Keys, NEW b,
         \E i \in 0..Len(fifo) : HasRoom(key, i) /\ Place(key, i, b)
  PROVE  ~NeedsRoom(key) /\ buckets' = [buckets EXCEPT ![key] = b]
<1>1. PICK i \in 0..Len(fifo) : HasRoom(key, i) /\ Place(key, i, b)
  OBVIOUS
<1>2. ~NeedsRoom(key)
  BY <1>1 DEF NeverEvicts, HasRoom, NeedsRoom, AtKeyBound
<1>3. i = 0
  BY <1>1, <1>2 DEF HasRoom
<1>4. buckets \in [Keys -> Bucket \cup {NoBucket}]
  BY DEF TypeOK
<1> QED
  BY <1>1, <1>2, <1>3, <1>4 DEF Place

-----------------------------------------------------------------------------
(***************************************************************************)
(* Theorems of the specification.                                          *)
(***************************************************************************)
\* The inductive invariant holds in every reachable state of the limiter.
THEOREM Invariance == Spec => []IInv
<1>1. IInv /\ [Next]_vars => IInv'
  <2> SUFFICES ASSUME IInv, [Next]_vars PROVE IInv'
    OBVIOUS
  <2>1. ASSUME NEW c \in Callers, NEW route \in Keys, NEW cost \in Costs,
               TryAcquire(c, route, cost)
        PROVE  IInv'
    BY <2>1, TryAcquireInv
  <2>2. ASSUME NEW c \in Callers, NEW outcome \in Outcome, Commit(c, outcome)
        PROVE  IInv'
    BY <2>2, CommitInv
  <2>3. ASSUME NEW c \in Callers, Refund(c)
        PROVE  IInv'
    BY <2>3, RefundInv
  <2>4. ASSUME NEW route \in Keys, NEW f \in Feedbacks, ApplyFeedback(route, f)
        PROVE  IInv'
    BY <2>4, ApplyFeedbackInv
  <2>5. ASSUME NEW new \in Configs, UpdateConfig(new)
        PROVE  IInv'
    BY <2>5, UpdateConfigInv
  <2>6. ASSUME NEW new \in Configs, UpdateConfigUnchecked(new)
        PROVE  IInv'
    BY <2>6, UpdateConfigUncheckedInv
  <2>7. CASE Tick \/ UNCHANGED vars
    BY <2>7, TickInv
  <2> QED
    BY <2>1, <2>2, <2>3, <2>4, <2>5, <2>6, <2>7 DEF Next
<1> QED
  BY <1>1, InitInv, PTL DEF Spec

\* Every variable keeps its type: no wait, counter or clock value leaves its width.
THEOREM TypeCorrect == Spec => []TypeOK
<1>1. IInv => TypeOK
  BY DEF IInv
<1> QED
  BY <1>1, Invariance, PTL

(***************************************************************************)
(* No eviction, window rollover, key remap or accepted configuration       *)
(* update ever orphans an open permit: its commit or refund still finds    *)
(* the bucket, the algorithm and the window it was issued from.            *)
(***************************************************************************)
THEOREM PermitsStayFinalizable == Spec => []PermitsFinalizable
<1>1. IInv => PermitsFinalizable
  BY DEF IInv
<1> QED
  BY <1>1, Invariance, PTL

(***************************************************************************)
(* A bucket's reserved or in-flight counter is the capacity its open       *)
(* permits hold, so finalizing them all leaves exactly none outstanding.   *)
(***************************************************************************)
THEOREM BooksBalance == Spec => []OutstandingIsHeld
<1>1. IInv => OutstandingIsHeld
  BY DEF IInv
<1> QED
  BY <1>1, Invariance, PTL

\* The arms of bucket.rs for a state of another algorithm are unreachable.
THEOREM BucketsFollowConfig == Spec => []BucketsRunAlgorithm
<1>1. IInv => BucketsRunAlgorithm
  BY DEF IInv
<1> QED
  BY <1>1, Invariance, PTL
=============================================================================
