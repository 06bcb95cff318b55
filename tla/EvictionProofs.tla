--------------------------- MODULE EvictionProofs ---------------------------
(***************************************************************************)
(* Memory, for any keys, permits and updates of max_keys: the fifo and the *)
(* bucket map list the same keys, and neither the buckets nor the route    *)
(* map grow past the bound.                                                *)
(***************************************************************************)
EXTENDS RateLimiterProofs, SequenceTheorems

\* Each tracked key has one place in the fifo, and nothing else has.
FifoOK ==
  /\ \A i, j \in 1..Len(fifo) : fifo[i] = fifo[j] => i = j
  /\ \A k \in Keys : Tracked(k) <=> \E i \in 1..Len(fifo) : fifo[i] = k

\* The inductive invariant of this module.
EInv ==
  /\ IInv
  /\ FifoOK
  /\ IsFiniteSet(MappedRoutes)

-----------------------------------------------------------------------------
(***************************************************************************)
(* Sequences.                                                              *)
(***************************************************************************)
\* Removing a place keeps the others, in order.
LEMMA RemoveAtEffect ==
  ASSUME NEW S, NEW s \in Seq(S), NEW i \in 1..Len(s)
  PROVE  /\ RemoveAt(s, i) \in Seq(S)
         /\ Len(RemoveAt(s, i)) = Len(s) - 1
         /\ \A j \in 1..(Len(s) - 1) : RemoveAt(s, i)[j] = IF j < i THEN s[j] ELSE s[j + 1]
<1> DEFINE before == SubSeq(s, 1, i - 1)
           after == SubSeq(s, i + 1, Len(s))
<1>0. Len(s) \in Nat /\ i \in Nat /\ 1 <= i /\ i <= Len(s)
  OBVIOUS
<1>1. /\ before \in Seq(S) /\ Len(before) = i - 1
      /\ \A j \in 1..(i - 1) : before[j] = s[j]
  OBVIOUS
<1>2. /\ after \in Seq(S) /\ Len(after) = Len(s) - i
      /\ \A j \in 1..(Len(s) - i) : after[j] = s[i + j]
  OBVIOUS
<1> HIDE DEF before, after
<1>3. RemoveAt(s, i) = before \o after
  BY DEF RemoveAt, before, after
<1>4. /\ before \o after \in Seq(S) /\ Len(before \o after) = Len(before) + Len(after)
      /\ \A j \in 1..(Len(before) + Len(after)) :
           (before \o after)[j] = IF j <= Len(before) THEN before[j] ELSE after[j - Len(before)]
  BY <1>1, <1>2, ConcatProperties
<1>5. ASSUME NEW j \in 1..(Len(s) - 1)
      PROVE  (before \o after)[j] = IF j < i THEN s[j] ELSE s[j + 1]
  <2>1. CASE j < i
    BY <1>0, <1>1, <1>2, <1>4, <2>1
  <2>2. CASE j >= i
    <3>1. j - (i - 1) \in 1..(Len(s) - i) /\ i + (j - (i - 1)) = j + 1
      BY <1>0, <2>2
    <3>2. (before \o after)[j] = after[j - (i - 1)]
      BY <1>0, <1>1, <1>2, <1>4, <2>2
    <3>3. after[j - (i - 1)] = s[i + (j - (i - 1))]
      BY <1>2, <3>1
    <3> QED
      BY <1>0, <2>2, <3>1, <3>2, <3>3
  <2>3. j < i \/ j >= i
    BY <1>0
  <2> QED
    BY <2>1, <2>2, <2>3
<1> QED
  BY <1>0, <1>1, <1>2, <1>3, <1>4, <1>5

\* A fifo without repetitions loses exactly the key of the place removed.
LEMMA RemovedKey ==
  ASSUME NEW s \in Seq(Keys), NEW i \in 1..Len(s),
         \A m, n \in 1..Len(s) : s[m] = s[n] => m = n
  PROVE  LET r == RemoveAt(s, i) IN
         /\ \A m, n \in 1..Len(r) : r[m] = r[n] => m = n
         /\ \A k : (\E m \in 1..Len(r) : r[m] = k)
                     <=> k # s[i] /\ \E m \in 1..Len(s) : s[m] = k
<1> DEFINE r == RemoveAt(s, i)
           place(m) == IF m < i THEN m ELSE m + 1
<1>1. Len(r) = Len(s) - 1 /\ \A m \in 1..Len(r) : r[m] = s[place(m)]
  BY RemoveAtEffect
<1>2. \A m \in 1..Len(r) : place(m) \in 1..Len(s) /\ place(m) # i
  BY <1>1
<1>3. \A m, n \in 1..Len(r) : place(m) = place(n) => m = n
  BY <1>1
<1>4. \A m \in 1..Len(s) \ {i} : \E n \in 1..Len(r) : place(n) = m
  <2> SUFFICES ASSUME NEW m \in 1..Len(s) \ {i} PROVE \E n \in 1..Len(r) : place(n) = m
    OBVIOUS
  <2> DEFINE n == IF m < i THEN m ELSE m - 1
  <2>1. n \in 1..Len(r) /\ place(n) = m
    BY <1>1
  <2> QED
    BY <2>1
<1> HIDE DEF r, place
<1>5. ASSUME NEW m \in 1..Len(r), NEW n \in 1..Len(r), r[m] = r[n] PROVE m = n
  BY <1>1, <1>2, <1>3, <1>5
<1>6. ASSUME NEW k, NEW m \in 1..Len(r), r[m] = k
      PROVE  k # s[i] /\ \E n \in 1..Len(s) : s[n] = k
  BY <1>1, <1>2, <1>6
<1>7. ASSUME NEW k, NEW m \in 1..Len(s), s[m] = k, k # s[i]
      PROVE  \E n \in 1..Len(r) : r[n] = k
  BY <1>1, <1>4, <1>7
<1> QED
  BY <1>5, <1>6, <1>7 DEF r

\* Appending a new key adds it alone.
LEMMA AppendedKey ==
  ASSUME NEW s \in Seq(Keys), NEW key \in Keys,
         \A m, n \in 1..Len(s) : s[m] = s[n] => m = n,
         \A m \in 1..Len(s) : s[m] # key
  PROVE  LET r == Append(s, key) IN
         /\ \A m, n \in 1..Len(r) : r[m] = r[n] => m = n
         /\ \A k : (\E m \in 1..Len(r) : r[m] = k)
                     <=> k = key \/ \E m \in 1..Len(s) : s[m] = k
<1> DEFINE r == Append(s, key)
<1>1. /\ Len(r) = Len(s) + 1 /\ r[Len(s) + 1] = key
      /\ \A m \in 1..Len(s) : r[m] = s[m]
  OBVIOUS
<1>2. \A m \in 1..Len(r) : m \in 1..Len(s) \/ m = Len(s) + 1
  BY <1>1
<1>3. 1..Len(s) \subseteq 1..Len(r) /\ Len(s) + 1 \in 1..Len(r)
  BY <1>1
<1> HIDE DEF r
<1> QED
  BY <1>1, <1>2, <1>3 DEF r

\* The length of the fifo is the number of tracked keys.
LEMMA FifoCounts ==
  ASSUME TypeOK, FifoOK
  PROVE  /\ ToSet(fifo) = TrackedKeys
         /\ IsFiniteSet(TrackedKeys)
         /\ Cardinality(TrackedKeys) = Len(fifo)
<1>1. fifo \in Seq(Keys) /\ Len(fifo) \in Nat /\ DOMAIN fifo = 1..Len(fifo)
  BY DEF TypeOK
<1>2. ToSet(fifo) = TrackedKeys
  BY <1>1 DEF ToSet, FifoOK, TrackedKeys
<1>3. fifo \in Bijection(1..Len(fifo), TrackedKeys)
  BY <1>1, <1>2 DEF FifoOK, ToSet, Bijection, Injection, Surjection, IsInjective
<1>4. IsFiniteSet(1..Len(fifo)) /\ Cardinality(1..Len(fifo)) = Len(fifo)
  BY <1>1, FS_Interval
<1> QED
  BY <1>2, <1>3, <1>4, FS_Bijection DEF ExistsBijection

-----------------------------------------------------------------------------
(***************************************************************************)
(* Steps, by what they do to the set of tracked keys.                      *)
(***************************************************************************)
\* Tracked keys and fifo stay as they are.
KeysStay ==
  /\ fifo' = fifo
  /\ \A k \in Keys : Tracked(k)' <=> Tracked(k)

\* One key is found or made a bucket, another may be evicted for it.
KeyPlaced ==
  \E key \in Keys, b \in Bucket, i \in 0..Len(fifo) : HasRoom(key, i) /\ Place(key, i, b)

LEMMA KeysStayEffect ==
  ASSUME FifoOK, KeysStay
  PROVE  FifoOK' /\ TrackedKeys' = TrackedKeys
BY DEF FifoOK, KeysStay, TrackedKeys

\* What placing does to the fifo and to the set of tracked keys.
LEMMA PlacedKeys ==
  ASSUME TypeOK, FifoOK, NEW key \in Keys, NEW b \in Bucket, NEW i \in 0..Len(fifo),
         HasRoom(key, i), Place(key, i, b)
  PROVE  /\ FifoOK'
         /\ i = 0 => TrackedKeys' = TrackedKeys \cup {key}
         /\ i # 0 => /\ fifo[i] \in TrackedKeys /\ key \notin TrackedKeys
                     /\ TrackedKeys' = (TrackedKeys \ {fifo[i]}) \cup {key}
<1> DEFINE kept == IF i = 0 THEN fifo ELSE RemoveAt(fifo, i)
<1>1. /\ fifo \in Seq(Keys) /\ Len(fifo) \in Nat
      /\ \A m, n \in 1..Len(fifo) : fifo[m] = fifo[n] => m = n
      /\ \A k \in Keys : Tracked(k) <=> \E m \in 1..Len(fifo) : fifo[m] = k
      /\ \A m \in 1..Len(fifo) : fifo[m] \in Keys
  BY DEF TypeOK, FifoOK
<1>2. i # 0 => i \in 1..Len(fifo) /\ ~Tracked(key)
  BY <1>1 DEF HasRoom, NeedsRoom
<1>3. \A k \in Keys : Tracked(k)' <=> k = key \/ (Tracked(k) /\ (i # 0 => k # fifo[i]))
  BY NoBucketIsNone DEF Place, Tracked
<1>4. /\ kept \in Seq(Keys)
      /\ \A m, n \in 1..Len(kept) : kept[m] = kept[n] => m = n
      /\ \A k \in Keys : (\E m \in 1..Len(kept) : kept[m] = k)
                           <=> Tracked(k) /\ (i # 0 => k # fifo[i])
  <2>1. CASE i = 0
    BY <1>1, <2>1
  <2>2. CASE i # 0
    <3>1. i \in 1..Len(fifo) /\ kept = RemoveAt(fifo, i)
      BY <1>2, <2>2
    <3>2. RemoveAt(fifo, i) \in Seq(Keys)
      BY <1>1, <3>1, RemoveAtEffect
    <3>3. LET r == RemoveAt(fifo, i) IN
          /\ \A m, n \in 1..Len(r) : r[m] = r[n] => m = n
          /\ \A k : (\E m \in 1..Len(r) : r[m] = k)
                      <=> k # fifo[i] /\ \E m \in 1..Len(fifo) : fifo[m] = k
      BY <1>1, <3>1, RemovedKey
    <3> HIDE DEF kept
    <3> QED
      BY <1>1, <2>2, <3>1, <3>2, <3>3
  <2> QED
    BY <2>1, <2>2
<1>5. fifo' = IF Tracked(key) THEN kept ELSE Append(kept, key)
  BY DEF Place
<1> HIDE DEF kept
<1>6. FifoOK'
  <2>1. CASE Tracked(key)
    BY <1>2, <1>3, <1>4, <1>5, <2>1 DEF FifoOK
  <2>2. CASE ~Tracked(key)
    <3>1. kept \in Seq(Keys) /\ \A m \in 1..Len(kept) : kept[m] # key
      BY <1>4, <2>2
    <3>2. LET r == Append(kept, key) IN
          /\ \A m, n \in 1..Len(r) : r[m] = r[n] => m = n
          /\ \A k : (\E m \in 1..Len(r) : r[m] = k)
                      <=> k = key \/ \E m \in 1..Len(kept) : kept[m] = k
      BY <1>4, <3>1, AppendedKey
    <3> QED
      BY <1>3, <1>4, <1>5, <2>2, <3>2 DEF FifoOK
  <2> QED
    BY <2>1, <2>2
<1>7. i = 0 => TrackedKeys' = TrackedKeys \cup {key}
  BY <1>3 DEF TrackedKeys
<1>8. i # 0 => /\ fifo[i] \in TrackedKeys /\ key \notin TrackedKeys
               /\ TrackedKeys' = (TrackedKeys \ {fifo[i]}) \cup {key}
  BY <1>1, <1>2, <1>3 DEF TrackedKeys
<1> QED
  BY <1>6, <1>7, <1>8

\* The bound: an eviction makes room for one key, and an addition finds room.
LEMMA PlacedWithinBound ==
  ASSUME TypeOK, FifoOK, KeyPlaced
  PROVE  FifoOK' /\ GrowsWithinBound(TrackedKeys, TrackedKeys')
<1>1. PICK key \in Keys, b \in Bucket, i \in 0..Len(fifo) : HasRoom(key, i) /\ Place(key, i, b)
  BY DEF KeyPlaced
<1>2. /\ FifoOK'
      /\ i = 0 => TrackedKeys' = TrackedKeys \cup {key}
      /\ i # 0 => /\ fifo[i] \in TrackedKeys /\ key \notin TrackedKeys
                  /\ TrackedKeys' = (TrackedKeys \ {fifo[i]}) \cup {key}
  BY <1>1, PlacedKeys
<1>3. IsFiniteSet(TrackedKeys) /\ Cardinality(TrackedKeys) \in Nat
  BY FifoCounts, FS_CardinalityType
<1>4. CASE i = 0
  <2>1. Cardinality(TrackedKeys') = IF key \in TrackedKeys THEN Cardinality(TrackedKeys)
                                    ELSE Cardinality(TrackedKeys) + 1
    BY <1>2, <1>3, <1>4, FS_AddElement
  <2>2. key \in TrackedKeys \/ ~AtKeyBound
    <3>1. 0 \notin DOMAIN fifo
      BY DEF TypeOK
    <3> QED
      BY <1>1, <1>4, <3>1 DEF HasRoom, NeedsRoom, TrackedKeys, IsVictim
  <2>3. cfg.max_keys \in Nat \cup {None}
    BY DEF TypeOK, Config
  <2> QED
    BY <1>2, <1>3, <2>1, <2>2, <2>3 DEF GrowsWithinBound, AtKeyBound
<1>5. CASE i # 0
  <2> DEFINE rest == TrackedKeys \ {fifo[i]}
  <2>1. IsFiniteSet(rest) /\ Cardinality(rest) = Cardinality(TrackedKeys) - 1
    BY <1>2, <1>3, <1>5, FS_RemoveElement
  <2>2. Cardinality(rest \cup {key}) = Cardinality(rest) + 1
    BY <1>2, <1>5, <2>1, FS_AddElement
  <2>3. TrackedKeys' = rest \cup {key}
    BY <1>2, <1>5
  <2> HIDE DEF rest
  <2>4. Cardinality(TrackedKeys') = Cardinality(TrackedKeys)
    BY <1>3, <2>1, <2>2, <2>3
  <2> QED
    BY <1>2, <1>3, <2>4 DEF GrowsWithinBound
<1> QED
  BY <1>2, <1>4, <1>5

-----------------------------------------------------------------------------
(***************************************************************************)
(* The steps of the limiter.                                               *)
(***************************************************************************)
LEMMA InitEInv == Init => EInv
<1> SUFFICES ASSUME Init PROVE EInv
  OBVIOUS
<1>1. MappedRoutes = {} /\ \A k \in Keys : ~Tracked(k)
  BY DEF Init, MappedRoutes, Tracked
<1>2. fifo = <<>>
  BY DEF Init
<1>3. FifoOK
  BY <1>1, <1>2 DEF FifoOK
<1> QED
  BY <1>1, <1>3, InitInv, FS_EmptySet DEF EInv

LEMMA TryAcquireKeys ==
  ASSUME IInv, NEW c \in Callers, NEW route \in Keys, NEW cost \in Costs,
         TryAcquire(c, route, cost)
  PROVE  KeysStay \/ KeyPlaced
<1> DEFINE key == ResolveBucketKey(route_map, route)
           answer == TryReserve(BucketAt(key), EffectiveAlgorithm, cost, now)
<1>1. key \in Keys /\ cost \in Cost /\ TypeOK /\ KeyOK(key)
  BY InvByKey, LimiterAssumption DEF IInv, TypeOK, ResolveBucketKey, LimiterAssumption
<1>2. CASE GlobalDeny \/ SlowStartDeny(cost) \/ KeyBoundDeny(key, cost)
  BY <1>2 DEF GlobalDeny, SlowStartDeny, KeyBoundDeny, KeysStay, Tracked
<1>3. CASE BucketAnswer(c, key, cost)
  <2>1. BucketAt(key) \in Bucket
    BY <1>1, BucketAtKey
  <2>2. EffectiveAlgorithm \in AlgorithmConfig /\ now \in Duration
    BY <1>1, EffectiveAlgorithmType DEF TypeOK
  <2>3. answer.bucket \in Bucket
    BY <1>1, <2>1, <2>2, TryReserveEffect
  <2> QED
    BY <1>1, <1>3, <2>3 DEF BucketAnswer, KeyPlaced
<1> QED
  BY <1>2, <1>3 DEF TryAcquire

LEMMA FinalizedKeys ==
  ASSUME TypeOK, NEW c \in Callers, NEW b \in Bucket, Finalized(c, b)
  PROVE  KeysStay
BY NoBucketIsNone DEF TypeOK, Finalized, KeysStay, Tracked

LEMMA CommitKeys ==
  ASSUME IInv, NEW c \in Callers, NEW outcome \in Outcome, Commit(c, outcome)
  PROVE  KeysStay
<1> DEFINE p == permits[c]
           until == SatAdd(now, outcome.retry_after, DurationMax)
           block == IF outcome.scope = "Key" THEN until ELSE 0
           sent == outcome.kind # "NotSent"
           b == BucketCommit(buckets[p.key], p, sent, block, cfg.algorithm, now)
<1>1. Holds(c) /\ Finalized(c, b)
  BY DEF Commit
<1>2. /\ buckets[p.key] \in Bucket /\ cfg.algorithm \in AlgorithmConfig
      /\ now \in Duration /\ StillKnows(buckets[p.key].state, p, cfg.algorithm)
  BY <1>1, HeldBucket, HeldBucketKnows
<1>3. block \in Duration /\ sent \in BOOLEAN
  <2>1. outcome.retry_after \in Nat
    <3>1. outcome.retry_after \in {0} \cup Backoffs
      BY DEF Outcome
    <3>2. Backoffs \subseteq Duration
      BY LimiterAssumption DEF LimiterAssumption
    <3>3. \A wait \in {0} \cup Backoffs : wait \in Nat
      BY <3>2, Widths DEF Duration
    <3> QED
      BY <3>1, <3>3
  <2> QED
    BY <1>2, <2>1, Widths DEF SatAdd, Lesser, Duration
<1> HIDE DEF block, sent
<1>4. b \in Bucket
  BY <1>2, <1>3, FinalizeEffect
<1> HIDE DEF b
<1> QED
  BY <1>1, <1>4, FinalizedKeys DEF IInv

LEMMA RefundKeys ==
  ASSUME IInv, NEW c \in Callers, Refund(c)
  PROVE  KeysStay
<1> DEFINE p == permits[c]
           b == BucketRefund(buckets[p.key], p, cfg.algorithm, now)
<1>1. Holds(c) /\ Finalized(c, b)
  BY DEF Refund
<1>2. /\ buckets[p.key] \in Bucket /\ cfg.algorithm \in AlgorithmConfig
      /\ now \in Duration /\ StillKnows(buckets[p.key].state, p, cfg.algorithm)
  BY <1>1, HeldBucket, HeldBucketKnows
<1>3. 0 \in Duration /\ TRUE \in BOOLEAN
  BY Widths DEF Duration
<1>4. b \in Bucket
  BY <1>2, <1>3, FinalizeEffect
<1> HIDE DEF b
<1> QED
  BY <1>1, <1>4, FinalizedKeys DEF IInv

LEMMA ApplyFeedbackKeys ==
  ASSUME IInv, NEW route \in Keys, NEW f \in Feedbacks, ApplyFeedback(route, f)
  PROVE  KeysStay \/ KeyPlaced
<1> DEFINE key == ResolveBucketKey(RemappedBy(route, f.bucket_remap), route)
           until == FeedbackUntil(f)
<1>1. TypeOK /\ until \in Duration /\ key \in Keys /\ KeyOK(key)
  BY FeedbackType, InvByKey DEF IInv
<1>2. FeedbackBlocksAll(until) \/ FeedbackBlocksKey(key, until)
  BY DEF ApplyFeedback
<1>3. ApplyBlockedUntil(BucketAt(key), until) \in Bucket
  BY <1>1, BucketAtKey, BlockEffect DEF TypeOK
<1> HIDE DEF key, until
<1>4. CASE UNCHANGED <<buckets, fifo>>
  BY <1>4 DEF KeysStay, Tracked
<1>5. CASE ~UNCHANGED <<buckets, fifo>>
  BY <1>1, <1>2, <1>3, <1>5 DEF FeedbackBlocksAll, FeedbackBlocksKey, KeyPlaced
<1> QED
  BY <1>4, <1>5

LEMMA ReconfiguredKeys ==
  ASSUME IInv, NEW new \in Configs, Reconfigured(new),
         cfg.algorithm.kind # new.algorithm.kind =>
           \A k \in TrackedKeys : ~HasOutstanding(buckets[k])
  PROVE  KeysStay
<1>1. IInv' /\ TypeOK /\ TypeOK'
  BY ReconfiguredInv DEF IInv
<1>2. new.algorithm \in AlgorithmConfig /\ cfg.algorithm \in AlgorithmConfig /\ now \in Duration
  BY <1>1, LimiterAssumption, ConfigType DEF LimiterAssumption, Config
<1>3. ASSUME NEW k \in Keys, Tracked(k)
      PROVE  OnUpdate(buckets[k], cfg.algorithm, new.algorithm, now) \in Bucket
  <2>1. buckets[k] \in Bucket /\ buckets[k].state.algo = cfg.algorithm.kind
    BY <1>1, <1>3 DEF TypeOK, Tracked, IInv, BucketsRunAlgorithm, TrackedKeys
  <2>2. cfg.algorithm.kind # new.algorithm.kind => Outstanding(buckets[k].state) = 0
    BY <1>3 DEF TrackedKeys, HasOutstanding
  <2> QED
    BY <1>2, <2>1, <2>2, OnUpdateEffect
<1> QED
  BY <1>3, NoBucketIsNone DEF Reconfigured, KeysStay, Tracked

\* An update that is let through finds nothing outstanding, or keeps the algorithm.
LEMMA UpdateKeys ==
  ASSUME IInv, NEW new \in Configs, UpdateConfig(new) \/ UpdateConfigUnchecked(new)
  PROVE  KeysStay
<1>1. CASE RejectUpdate(new)
  BY <1>1 DEF RejectUpdate, KeysStay, Tracked
<1>2. CASE ~UpdateRejected(new) /\ Reconfigured(new)
  <2>1. cfg.algorithm.kind # new.algorithm.kind =>
          \A k \in TrackedKeys : ~HasOutstanding(buckets[k])
    BY <1>2 DEF UpdateRejected, DisruptiveChange
  <2> QED
    BY <1>2, <2>1, ReconfiguredKeys
<1>3. CASE UpdateConfigUnchecked(new)
  <2>1. ASSUME cfg.algorithm.kind # new.algorithm.kind, NEW k \in TrackedKeys
        PROVE  ~HasOutstanding(buckets[k])
    <3>1. \A c \in Callers : ~Holds(c)
      BY <1>3, <2>1 DEF UpdateConfigUnchecked, DisruptiveChange
    <3>2. \A c \in Callers : permits[c].key # k
      BY <3>1, HoldsIffKey DEF IInv, TrackedKeys
    <3>3. Cardinality(UnitsOf(permits, k)) = 0
      BY <3>2, NoPermitNoUnits
    <3> QED
      BY <3>3, InvByKey DEF IInv, KeyOK, TrackedKeys, HasOutstanding
  <2> QED
    BY <1>3, <2>1, ReconfiguredKeys DEF UpdateConfigUnchecked
<1> QED
  BY <1>1, <1>2, <1>3 DEF UpdateConfig

\* A remap maps at most one more route, and only while there is room.
LEMMA RemapWithinBound ==
  ASSUME TypeOK, IsFiniteSet(MappedRoutes), NEW route \in Keys, NEW target \in Keys \cup {None},
         route_map' = RemappedBy(route, target)
  PROVE  IsFiniteSet(MappedRoutes') /\ GrowsWithinBound(MappedRoutes, MappedRoutes')
<1>1. Cardinality(MappedRoutes) \in Nat /\ cfg.max_keys \in Nat \cup {None}
  BY FS_CardinalityType DEF TypeOK, Config
<1>2. CASE route_map' = route_map
  <2>1. MappedRoutes' = MappedRoutes
    BY <1>2 DEF MappedRoutes
  <2> QED
    BY <1>1, <2>1 DEF GrowsWithinBound
<1>3. CASE target # None /\ RemapAccepted(route)
  <2>1. route_map' = [route_map EXCEPT ![route] = target]
    BY <1>3 DEF RemappedBy
  <2>2. MappedRoutes' = MappedRoutes \cup {route}
    BY <1>3, <2>1 DEF MappedRoutes, TypeOK
  <2>3. /\ IsFiniteSet(MappedRoutes')
        /\ Cardinality(MappedRoutes') = IF route \in MappedRoutes THEN Cardinality(MappedRoutes)
                                        ELSE Cardinality(MappedRoutes) + 1
    BY <2>2, FS_AddElement
  <2>4. route \in MappedRoutes \/ cfg.max_keys = None \/ Cardinality(MappedRoutes) < cfg.max_keys
    BY <1>3 DEF RemapAccepted, MappedRoutes
  <2> QED
    BY <1>1, <2>3, <2>4 DEF GrowsWithinBound
<1> QED
  BY <1>2, <1>3 DEF RemappedBy

LEMMA RoutesWithinBound ==
  ASSUME TypeOK, IsFiniteSet(MappedRoutes), [Next]_vars
  PROVE  IsFiniteSet(MappedRoutes') /\ GrowsWithinBound(MappedRoutes, MappedRoutes')
<1>1. CASE route_map' = route_map
  <2>1. MappedRoutes' = MappedRoutes
    BY <1>1 DEF MappedRoutes
  <2>2. Cardinality(MappedRoutes) \in Nat
    BY FS_CardinalityType
  <2> QED
    BY <2>1, <2>2 DEF GrowsWithinBound
<1>2. ASSUME NEW route \in Keys, NEW f \in Feedbacks, ApplyFeedback(route, f)
      PROVE  IsFiniteSet(MappedRoutes') /\ GrowsWithinBound(MappedRoutes, MappedRoutes')
  <2>1. f.bucket_remap \in Keys \cup {None}
    BY LimiterAssumption DEF LimiterAssumption, Feedback
  <2> QED
    BY <1>2, <2>1, RemapWithinBound DEF ApplyFeedback
<1>3. ASSUME route_map' # route_map
      PROVE  \E route \in Keys, f \in Feedbacks : ApplyFeedback(route, f)
  BY <1>3 DEF vars, Next, TryAcquire, Commit, Refund, Finalized, UpdateConfig,
     RejectUpdate, Reconfigured, UpdateConfigUnchecked, Tick
<1> QED
  BY <1>1, <1>2, <1>3

LEMMA NextKeys ==
  ASSUME IInv, [Next]_vars
  PROVE  KeysStay \/ KeyPlaced
<1>1. CASE Tick \/ UNCHANGED vars
  BY <1>1 DEF Tick, vars, KeysStay, Tracked
<1> QED
  BY <1>1, TryAcquireKeys, CommitKeys, RefundKeys, ApplyFeedbackKeys, UpdateKeys DEF Next

LEMMA EInvStep ==
  ASSUME EInv, IInv', [Next]_vars
  PROVE  /\ EInv'
         /\ GrowsWithinBound(TrackedKeys, TrackedKeys')
         /\ GrowsWithinBound(MappedRoutes, MappedRoutes')
<1>1. TypeOK /\ IInv /\ FifoOK /\ IsFiniteSet(MappedRoutes)
  BY DEF EInv, IInv
<1>2. IsFiniteSet(MappedRoutes') /\ GrowsWithinBound(MappedRoutes, MappedRoutes')
  BY <1>1, RoutesWithinBound
<1>3. FifoOK' /\ GrowsWithinBound(TrackedKeys, TrackedKeys')
  <2>1. CASE KeysStay
    <3>1. FifoOK' /\ TrackedKeys' = TrackedKeys
      BY <1>1, <2>1, KeysStayEffect
    <3>2. Cardinality(TrackedKeys) \in Nat
      BY <1>1, FifoCounts, FS_CardinalityType
    <3> QED
      BY <3>1, <3>2 DEF GrowsWithinBound
  <2>2. CASE KeyPlaced
    BY <1>1, <2>2, PlacedWithinBound
  <2> QED
    BY <1>1, <2>1, <2>2, NextKeys
<1> QED
  BY <1>2, <1>3 DEF EInv

-----------------------------------------------------------------------------
(***************************************************************************)
(* Theorems of the specification.                                          *)
(***************************************************************************)
\* The inductive invariant holds in every reachable state.
THEOREM EvictionInvariance == Spec => []EInv
<1>1. IInv /\ EInv /\ IInv' /\ [Next]_vars => EInv'
  BY EInvStep
<1> QED
  BY <1>1, InitEInv, Invariance, PTL DEF Spec

(***************************************************************************)
(* The fifo lists each tracked key exactly once, so eviction by age meets  *)
(* every bucket and no bucket twice.                                       *)
(***************************************************************************)
THEOREM FifoListsBuckets == Spec => []FifoTracksBuckets
<1>1. EInv => FifoTracksBuckets
  BY FifoCounts DEF EInv, IInv, FifoTracksBuckets
<1> QED
  BY <1>1, EvictionInvariance, PTL

(***************************************************************************)
(* Neither the buckets nor the route map ever grow past max_keys, whatever *)
(* permits, feedback and configuration updates come in between.            *)
(***************************************************************************)
THEOREM MemoryIsBounded == Spec => GrowthBounded
<1>1. EInv /\ IInv' /\ [Next]_vars =>
        [/\ GrowsWithinBound(TrackedKeys, TrackedKeys')
         /\ GrowsWithinBound(MappedRoutes, MappedRoutes')]_vars
  BY EInvStep
<1> QED
  BY <1>1, EvictionInvariance, Invariance, PTL DEF Spec, GrowthBounded
=============================================================================
