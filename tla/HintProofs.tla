----------------------------- MODULE HintProofs -----------------------------
(***************************************************************************)
(* What a denial promises, for any keys, callers, limits and times: the    *)
(* waits try_acquire announces against what a retry then gets.             *)
(***************************************************************************)
EXTENDS RetryHints, RateLimiterProofs

-----------------------------------------------------------------------------
(***************************************************************************)
(* Rounding.                                                               *)
(***************************************************************************)
\* e is below a quotient rounded up exactly when it is below the quotient.
LEMMA DivCeilAbove ==
  ASSUME NEW a \in Nat, NEW b \in Nat \ {0}, NEW e \in Nat
  PROVE  e < DivCeil(a, b) <=> e * b < a
<1>1. a + b - 1 \in Nat /\ e + 1 \in Nat
  OBVIOUS
<1>2. (a + b - 1) \div b < e + 1 <=> a + b - 1 < (e + 1) * b
  BY <1>1, DivBelow
<1>3. (e + 1) * b = e * b + b /\ e * b \in Nat
  OBVIOUS
<1>4. (a + b - 1) \div b \in Nat
  BY <1>1, DivBounds
<1> QED
  BY <1>2, <1>3, <1>4 DEF DivCeil

LEMMA DivCeilType ==
  ASSUME NEW a \in Nat, NEW b \in Nat \ {0}
  PROVE  DivCeil(a, b) \in Nat /\ a <= DivCeil(a, b) * b
<1>1. DivCeil(a, b) \in Nat
  BY DivBounds DEF DivCeil
<1> QED
  BY <1>1, DivCeilAbove

\* The scaled limit is below a cost exactly until the straight line reaches the cost.
LEMMA RampReaches ==
  ASSUME NEW max \in Nat, NEW ramp \in Nat, NEW cost \in Nat \ {0}, cost <= max,
         NEW e \in Nat
  PROVE  /\ (IF ramp = 0 \/ e >= ramp THEN max ELSE (max * e) \div ramp) < cost
              <=> e < DivCeil(cost * ramp, max)
         /\ e < DivCeil(cost * ramp, max) => ramp # 0
<1>1. max \in Nat \ {0} /\ cost * ramp \in Nat /\ max * e \in Nat /\ e * max = max * e
  OBVIOUS
<1>2. e < DivCeil(cost * ramp, max) <=> e * max < cost * ramp
  BY <1>1, DivCeilAbove
<1>3. CASE ramp = 0
  BY <1>1, <1>2, <1>3
<1>4. CASE ramp # 0 /\ e >= ramp
  <2>1. cost * ramp <= max * ramp /\ max * ramp <= max * e /\ max * ramp \in Nat
    BY <1>4
  <2> QED
    BY <1>1, <1>2, <1>4, <2>1
<1>5. CASE ramp # 0 /\ e < ramp
  <2>1. (max * e) \div ramp < cost <=> max * e < cost * ramp
    BY <1>1, <1>5, DivBelow
  <2> QED
    BY <1>1, <1>2, <1>5, <2>1
<1> QED
  BY <1>3, <1>4, <1>5

-----------------------------------------------------------------------------
(***************************************************************************)
(* What is known of a key with a hint.                                     *)
(***************************************************************************)
PoolsInTime == \A k \in TrackedKeys : InTime(buckets[k].state, now)

\* A slow-start hint names the moment the line reaches the cost.
RampHint(k) ==
  LET h == hint[k]
      max == Limit(cfg.algorithm)
      ramp == cfg.slow_start
  IN  (h.reason = "SlowStart" /\ h.cost <= max) =>
        ramp # None /\ h.at = StartedAt + DivCeil(h.cost * ramp, max)

\* A cost that was turned away for want of capacity is one the limits and blocks admit.
Admissible(k) ==
  hint[k].reason = "WindowExhausted" =>
    /\ hint[k].cost <= Limit(EffectiveAlgorithm)
    /\ now >= global_blocked_until
    /\ Tracked(k) => now >= buckets[k].blocked_until

\* Once no permit holds it, the window ends in time, or a later one is still untouched.
ServesFrom(s, window, at) ==
  WindowEnd(s, window) <= at \/ (s.spent = 0 /\ s.reserved = 0)

WindowHint(k) ==
  LET h == hint[k] IN
  (h.reason = "WindowExhausted" /\ cfg.algorithm.kind = "FixedWindow" /\ Tracked(k)) =>
    ServesFrom(buckets[k].state, cfg.algorithm.window, h.at)

\* An unpolled pool holds the cost or will have earned it when the retry is due.
EarnsBy(s, rate, cost, at) ==
  \/ s.credits >= cost
  \/ s.last_update <= at /\ Worth(s, rate, at) >= NanosPerSec * cost

PoolHint(k) ==
  LET h == hint[k]
      s == buckets[k].state
  IN  (/\ h.reason = "WindowExhausted" /\ ~h.polled
       /\ cfg.algorithm.kind = "TokenBucket" /\ Tracked(k)) =>
        /\ s.credits <= cfg.algorithm.capacity
        /\ EarnsBy(s, EffectiveAlgorithm.refill_per_sec, h.cost, h.at)

\* A key left alone is short of the cost as long as the hint is not due.
ShortUntil(s, a, cost, time, at) ==
  IF a.kind = "FixedWindow"
  THEN time < at => /\ at = WindowEnd(s, a.window)
                    /\ cost > SatSub(a.max_per_window, SatAdd(s.spent, s.reserved, U32Max))
  ELSE /\ s.credits < cost /\ a.refill_per_sec > 0
       /\ at = s.last_update + RetryAfterForDeficit(cost - s.credits, a.refill_per_sec)

TightHint(k) ==
  LET h == hint[k] IN
  (cfg.slow_start = None /\ h # NoHint /\ ~h.polled /\ ~h.freed) =>
    /\ Tracked(k) /\ h.reason = "WindowExhausted"
    /\ ShortUntil(buckets[k].state, cfg.algorithm, h.cost, now, h.at)

(***************************************************************************)
(* The inductive invariants: of every limiter, of a hint's end, and of a   *)
(* limiter that never evicts a key.                                        *)
(***************************************************************************)
TInv ==
  /\ IInv
  /\ hint \in [Keys -> Hint]
  /\ cfg \in Configs
  /\ StartedAt <= now
  /\ ClockShortOfMax => now < DurationMax
  /\ PoolsInTime

RampInv == \A k \in Keys : RampHint(k)

WindowInv == \A k \in Keys : Admissible(k) /\ WindowHint(k)

PoolInv == \A k \in Keys : PoolHint(k)

TightInv == \A k \in Keys : TightHint(k)

-----------------------------------------------------------------------------
(***************************************************************************)
(* The steps, as far as one key's hint goes.                               *)
(***************************************************************************)
\* Nothing but time, or an eviction, touched the key.
Elsewhere(k) ==
  /\ hint'[k] = hint[k] /\ now <= now' /\ UNCHANGED <<cfg, global_blocked_until>>
  /\ buckets'[k] = buckets[k] \/ (buckets'[k] = NoBucket /\ ~NeverEvicts)

\* The key was asked for `cost`: turned away before its bucket, or answered by it.
TurnedAway(cost) ==
  /\ UNCHANGED buckets
  /\ \/ reply'.reason \in {"FeedbackBackoff", "KeyCardinalityBound"}
     \/ SlowStartDeny(cost)

Answered(k, cost) ==
  LET answer == TryReserve(BucketAt(k), EffectiveAlgorithm, cost, now) IN
  /\ now >= global_blocked_until /\ ~SlowStartDenies(cost)
  /\ buckets'[k] = answer.bucket
  /\ reply' = [reason |-> DenyReason(answer.reason), retry_after |-> answer.retry_after]

Asked(k, cost) ==
  /\ hint'[k] = HintAfterAsking(k, cost) /\ UNCHANGED <<cfg, global_blocked_until, now>>
  /\ TurnedAway(cost) \/ Answered(k, cost)

\* c's permit of the key was finalized.
GivenBack(k, c, sent) ==
  /\ Holds(c) /\ permits[c].key = k
  /\ hint'[k] = IF sent THEN hint[k] ELSE HintAfterRelease(k)
  /\ UNCHANGED <<cfg, global_blocked_until, now>>
  /\ \/ buckets'[k] = BucketCommit(buckets[k], permits[c], sent, 0, cfg.algorithm, now)
     \/ ~sent /\ buckets'[k] = BucketRefund(buckets[k], permits[c], cfg.algorithm, now)

\* The bucket of `key` answers; others are left alone or evicted.
LEMMA BucketAnswerShape ==
  ASSUME TInv, NEW c \in Callers, NEW key \in Keys, NEW cost \in Cost,
         BucketAnswer(c, key, cost)
  PROVE  /\ Answered(key, cost)
         /\ \A k \in Keys \ {key} :
              buckets'[k] = buckets[k] \/ (buckets'[k] = NoBucket /\ ~NeverEvicts)
<1> DEFINE answer == TryReserve(BucketAt(key), EffectiveAlgorithm, cost, now)
<1>1. /\ now >= global_blocked_until /\ ~SlowStartDenies(cost)
      /\ \E i \in 0..Len(fifo) : HasRoom(key, i) /\ Place(key, i, answer.bucket)
      /\ reply' = [reason |-> DenyReason(answer.reason), retry_after |-> answer.retry_after]
  BY DEF BucketAnswer, Returns
<1>2. answer.bucket \in Bucket
  <2>1. /\ BucketAt(key) \in Bucket /\ EffectiveAlgorithm \in AlgorithmConfig
        /\ now \in Duration
    BY InvByKey, BucketAtKey, EffectiveAlgorithmType DEF TInv, IInv, TypeOK
  <2> QED
    BY <2>1, TryReserveEffect
<1>3. Answered(key, cost) <=> buckets'[key] = answer.bucket
  BY <1>1 DEF Answered
<1> HIDE DEF answer
<1>4. /\ buckets'[key] = answer.bucket
      /\ \A k \in Keys \ {key} : buckets'[k] = buckets[k] \/ buckets'[k] = NoBucket
  BY <1>1, <1>2, PlaceEffect DEF TInv, IInv
<1>5. ASSUME NeverEvicts PROVE \A k \in Keys \ {key} : buckets'[k] = buckets[k]
  <2>1. buckets' = [buckets EXCEPT ![key] = answer.bucket]
    BY <1>1, <1>5, PlacedWithoutEviction DEF TInv, IInv
  <2> QED
    BY <2>1 DEF TInv, IInv, TypeOK
<1> QED
  BY <1>3, <1>4, <1>5

LEMMA AcquireOnKey ==
  ASSUME TInv, NEW c \in Callers, NEW route \in Keys, NEW cost \in Costs,
         TTryAcquire(c, route, cost), NEW k \in Keys
  PROVE  Elsewhere(k) \/ (cost \in Cost /\ Asked(k, cost))
<1> DEFINE key == ResolveBucketKey(route_map, route)
<1>1. key \in Keys /\ cost \in Cost
  BY LimiterAssumption DEF LimiterAssumption, ResolveBucketKey, TInv, IInv, TypeOK
<1>2. /\ GlobalDeny \/ SlowStartDeny(cost) \/ KeyBoundDeny(key, cost)
         \/ BucketAnswer(c, key, cost)
      /\ UNCHANGED <<cfg, global_blocked_until, now>>
      /\ hint' = [hint EXCEPT ![key] = HintAfterAsking(key, cost)]
  BY DEF TTryAcquire, TryAcquire
<1> HIDE DEF key
<1>3. now <= now'
  BY <1>2, Widths DEF TInv, IInv, TypeOK, Duration
<1>4. /\ hint'[key] = HintAfterAsking(key, cost)
      /\ k # key => hint'[k] = hint[k]
  BY <1>1, <1>2 DEF TInv
<1>5. CASE BucketAnswer(c, key, cost)
  BY <1>1, <1>2, <1>3, <1>4, <1>5, BucketAnswerShape DEF Elsewhere, Asked
<1>6. CASE GlobalDeny \/ SlowStartDeny(cost) \/ KeyBoundDeny(key, cost)
  <2>1. TurnedAway(cost)
    BY <1>6 DEF TurnedAway, GlobalDeny, SlowStartDeny, KeyBoundDeny, Returns
  <2> QED
    BY <1>1, <1>2, <1>3, <1>4, <2>1 DEF Elsewhere, Asked, TurnedAway
<1> QED
  BY <1>2, <1>5, <1>6

\* A finalization moves its own key's bucket only.
LEMMA FinalizedOnKey ==
  ASSUME TInv, NEW c \in Callers, Holds(c), NEW b, Finalized(c, b)
  PROVE  /\ permits[c].key \in Keys /\ buckets'[permits[c].key] = b
         /\ \A k \in Keys : k # permits[c].key => buckets'[k] = buckets[k]
         /\ UNCHANGED <<cfg, now>> /\ now <= now'
<1>1. permits[c].key \in Keys /\ Tracked(permits[c].key)
  BY HeldBucketKnows DEF TInv
<1>2. buckets' = [buckets EXCEPT ![permits[c].key] = b] /\ UNCHANGED <<cfg, now>>
  BY <1>1 DEF Finalized
<1> QED
  BY <1>1, <1>2, Widths DEF TInv, IInv, TypeOK, Duration

LEMMA CommitOnKey ==
  ASSUME TInv, NEW c \in Callers, NEW outcome \in Outcome, TCommit(c, outcome), NEW k \in Keys
  PROVE  hint'[k] = NoHint \/ Elsewhere(k) \/ \E sent \in BOOLEAN : GivenBack(k, c, sent)
<1> DEFINE p == permits[c]
           sent == outcome.kind # "NotSent"
           b == BucketCommit(buckets[p.key], p, sent, 0, cfg.algorithm, now)
<1>1. CASE outcome.kind = "RateLimitedFeedback"
  BY <1>1 DEF TCommit
<1>2. CASE outcome.kind # "RateLimitedFeedback"
  <2>1. outcome.scope = "None" /\ sent \in BOOLEAN
    BY <1>2 DEF Outcome
  <2>2. /\ Holds(c) /\ Finalized(c, b) /\ UNCHANGED global_blocked_until
        /\ hint' = IF sent THEN hint ELSE [hint EXCEPT ![p.key] = HintAfterRelease(p.key)]
    BY <1>2, <2>1 DEF TCommit, Commit
  <2> HIDE DEF b, sent
  <2>3. /\ p.key \in Keys /\ buckets'[p.key] = b
        /\ \A j \in Keys : j # p.key => buckets'[j] = buckets[j]
        /\ UNCHANGED <<cfg, now>> /\ now <= now'
    BY <2>2, FinalizedOnKey
  <2>4. /\ k # p.key => hint'[k] = hint[k]
        /\ hint'[p.key] = IF sent THEN hint[p.key] ELSE HintAfterRelease(p.key)
    BY <2>1, <2>2, <2>3 DEF TInv
  <2>5. CASE k # p.key
    BY <2>2, <2>3, <2>4, <2>5 DEF Elsewhere
  <2>6. CASE k = p.key
    <3>1. GivenBack(k, c, sent)
      BY <2>2, <2>3, <2>4, <2>6 DEF GivenBack, b
    <3> QED
      BY <2>1, <3>1
  <2> QED
    BY <2>5, <2>6
<1> QED
  BY <1>1, <1>2

LEMMA RefundOnKey ==
  ASSUME TInv, NEW c \in Callers, TRefund(c), NEW k \in Keys
  PROVE  Elsewhere(k) \/ GivenBack(k, c, FALSE)
<1> DEFINE p == permits[c]
           b == BucketRefund(buckets[p.key], p, cfg.algorithm, now)
<1>1. /\ Holds(c) /\ Finalized(c, b) /\ UNCHANGED global_blocked_until
      /\ hint' = [hint EXCEPT ![p.key] = HintAfterRelease(p.key)]
  BY DEF TRefund, Refund
<1> HIDE DEF b
<1>2. /\ p.key \in Keys /\ buckets'[p.key] = b
      /\ \A j \in Keys : j # p.key => buckets'[j] = buckets[j]
      /\ UNCHANGED <<cfg, now>> /\ now <= now'
  BY <1>1, FinalizedOnKey
<1>3. /\ k # p.key => hint'[k] = hint[k]
      /\ hint'[p.key] = HintAfterRelease(p.key)
  BY <1>1, <1>2 DEF TInv
<1>4. CASE k # p.key
  BY <1>1, <1>2, <1>3, <1>4 DEF Elsewhere
<1>5. CASE k = p.key
  BY <1>1, <1>2, <1>3, <1>5 DEF GivenBack, b
<1> QED
  BY <1>4, <1>5

LEMMA StepOnKey ==
  ASSUME TInv, [TNext]_tvars, NEW k \in Keys
  PROVE  \/ hint'[k] = NoHint
         \/ Elsewhere(k)
         \/ \E cost \in Cost : Asked(k, cost)
         \/ \E c \in Callers, sent \in BOOLEAN : GivenBack(k, c, sent)
<1>1. now \in Nat
  BY Widths DEF TInv, IInv, TypeOK, Duration
<1>2. ASSUME NEW c \in Callers, NEW route \in Keys, NEW cost \in Costs,
             TTryAcquire(c, route, cost)
      PROVE  Elsewhere(k) \/ \E x \in Cost : Asked(k, x)
  BY <1>2, AcquireOnKey
<1>3. ASSUME NEW c \in Callers, NEW outcome \in Outcome, TCommit(c, outcome)
      PROVE  hint'[k] = NoHint \/ Elsewhere(k) \/ \E sent \in BOOLEAN : GivenBack(k, c, sent)
  BY <1>3, CommitOnKey
<1>4. ASSUME NEW c \in Callers, TRefund(c)
      PROVE  Elsewhere(k) \/ GivenBack(k, c, FALSE)
  BY <1>4, RefundOnKey
<1>5. CASE Tick /\ UNCHANGED hint
  BY <1>1, <1>5 DEF Tick, Elsewhere
<1>6. CASE UNCHANGED tvars
  BY <1>1, <1>6 DEF tvars, vars, Elsewhere
<1>7. CASE hint' = [j \in Keys |-> NoHint]
  BY <1>7
<1> QED
  BY <1>2, <1>3, <1>4, <1>5, <1>6, <1>7 DEF TNext

-----------------------------------------------------------------------------
(***************************************************************************)
(* Hints and clocks are well formed.                                       *)
(***************************************************************************)
LEMMA HintAfterAskingType ==
  ASSUME hint \in [Keys -> Hint], now \in Duration, NEW k \in Keys, NEW cost \in Cost,
         reply'.retry_after \in Duration
  PROVE  HintAfterAsking(k, cost) \in Hint
<1>1. now + reply'.retry_after \in Nat
  BY Widths DEF Duration
<1>2. ASSUME hint[k] # NoHint PROVE [hint[k] EXCEPT !.polled = TRUE] \in Hint
  <2>1. hint[k] \in [reason : CapacityReasons, cost : Cost, at : Nat, polled : BOOLEAN,
                     freed : BOOLEAN]
    BY <1>2 DEF Hint
  <2> QED
    BY <2>1 DEF Hint
<1> QED
  BY <1>1, <1>2 DEF HintAfterAsking, Hint

LEMMA HintAfterReleaseType ==
  ASSUME hint \in [Keys -> Hint], NEW k \in Keys
  PROVE  HintAfterRelease(k) \in Hint
<1>1. CASE hint[k] # NoHint
  <2>1. hint[k] \in [reason : CapacityReasons, cost : Cost, at : Nat, polled : BOOLEAN,
                     freed : BOOLEAN]
    BY <1>1 DEF Hint
  <2> QED
    BY <1>1, <2>1 DEF Hint, HintAfterRelease
<1> QED
  BY <1>1 DEF HintAfterRelease, Hint

LEMMA HintsTyped ==
  ASSUME TInv, IInv', [TNext]_tvars
  PROVE  hint' \in [Keys -> Hint]
<1>1. hint \in [Keys -> Hint] /\ now \in Duration /\ reply'.retry_after \in Duration
  BY DEF TInv, IInv, TypeOK
<1>2. ASSUME NEW c \in Callers, NEW route \in Keys, NEW cost \in Costs,
             TTryAcquire(c, route, cost)
      PROVE  hint' \in [Keys -> Hint]
  <2> DEFINE key == ResolveBucketKey(route_map, route)
  <2>1. key \in Keys /\ cost \in Cost
    BY LimiterAssumption DEF LimiterAssumption, ResolveBucketKey, TInv, IInv, TypeOK
  <2>2. hint' = [hint EXCEPT ![key] = HintAfterAsking(key, cost)]
    BY <1>2 DEF TTryAcquire
  <2> HIDE DEF key
  <2> QED
    BY <1>1, <2>1, <2>2, HintAfterAskingType
<1>3. ASSUME NEW c \in Callers, TRefund(c) \/ \E outcome \in Outcome : TCommit(c, outcome)
      PROVE  hint' \in [Keys -> Hint]
  <2> DEFINE key == permits[c].key
  <2>1. key \in Keys
    BY <1>3, HeldBucketKnows DEF TInv, TRefund, Refund, TCommit, Commit
  <2>2. \/ hint' = [hint EXCEPT ![key] = HintAfterRelease(key)]
        \/ hint' = hint \/ hint' = [j \in Keys |-> NoHint]
    BY <1>3 DEF TRefund, TCommit
  <2> HIDE DEF key
  <2>3. NoHint \in Hint
    BY DEF Hint
  <2> QED
    BY <1>1, <2>1, <2>2, <2>3, HintAfterReleaseType
<1>4. ASSUME hint' = hint \/ hint' = [j \in Keys |-> NoHint]
      PROVE  hint' \in [Keys -> Hint]
  BY <1>1, <1>4 DEF Hint
<1> QED
  BY <1>2, <1>3, <1>4 DEF TNext, tvars

LEMMA InTimeAfter ==
  ASSUME PoolsInTime, UNCHANGED now,
         \A k \in Keys : \/ buckets'[k] = buckets[k] \/ buckets'[k] = NoBucket
                         \/ InTime(buckets'[k].state, now)
  PROVE  PoolsInTime'
BY DEF PoolsInTime, TrackedKeys, Tracked

\* The bucket an operation finds or makes for a key is credited for the past only.
LEMMA BucketAtInTime ==
  ASSUME TInv, NEW key \in Keys
  PROVE  /\ BucketAt(key) \in Bucket /\ BucketAt(key).state.algo = cfg.algorithm.kind
         /\ InTime(BucketAt(key).state, now)
<1>1. BucketAt(key) \in Bucket /\ BucketAt(key).state.algo = cfg.algorithm.kind
      /\ (Tracked(key) => BucketAt(key) = buckets[key]) /\ now \in Duration
  BY InvByKey, BucketAtKey DEF TInv, IInv, TypeOK
<1>2. CASE Tracked(key)
  BY <1>1, <1>2 DEF TInv, PoolsInTime, TrackedKeys
<1>3. CASE ~Tracked(key)
  BY <1>1, <1>3, NewInTime DEF BucketAt, NewBucket
<1> QED
  BY <1>1, <1>2, <1>3

LEMMA AcquireInTime ==
  ASSUME TInv, NEW c \in Callers, NEW route \in Keys, NEW cost \in Costs,
         TTryAcquire(c, route, cost)
  PROVE  PoolsInTime'
<1> DEFINE key == ResolveBucketKey(route_map, route)
<1>1. key \in Keys /\ cost \in Cost
  BY LimiterAssumption DEF LimiterAssumption, ResolveBucketKey, TInv, IInv, TypeOK
<1>2. UNCHANGED now /\ (UNCHANGED buckets \/ BucketAnswer(c, key, cost))
  BY DEF TTryAcquire, TryAcquire, GlobalDeny, SlowStartDeny, KeyBoundDeny
<1> HIDE DEF key
<1>3. CASE UNCHANGED buckets
  BY <1>2, <1>3, InTimeAfter DEF TInv
<1>4. CASE BucketAnswer(c, key, cost)
  <2>1. Answered(key, cost)
        /\ \A k \in Keys \ {key} : buckets'[k] = buckets[k] \/ buckets'[k] = NoBucket
    BY <1>1, <1>4, BucketAnswerShape
  <2>2. InTime(TryReserve(BucketAt(key), EffectiveAlgorithm, cost, now).bucket.state, now)
    BY <1>1, BucketAtInTime, ReserveInTime, EffectiveAlgorithmType DEF TInv, IInv, TypeOK
  <2>3. InTime(buckets'[key].state, now)
    BY <2>1, <2>2 DEF Answered
  <2> QED
    BY <1>2, <2>1, <2>3, InTimeAfter DEF TInv
<1> QED
  BY <1>2, <1>3, <1>4

\* What a finalization leaves in the bucket of the permit.
LEMMA FinalizedBucket ==
  ASSUME TInv, NEW c \in Callers, Holds(c), NEW sent \in BOOLEAN, NEW until \in Duration
  PROVE  LET p == permits[c]
             b == buckets[p.key]
             committed == BucketCommit(b, p, sent, until, cfg.algorithm, now)
             refunded == BucketRefund(b, p, cfg.algorithm, now)
         IN  /\ p.key \in Keys /\ Tracked(p.key) /\ b \in Bucket /\ b.state \in BucketState
             /\ StillKnows(b.state, p, cfg.algorithm) /\ InTime(b.state, now)
             /\ cfg.algorithm \in AlgorithmConfig /\ now \in Duration
             /\ committed \in Bucket /\ refunded \in Bucket
             /\ committed.state = FinalizeState(b.state, p, sent, cfg.algorithm, now)
             /\ refunded.state = RefundState(b.state, p, cfg.algorithm, now)
             /\ InTime(committed.state, now) /\ InTime(refunded.state, now)
             /\ until = 0 /\ now >= b.blocked_until => now >= committed.blocked_until
             /\ now >= b.blocked_until => now >= refunded.blocked_until
<1> DEFINE p == permits[c]
           b == buckets[p.key]
           a == cfg.algorithm
           cleared == ClearExpiredBlock(b, now)
           blocked == ApplyBlockedUntil(cleared, until)
           committed == BucketCommit(b, p, sent, until, a, now)
           refunded == BucketRefund(b, p, a, now)
<1>1. /\ p.key \in Keys /\ Tracked(p.key) /\ StillKnows(b.state, p, a)
      /\ b \in Bucket /\ a \in AlgorithmConfig /\ now \in Duration
  BY HeldBucketKnows, HeldBucket DEF TInv
<1>2. b.state \in BucketState /\ InTime(b.state, now)
  BY <1>1 DEF Bucket, BucketState, TInv, PoolsInTime, TrackedKeys
<1> HIDE DEF a, b, p
<1>3. committed \in Bucket /\ refunded \in Bucket
  BY <1>1, FinalizeEffect
<1>4. /\ cleared \in Bucket /\ blocked \in Bucket
      /\ cleared.state = b.state /\ blocked.state = b.state
      /\ cleared.blocked_until = IF now >= b.blocked_until THEN 0 ELSE b.blocked_until
      /\ blocked.blocked_until = Greater(cleared.blocked_until, until)
  BY <1>1, BlockEffect DEF ClearExpiredBlock, ApplyBlockedUntil, Bucket
<1>5. /\ committed.state = FinalizeState(b.state, p, sent, a, now)
      /\ committed.blocked_until = blocked.blocked_until
      /\ refunded.state = RefundState(b.state, p, a, now)
      /\ refunded.blocked_until = cleared.blocked_until
  BY <1>4 DEF BucketCommit, BucketRefund, Bucket
<1> HIDE DEF cleared, blocked, committed, refunded
<1>6. InTime(committed.state, now) /\ InTime(refunded.state, now)
  BY <1>1, <1>2, <1>5, FinalizeInTime
<1>7. /\ until = 0 /\ now >= b.blocked_until => now >= committed.blocked_until
      /\ now >= b.blocked_until => now >= refunded.blocked_until
  BY <1>1, <1>4, <1>5, Widths DEF Greater, Duration
<1> QED
  BY <1>1, <1>2, <1>3, <1>5, <1>6, <1>7 DEF a, b, p, committed, refunded

LEMMA FinalizationInTime ==
  ASSUME TInv, NEW c \in Callers, TRefund(c) \/ \E outcome \in Outcome : TCommit(c, outcome)
  PROVE  PoolsInTime'
<1> DEFINE p == permits[c]
           Commits(sent, until) == BucketCommit(buckets[p.key], p, sent, until, cfg.algorithm, now)
<1>1. Holds(c)
      /\ \/ Finalized(c, BucketRefund(buckets[p.key], p, cfg.algorithm, now))
         \/ \E sent \in BOOLEAN, until \in Duration : Finalized(c, Commits(sent, until))
  <2>1. ASSUME TRefund(c)
        PROVE  Holds(c) /\ Finalized(c, BucketRefund(buckets[p.key], p, cfg.algorithm, now))
    BY <2>1 DEF TRefund, Refund
  <2>2. ASSUME NEW outcome \in Outcome, TCommit(c, outcome)
        PROVE  Holds(c) /\ \E sent \in BOOLEAN, until \in Duration :
                             Finalized(c, Commits(sent, until))
    <3> DEFINE block == KeyBlock(outcome)
               sent == outcome.kind # "NotSent"
    <3>1. Holds(c) /\ Finalized(c, Commits(sent, block))
      BY <2>2 DEF TCommit, Commit, KeyBlock, OutcomeUntil
    <3>2. block \in Duration /\ sent \in BOOLEAN
      BY OutcomeUntilType DEF TInv, IInv
    <3> HIDE DEF block, sent
    <3> QED
      BY <3>1, <3>2
  <2> QED
    BY <2>1, <2>2
<1>2. PICK b : Finalized(c, b) /\ InTime(b.state, now)
  <2>1. 0 \in Duration
    BY Widths DEF Duration
  <2>2. InTime(BucketRefund(buckets[p.key], p, cfg.algorithm, now).state, now)
    BY <1>1, <2>1, FinalizedBucket
  <2>3. ASSUME NEW sent \in BOOLEAN, NEW until \in Duration
        PROVE  InTime(Commits(sent, until).state, now)
    BY <1>1, <2>3, FinalizedBucket
  <2> HIDE DEF Commits
  <2> QED
    BY <1>1, <2>2, <2>3
<1>3. /\ buckets'[p.key] = b /\ UNCHANGED now
      /\ \A k \in Keys : k # p.key => buckets'[k] = buckets[k]
  BY <1>1, <1>2, FinalizedOnKey
<1> QED
  BY <1>2, <1>3, InTimeAfter DEF TInv

LEMMA FeedbackInTime ==
  ASSUME TInv, NEW route \in Keys, NEW f \in Feedbacks, ApplyFeedback(route, f)
  PROVE  PoolsInTime'
<1> DEFINE key == ResolveBucketKey(RemappedBy(route, f.bucket_remap), route)
           until == FeedbackUntil(f)
           blocked == ApplyBlockedUntil(BucketAt(key), until)
<1>1. /\ key \in Keys /\ until \in Duration /\ now \in Duration /\ UNCHANGED now
      /\ FeedbackBlocksAll(until) \/ FeedbackBlocksKey(key, until)
  BY FeedbackType DEF ApplyFeedback, TInv, IInv, TypeOK
<1> HIDE DEF key, until
<1>2. CASE UNCHANGED buckets
  BY <1>1, <1>2, InTimeAfter DEF TInv
<1>3. CASE \E i \in 0..Len(fifo) : HasRoom(key, i) /\ Place(key, i, blocked)
  <2>1. blocked \in Bucket /\ InTime(blocked.state, now)
    BY <1>1, BucketAtInTime, BlockEffect
  <2> HIDE DEF blocked
  <2>2. /\ buckets'[key] = blocked
        /\ \A k \in Keys \ {key} : buckets'[k] = buckets[k] \/ buckets'[k] = NoBucket
    BY <1>1, <1>3, <2>1, PlaceEffect DEF TInv, IInv
  <2> QED
    BY <1>1, <2>1, <2>2, InTimeAfter DEF TInv
<1> QED
  BY <1>1, <1>2, <1>3 DEF FeedbackBlocksAll, FeedbackBlocksKey

LEMMA UpdateConfigInTime ==
  ASSUME TInv, NEW new \in Configs, UpdateConfig(new)
  PROVE  PoolsInTime'
<1>1. CASE UNCHANGED <<buckets, now>>
  BY <1>1, InTimeAfter DEF TInv
<1>2. CASE Reconfigured(new)
  <2>1. /\ UNCHANGED now /\ now \in Duration
        /\ cfg.algorithm \in AlgorithmConfig /\ new.algorithm \in AlgorithmConfig
        /\ \A k \in Keys : buckets'[k] =
             IF Tracked(k) THEN OnUpdate(buckets[k], cfg.algorithm, new.algorithm, now)
             ELSE NoBucket
    BY <1>2, LimiterAssumption DEF LimiterAssumption, Reconfigured, TInv, IInv, TypeOK, Config
  <2>2. ASSUME NEW k \in Keys, Tracked(k) PROVE InTime(buckets'[k].state, now)
    <3> DEFINE b == buckets[k]
    <3>1. b \in Bucket /\ b.state \in BucketState /\ InTime(b.state, now)
      BY <2>2 DEF TInv, IInv, TypeOK, PoolsInTime, TrackedKeys, Tracked, Bucket, BucketState
    <3> HIDE DEF b
    <3>2. OnUpdate(b, cfg.algorithm, new.algorithm, now).state
            = StateOnUpdate(b.state, cfg.algorithm, new.algorithm, now)
      BY <2>1, <3>1, BlockEffect DEF OnUpdate, Bucket
    <3> QED
      BY <2>1, <2>2, <3>1, <3>2, UpdateInTime DEF b
  <2> QED
    BY <2>1, <2>2, InTimeAfter DEF TInv
<1> QED
  BY <1>1, <1>2 DEF UpdateConfig, RejectUpdate

LEMMA TInvStep ==
  ASSUME TInv, IInv', [TNext]_tvars
  PROVE  TInv'
<1>1. hint' \in [Keys -> Hint]
  BY HintsTyped
<1>2. /\ now \in Nat /\ now' \in Nat /\ StartedAt \in Nat /\ MaxTime \in Nat
      /\ DurationMax \in Nat
  BY LimiterAssumption, Widths DEF LimiterAssumption, TInv, IInv, TypeOK, Duration
<1>3. cfg' \in Configs /\ now <= now' /\ (now' = now \/ now' <= MaxTime)
  BY <1>2 DEF TInv, TNext, TTryAcquire, TryAcquire, TCommit, Commit, TRefund, Refund,
     Finalized, ApplyFeedback, UpdateConfig, RejectUpdate, Reconfigured, Tick, tvars, vars
<1>4. StartedAt <= now' /\ (ClockShortOfMax => now' < DurationMax)
  BY <1>2, <1>3 DEF TInv, ClockShortOfMax
<1>5. CASE UNCHANGED buckets
  <2>1. ASSUME NEW s, InTime(s, now), s \in BucketState PROVE InTime(s, now')
    <3>1. s.algo = "TokenBucket" => s.last_update \in Nat
      BY <2>1, StateKind, Widths DEF TokenBucketState, Duration, FixedWindowState
    <3> QED
      BY <1>2, <1>3, <2>1, <3>1 DEF InTime
  <2>2. \A k \in TrackedKeys : buckets[k].state \in BucketState
    BY DEF TInv, IInv, TypeOK, TrackedKeys, Tracked, Bucket, BucketState
  <2>3. PoolsInTime'
    BY <1>5, <2>1, <2>2 DEF PoolsInTime, TrackedKeys, Tracked, TInv
  <2> QED
    BY <1>1, <1>3, <1>4, <2>3 DEF TInv
<1>6. CASE ~UNCHANGED buckets
  <2>1. PoolsInTime'
    BY <1>6, AcquireInTime, FinalizationInTime, FeedbackInTime, UpdateConfigInTime
       DEF TNext, Tick, tvars, vars
  <2> QED
    BY <1>1, <1>3, <1>4, <2>1 DEF TInv
<1> QED
  BY <1>5, <1>6

LEMMA TInitInv == TInit => TInv
<1> SUFFICES ASSUME TInit PROVE TInv
  OBVIOUS
<1>1. IInv /\ cfg \in Configs /\ now = StartedAt /\ \A k \in Keys : ~Tracked(k)
  BY InitInv DEF TInit, Init, Tracked
<1>2. hint \in [Keys -> Hint]
  BY DEF TInit, Hint
<1>3. StartedAt <= now
  BY <1>1, LimiterAssumption, Widths DEF LimiterAssumption, Duration
<1> QED
  BY <1>1, <1>2, <1>3 DEF TInv, ClockShortOfMax, PoolsInTime, TrackedKeys

-----------------------------------------------------------------------------
(***************************************************************************)
(* Limits in force only grow.                                              *)
(***************************************************************************)
InForce(max) == IF cfg.slow_start = None THEN max ELSE Ramped(max)

LEMMA EffectiveShape ==
  ASSUME TypeOK
  PROVE  LET a == cfg.algorithm
             e == EffectiveAlgorithm IN
         /\ a \in AlgorithmConfig /\ e \in AlgorithmConfig /\ e.kind = a.kind
         /\ Limit(a) \in Nat /\ Limit(e) = InForce(Limit(a))
         /\ a.kind = "FixedWindow" => e.window = a.window
         /\ a.kind = "TokenBucket" => e.refill_per_sec = InForce(a.refill_per_sec)
<1> DEFINE a == cfg.algorithm
           e == EffectiveAlgorithm
<1>1. a \in AlgorithmConfig /\ e \in AlgorithmConfig /\ e.kind = a.kind
  BY EffectiveAlgorithmType DEF TypeOK, Config
<1>2. CASE a.kind = "FixedWindow"
  <2>1. a \in FixedWindowAlgorithm
    BY <1>1, <1>2 DEF AlgorithmConfig, TokenBucketAlgorithm
  <2>2. e = IF cfg.slow_start = None THEN a
            ELSE [a EXCEPT !.max_per_window = Ramped(a.max_per_window)]
    BY <1>2 DEF EffectiveAlgorithm
  <2> HIDE DEF a, e
  <2>3. e.window = a.window /\ e.max_per_window = InForce(a.max_per_window)
    BY <2>1, <2>2 DEF InForce, FixedWindowAlgorithm
  <2>4. Limit(a) = a.max_per_window /\ Limit(e) = e.max_per_window /\ Limit(a) \in Nat
    BY <1>1, <1>2, <2>1, Widths DEF Limit, FixedWindowAlgorithm, U32
  <2> QED
    BY <1>1, <1>2, <2>3, <2>4 DEF a, e
<1>3. CASE a.kind # "FixedWindow"
  <2>1. a \in TokenBucketAlgorithm
    BY <1>1, <1>3 DEF AlgorithmConfig, FixedWindowAlgorithm
  <2>2. e = IF cfg.slow_start = None THEN a
            ELSE [a EXCEPT !.capacity = Ramped(a.capacity),
                           !.refill_per_sec = Ramped(a.refill_per_sec)]
    BY <1>3 DEF EffectiveAlgorithm
  <2> HIDE DEF a, e
  <2>3. e.capacity = InForce(a.capacity) /\ e.refill_per_sec = InForce(a.refill_per_sec)
    BY <2>1, <2>2 DEF InForce, TokenBucketAlgorithm
  <2>4. Limit(a) = a.capacity /\ Limit(e) = e.capacity /\ Limit(a) \in Nat
    BY <1>1, <1>3, <2>1, Widths DEF Limit, TokenBucketAlgorithm, U64
  <2> QED
    BY <1>1, <1>3, <2>3, <2>4 DEF a, e
<1> QED
  BY <1>2, <1>3

LEMMA EffectiveGrows ==
  ASSUME NEW max \in Nat, NEW ramp \in Duration, NEW t \in Duration, NEW u \in Duration,
         t <= u
  PROVE  /\ Effective(max, ramp, StartedAt, t) \in Nat
         /\ Effective(max, ramp, StartedAt, t) <= Effective(max, ramp, StartedAt, u)
<1> DEFINE e == SatSub(t, StartedAt)
           f == SatSub(u, StartedAt)
<1>1. e \in Nat /\ f \in Nat /\ e <= f /\ ramp \in Nat
  BY LimiterAssumption, Widths DEF LimiterAssumption, SatSub, Duration
<1>2. /\ Effective(max, ramp, StartedAt, t) =
           IF ramp = 0 \/ e >= ramp THEN max ELSE (max * e) \div ramp
      /\ Effective(max, ramp, StartedAt, u) =
           IF ramp = 0 \/ f >= ramp THEN max ELSE (max * f) \div ramp
  BY DEF Effective
<1>3. /\ Effective(max, ramp, StartedAt, t) \in 0..max
      /\ Effective(max, ramp, StartedAt, u) \in 0..max
  BY EffectiveBound, LimiterAssumption DEF LimiterAssumption
<1> HIDE DEF e, f
<1>4. CASE ramp = 0 \/ f >= ramp
  BY <1>2, <1>3, <1>4
<1>5. CASE ~(ramp = 0 \/ f >= ramp)
  <2>1. ramp \in Nat \ {0} /\ e < ramp
    BY <1>1, <1>5
  <2>2. max * e \in Nat /\ max * f \in Nat /\ max * e <= max * f
    BY <1>1
  <2>3. (max * e) \div ramp <= (max * f) \div ramp
    BY <2>1, <2>2
  <2> QED
    BY <1>1, <1>2, <1>3, <1>5, <2>1, <2>3
<1> QED
  BY <1>4, <1>5

LEMMA InForceGrows ==
  ASSUME TypeOK, TypeOK', UNCHANGED cfg, now <= now', NEW max \in Nat
  PROVE  InForce(max) \in Nat /\ InForce(max)' \in Nat /\ InForce(max) <= InForce(max)'
<1>1. now \in Duration /\ now' \in Duration /\ (cfg.slow_start # None => cfg.slow_start \in Duration)
  BY DEF TypeOK, Config
<1>2. CASE cfg.slow_start = None
  BY <1>2 DEF InForce
<1>3. CASE cfg.slow_start # None
  <2>1. now' <= now'
    BY <1>1, Widths DEF Duration
  <2> QED
    BY <1>1, <1>3, <2>1, EffectiveGrows DEF InForce, Ramped
<1> QED
  BY <1>2, <1>3

\* What slow start admits it goes on admitting.
LimitInForce == Limit(EffectiveAlgorithm) = InForce(Limit(cfg.algorithm))

RateInForce ==
  cfg.algorithm.kind = "TokenBucket" =>
    EffectiveAlgorithm.refill_per_sec = InForce(cfg.algorithm.refill_per_sec)

LEMMA LimitsInForce == TypeOK => LimitInForce /\ RateInForce
BY EffectiveShape DEF LimitInForce, RateInForce

LEMMA LimitsGrow ==
  ASSUME TypeOK, TypeOK', UNCHANGED cfg, now <= now'
  PROVE  /\ Limit(EffectiveAlgorithm) \in Nat /\ Limit(EffectiveAlgorithm)' \in Nat
         /\ Limit(EffectiveAlgorithm) <= Limit(EffectiveAlgorithm)'
         /\ cfg.algorithm.kind = "TokenBucket" =>
              /\ EffectiveAlgorithm.refill_per_sec \in Nat
              /\ EffectiveAlgorithm.refill_per_sec' \in Nat
              /\ EffectiveAlgorithm.refill_per_sec <= EffectiveAlgorithm.refill_per_sec'
<1>1. LimitInForce /\ RateInForce
  BY LimitsInForce
<1>2. (TypeOK => LimitInForce /\ RateInForce)'
  BY LimitsInForce, PTL
<1>3. cfg.algorithm.kind = "TokenBucket" => cfg.algorithm.refill_per_sec \in Nat
  BY AlgorithmKind, Widths DEF TypeOK, Config, U64
<1> QED
  BY <1>1, <1>2, <1>3, EffectiveShape, InForceGrows DEF LimitInForce, RateInForce

\* Slow start denies a cost exactly until the line reaches it.
LEMMA DeniedUntilReached ==
  ASSUME TInv, NEW cost \in Cost, cfg.slow_start # None, cost <= Limit(cfg.algorithm)
  PROVE  LET reached == DivCeil(cost * cfg.slow_start, Limit(cfg.algorithm)) IN
         /\ reached \in Nat
         /\ SlowStartDenies(cost) <=> now - StartedAt < reached
         /\ SlowStartDenies(cost) => cfg.slow_start # 0
<1> DEFINE max == Limit(cfg.algorithm)
           ramp == cfg.slow_start
           e == now - StartedAt
           reached == DivCeil(cost * ramp, max)
<1>1. /\ max \in Nat \ {0} /\ ramp \in Nat /\ cost \in Nat \ {0} /\ e \in Nat
      /\ now \in Nat /\ StartedAt \in Nat
  BY EffectiveShape, LimiterAssumption, Widths
     DEF LimiterAssumption, TInv, IInv, TypeOK, Config, Duration, Cost
<1>2. Limit(EffectiveAlgorithm) = IF ramp = 0 \/ e >= ramp THEN max ELSE (max * e) \div ramp
  <2>1. Limit(EffectiveAlgorithm) = Effective(max, ramp, StartedAt, now)
    BY EffectiveShape DEF TInv, IInv, InForce, Ramped
  <2>2. SatSub(now, StartedAt) = e
    BY <1>1 DEF SatSub
  <2> QED
    BY <2>1, <2>2 DEF Effective
<1>3. cfg.algorithm.kind = "FixedWindow" => cfg.algorithm.max_per_window = max
  BY DEF Limit
<1>4. SlowStartDenies(cost) <=> Limit(EffectiveAlgorithm) < cost
  BY <1>1, <1>3 DEF SlowStartDenies
<1> HIDE DEF max, ramp, e
<1>5. cost * ramp \in Nat /\ cost <= max
  BY <1>1 DEF max
<1>6. reached \in Nat
  BY <1>1, <1>5, DivCeilType
<1>7. /\ SlowStartDenies(cost) <=> e < reached
      /\ SlowStartDenies(cost) => ramp # 0
  <2>1. /\ (IF ramp = 0 \/ e >= ramp THEN max ELSE (max * e) \div ramp) < cost
             <=> e < reached
        /\ e < reached => ramp # 0
    BY <1>1, <1>5, RampReaches
  <2> QED
    BY <1>2, <1>4, <2>1
<1> QED
  BY <1>6, <1>7 DEF max, ramp, e

-----------------------------------------------------------------------------
(***************************************************************************)
(* The hint of a key after the key was asked.                              *)
(***************************************************************************)
\* The same hint; the key may have been asked or freed since.
SameHint(h, g) ==
  /\ g.reason = h.reason /\ g.cost = h.cost /\ g.at = h.at
  /\ h.polled => g.polled
  /\ h.freed => g.freed

FreshHint(reason, cost) ==
  [reason |-> reason, cost |-> cost, at |-> now + reply'.retry_after,
   polled |-> FALSE, freed |-> FALSE]

\* The key's bucket turns `cost` away for want of capacity, its first denial.
Exhausted(k, cost) ==
  LET answer == TryReserve(BucketAt(k), EffectiveAlgorithm, cost, now) IN
  /\ Answered(k, cost) /\ answer.reason = "WindowExhausted"
  /\ hint'[k].reason = "WindowExhausted" /\ hint'[k].cost = cost
  /\ hint'[k].at = now + answer.retry_after
  /\ ~hint'[k].polled /\ ~hint'[k].freed

Polled(k, cost) ==
  /\ hint[k] # NoHint /\ SameHint(hint[k], hint'[k]) /\ hint'[k].polled
  /\ \/ UNCHANGED buckets
     \/ /\ Answered(k, cost)
        /\ TryReserve(BucketAt(k), EffectiveAlgorithm, cost, now).reason # "Granted"

LEMMA HintParts ==
  ASSUME hint \in [Keys -> Hint], NEW k \in Keys
  PROVE  /\ hint[k] # NoHint =>
              hint[k] \in [reason : CapacityReasons, cost : Cost, at : Nat, polled : BOOLEAN,
                           freed : BOOLEAN]
         /\ hint[k] = NoHint <=> hint[k].reason = "None"
BY DEF Hint, NoHint, CapacityReasons

LEMMA AskedCases ==
  ASSUME TInv, NEW k \in Keys, NEW cost \in Cost, Asked(k, cost)
  PROVE  \/ hint'[k] = NoHint
         \/ Polled(k, cost)
         \/ SlowStartDeny(cost) /\ hint'[k] = FreshHint("SlowStart", cost)
         \/ Exhausted(k, cost)
<1> DEFINE answer == TryReserve(BucketAt(k), EffectiveAlgorithm, cost, now)
           turned == [hint[k] EXCEPT !.polled = TRUE]
<1>1. hint[k] # NoHint => SameHint(hint[k], turned) /\ turned.polled
  <2>1. hint \in [Keys -> Hint]
    BY DEF TInv
  <2> QED
    BY <2>1, HintParts DEF SameHint
<1>2. answer.reason \in BucketReasons
  <2>1. /\ BucketAt(k) \in Bucket /\ EffectiveAlgorithm \in AlgorithmConfig
        /\ now \in Duration
    BY BucketAtInTime, EffectiveShape DEF TInv, IInv, TypeOK
  <2> QED
    BY <2>1, TryReserveEffect
<1> HIDE DEF answer, turned
<1>3. CASE TurnedAway(cost)
  <2>1. UNCHANGED buckets /\ reply'.reason \in {"FeedbackBackoff", "KeyCardinalityBound", "SlowStart"}
        /\ (reply'.reason = "SlowStart" => SlowStartDeny(cost))
    BY <1>3 DEF TurnedAway, SlowStartDeny, Returns
  <2>2. hint'[k] = IF hint[k] # NoHint THEN turned
                   ELSE IF reply'.reason = "SlowStart" THEN FreshHint("SlowStart", cost)
                   ELSE NoHint
    BY <2>1 DEF Asked, HintAfterAsking, CapacityReasons, FreshHint, turned
  <2> QED
    BY <1>1, <2>1, <2>2 DEF Polled
<1>4. CASE Answered(k, cost)
  <2>1. /\ reply'.reason = DenyReason(answer.reason)
        /\ reply'.retry_after = answer.retry_after
    BY <1>4 DEF Answered, answer
  <2>2. /\ reply'.reason # "SlowStart"
        /\ reply'.reason = "Granted" <=> answer.reason = "Granted"
        /\ reply'.reason = "WindowExhausted" <=> answer.reason = "WindowExhausted"
    BY <1>2, <2>1 DEF DenyReason, BucketReasons
  <2>3. hint'[k] = IF answer.reason = "Granted" THEN NoHint
                   ELSE IF hint[k] # NoHint THEN turned
                   ELSE IF answer.reason = "WindowExhausted"
                     THEN FreshHint("WindowExhausted", cost)
                   ELSE NoHint
    BY <2>2 DEF Asked, HintAfterAsking, CapacityReasons, FreshHint, turned
  <2>4. CASE hint[k] # NoHint /\ answer.reason # "Granted"
    BY <1>1, <1>4, <2>3, <2>4 DEF Polled, answer
  <2>5. CASE hint[k] = NoHint /\ answer.reason = "WindowExhausted"
    <3>1. hint'[k] = FreshHint("WindowExhausted", cost)
      BY <2>3, <2>5
    <3> QED
      BY <1>4, <2>1, <2>5, <3>1 DEF Exhausted, FreshHint, answer
  <2> QED
    BY <2>3, <2>4, <2>5
<1> QED
  BY <1>3, <1>4 DEF Asked

LEMMA ReleasedHint ==
  ASSUME TInv, NEW k \in Keys, NEW c, NEW sent, GivenBack(k, c, sent), hint'[k] # NoHint
  PROVE  /\ hint[k] # NoHint /\ SameHint(hint[k], hint'[k])
         /\ hint'[k].polled = hint[k].polled
         /\ IF sent THEN hint'[k] = hint[k] ELSE hint'[k].freed
<1>1. hint \in [Keys -> Hint]
  BY DEF TInv
<1>2. hint'[k] = IF sent THEN hint[k] ELSE HintAfterRelease(k)
  BY DEF GivenBack
<1>3. hint[k] # NoHint
  BY <1>2 DEF HintAfterRelease
<1> QED
  BY <1>1, <1>2, <1>3, HintParts DEF HintAfterRelease, SameHint

\* One lemma for every step that keeps a hint: what it says is said already.
LEMMA HintSteps ==
  ASSUME TInv, [TNext]_tvars, NEW k \in Keys, hint'[k] # NoHint
  PROVE  \/ Elsewhere(k)
         \/ \E cost \in Cost :
              /\ UNCHANGED <<cfg, global_blocked_until, now>>
              /\ \/ Polled(k, cost)
                 \/ SlowStartDeny(cost) /\ hint'[k] = FreshHint("SlowStart", cost)
                 \/ Exhausted(k, cost)
         \/ \E c \in Callers, sent \in BOOLEAN : GivenBack(k, c, sent)
BY StepOnKey, AskedCases DEF Asked

-----------------------------------------------------------------------------
(***************************************************************************)
(* Slow-start hints.                                                       *)
(***************************************************************************)
LEMMA FreshRampHint ==
  ASSUME TInv, UNCHANGED cfg, NEW k \in Keys, NEW cost \in Cost, SlowStartDeny(cost),
         hint'[k] = FreshHint("SlowStart", cost)
  PROVE  RampHint(k)'
<1> DEFINE max == Limit(cfg.algorithm)
           ramp == cfg.slow_start
           reached == DivCeil(cost * ramp, max)
<1>1. SUFFICES ASSUME cost <= max
               PROVE  ramp # None /\ now + reply'.retry_after = StartedAt + reached
  BY DEF RampHint, FreshHint
<1>2. /\ ramp # None /\ SlowStartDenies(cost)
      /\ reply'.retry_after = RetryAfterForCost(max, ramp, StartedAt, now, cost)
  BY DEF SlowStartDeny, SlowStartDenies, Returns
<1>3. reached \in Nat /\ ramp # 0 /\ now - StartedAt < reached
  BY <1>1, <1>2, DeniedUntilReached
<1>4. /\ now \in Nat /\ StartedAt \in Nat /\ StartedAt <= now /\ ramp \in Nat
      /\ max \in Nat \ {0} /\ cost \in Nat \ {0}
  BY <1>1, <1>2, EffectiveShape, LimiterAssumption, Widths
     DEF LimiterAssumption, TInv, IInv, TypeOK, Config, Duration, Cost
<1>5. reached <= ramp
  <2>1. cost * ramp \in Nat /\ cost * ramp <= max * ramp
    BY <1>1, <1>4
  <2> HIDE DEF max, ramp
  <2> QED
    BY <1>4, <2>1, DivCeilBounds
<1>6. reply'.retry_after = SatSub(reached, SatSub(now, StartedAt))
  BY <1>1, <1>2, <1>3, <1>4, <1>5 DEF RetryAfterForCost, SatSub
<1> HIDE DEF reached, ramp, max
<1> QED
  BY <1>2, <1>3, <1>4, <1>6 DEF SatSub

LEMMA RampHintKept ==
  ASSUME NEW k \in Keys, RampHint(k), UNCHANGED cfg, SameHint(hint[k], hint'[k])
  PROVE  RampHint(k)'
BY DEF RampHint, SameHint

LEMMA RampInvStep ==
  ASSUME TInv, RampInv, [TNext]_tvars
  PROVE  RampInv'
<1> SUFFICES ASSUME NEW k \in Keys PROVE RampHint(k)'
  BY DEF RampInv
<1>1. CASE hint'[k] = NoHint
  BY <1>1 DEF RampHint, NoHint
<1>2. CASE hint'[k] # NoHint
  <2>1. \/ UNCHANGED cfg /\ SameHint(hint[k], hint'[k])
        \/ \E cost \in Cost : /\ UNCHANGED cfg
                              /\ \/ Exhausted(k, cost)
                                 \/ /\ SlowStartDeny(cost)
                                    /\ hint'[k] = FreshHint("SlowStart", cost)
    BY <1>2, HintSteps, ReleasedHint DEF Elsewhere, GivenBack, Polled, SameHint
  <2>2. ASSUME NEW cost \in Cost, Exhausted(k, cost) PROVE RampHint(k)'
    BY <2>2 DEF Exhausted, RampHint
  <2> QED
    BY <2>1, <2>2, FreshRampHint, RampHintKept DEF RampInv
<1> QED
  BY <1>1, <1>2

LEMMA RampHintExact == TInv /\ RampInv => RampWaitExact
<1> SUFFICES ASSUME TInv, RampInv, NEW k \in Keys, hint[k].reason = "SlowStart",
                    hint[k].cost <= Limit(cfg.algorithm)
             PROVE  now >= hint[k].at <=> ~SlowStartDenies(hint[k].cost)
  BY DEF RampWaitExact
<1> DEFINE cost == hint[k].cost
           reached == DivCeil(cost * cfg.slow_start, Limit(cfg.algorithm))
<1>1. cost \in Cost
  BY HintParts DEF TInv, NoHint
<1>2. cfg.slow_start # None /\ hint[k].at = StartedAt + reached
  BY DEF RampInv, RampHint
<1>3. /\ reached \in Nat
      /\ SlowStartDenies(cost) <=> now - StartedAt < reached
  BY <1>1, <1>2, DeniedUntilReached
<1>4. now \in Nat /\ StartedAt \in Nat /\ StartedAt <= now
  BY LimiterAssumption, Widths DEF LimiterAssumption, TInv, IInv, TypeOK, Duration
<1> QED
  BY <1>2, <1>3, <1>4

-----------------------------------------------------------------------------
(***************************************************************************)
(* Hints are kept beside a limiter and change nothing it does.             *)
(***************************************************************************)
LEMMA HintStepIsLimiters == [TNext]_tvars => [Next]_vars
BY DEF TNext, Next, TTryAcquire, TCommit, TRefund, tvars

LEMMA HintSpecIsLimiters == TSpec => Spec
<1>1. TInit => Init
  BY DEF TInit
<1> QED
  BY <1>1, HintStepIsLimiters, PTL DEF TSpec, Spec

THEOREM HintInvariance == TSpec => []TInv
<1>1. TSpec => []IInv
  BY HintSpecIsLimiters, Invariance, PTL
<1> QED
  BY <1>1, TInitInv, TInvStep, PTL DEF TSpec

\* No hint is made of anything but a denial for want of capacity.
THEOREM HintsWellFormed == TSpec => []HintTypeOK
<1>1. TInv => HintTypeOK
  BY DEF TInv, IInv, HintTypeOK
<1> QED
  BY <1>1, HintInvariance, PTL

LEMMA NoHintsYet == TInit => RampInv /\ WindowInv /\ PoolInv /\ TightInv
<1> SUFFICES ASSUME TInit PROVE RampInv /\ WindowInv /\ PoolInv /\ TightInv
  OBVIOUS
<1>1. \A k \in Keys : hint[k] = NoHint /\ hint[k].reason = "None"
  BY DEF TInit, NoHint
<1>2. RampInv
  BY <1>1 DEF RampInv, RampHint
<1>3. WindowInv
  BY <1>1 DEF WindowInv, Admissible, WindowHint
<1>4. PoolInv
  BY <1>1 DEF PoolInv, PoolHint
<1>5. TightInv
  BY <1>1 DEF TightInv, TightHint
<1> QED
  BY <1>2, <1>3, <1>4, <1>5

(***************************************************************************)
(* A slow-start denial names the exact moment its cost is first admitted.  *)
(***************************************************************************)
THEOREM RampWaitIsExact == TSpec => []RampWaitExact
<1>1. TInit => RampInv
  BY NoHintsYet
<1>2. TInv /\ RampInv /\ [TNext]_tvars => RampInv'
  BY RampInvStep
<1> QED
  BY <1>1, <1>2, RampHintExact, HintInvariance, PTL DEF TSpec

-----------------------------------------------------------------------------
(***************************************************************************)
(* What a denial leaves in the bucket that answers it.                     *)
(***************************************************************************)
\* The state an answer looks at: the window rolled over, the pool refilled.
Current(s, a, time) ==
  IF a.kind = "FixedWindow" THEN MaybeResetWindow(s, time, a.window)
  ELSE Refill(s, a.capacity, a.refill_per_sec, time)

\* Why a window or a pool has nothing for `cost`, and how long it says to wait.
LacksFor(t, a, cost, time, wait) ==
  IF a.kind = "FixedWindow"
  THEN /\ cost > SatSub(a.max_per_window, SatAdd(t.spent, t.reserved, U32Max))
       /\ wait = SatSub(WindowEnd(t, a.window), time)
  ELSE /\ t.credits < cost /\ a.refill_per_sec > 0
       /\ wait = RetryAfterForDeficit(cost - t.credits, a.refill_per_sec)

LEMMA StateDenial ==
  ASSUME NEW s \in BucketState, NEW a \in AlgorithmConfig, NEW cost \in Cost,
         NEW time \in Duration, s.algo = a.kind,
         StateTryReserve(s, a, cost, time).reason # "Granted"
  PROVE  LET answer == StateTryReserve(s, a, cost, time)
             t == Current(s, a, time) IN
         /\ answer.state = s \/ answer.state = t
         /\ answer.reason = "WindowExhausted" =>
              /\ cost <= Limit(a) /\ answer.state = t
              /\ LacksFor(t, a, cost, time, answer.retry_after)
<1> DEFINE answer == StateTryReserve(s, a, cost, time)
           t == Current(s, a, time)
<1>1. CASE a.kind = "FixedWindow"
  <2>1. /\ a.max_per_window \in Nat /\ cost \in Nat
        /\ t = MaybeResetWindow(s, time, a.window) /\ Limit(a) = a.max_per_window
        /\ answer = FixedWindowTryReserve(s, a.max_per_window, a.window, cost, time)
    BY <1>1, AlgorithmKind, Widths DEF U32, Cost, Limit, Current, StateTryReserve
  <2> DEFINE available == SatSub(a.max_per_window, SatAdd(t.spent, t.reserved, U32Max))
  <2>2. /\ answer.state = t
        /\ answer.reason = "WindowExhausted" =>
             /\ cost <= a.max_per_window /\ cost > available
             /\ answer.retry_after = SatSub(WindowEnd(t, a.window), time)
    <3> HIDE DEF available
    <3> QED
      BY <2>1 DEF FixedWindowTryReserve, RetryAfterForWindow, available
  <2> QED
    BY <1>1, <2>1, <2>2 DEF LacksFor
<1>2. CASE a.kind # "FixedWindow"
  <2>1. /\ a.capacity \in Nat /\ a.refill_per_sec \in Nat /\ cost \in Nat
        /\ t = Refill(s, a.capacity, a.refill_per_sec, time) /\ Limit(a) = a.capacity
        /\ answer = TokenTryReserve(s, a.capacity, a.refill_per_sec, cost, time)
    BY <1>2, AlgorithmKind, Widths DEF U64, Cost, Limit, Current, StateTryReserve
  <2>2. t.credits \in Nat
    BY <1>2, <2>1, StateKind, AlgorithmKind, RefillEffect, Widths DEF TokenBucketState, U64
  <2>3. /\ answer.state = s \/ answer.state = t
        /\ answer.reason = "WindowExhausted" =>
             /\ cost <= a.capacity /\ answer.state = t
             /\ t.credits < cost /\ a.refill_per_sec > 0
             /\ answer.retry_after = RetryAfterForDeficit(cost - t.credits, a.refill_per_sec)
    BY <2>1, <2>2 DEF TokenTryReserve
  <2> QED
    BY <1>2, <2>1, <2>3 DEF LacksFor
<1> QED
  BY <1>1, <1>2

\* The same of the bucket of a key, as the limiter asks it.
LEMMA KeyDenial ==
  ASSUME TInv, NEW k \in Keys, NEW cost \in Cost, Answered(k, cost),
         TryReserve(BucketAt(k), EffectiveAlgorithm, cost, now).reason # "Granted"
  PROVE  LET b == BucketAt(k)
             e == EffectiveAlgorithm
             s == b.state
             t == Current(s, e, now)
             answer == TryReserve(b, e, cost, now) IN
         /\ buckets'[k].state = s \/ buckets'[k].state = t
         /\ now >= b.blocked_until => now >= buckets'[k].blocked_until
         /\ answer.reason = "WindowExhausted" =>
              /\ now >= buckets'[k].blocked_until /\ cost <= Limit(e)
              /\ buckets'[k].state = t /\ LacksFor(t, e, cost, now, answer.retry_after)
<1> DEFINE b == BucketAt(k)
           e == EffectiveAlgorithm
           s == b.state
           t == Current(s, e, now)
           answer == TryReserve(b, e, cost, now)
           of_state == StateTryReserve(s, e, cost, now)
<1>1. /\ b \in Bucket /\ s \in BucketState /\ e \in AlgorithmConfig /\ s.algo = e.kind
      /\ now \in Duration /\ now \in Nat
  BY BucketAtInTime, EffectiveShape, Widths
     DEF TInv, IInv, TypeOK, Bucket, BucketState, Duration
<1>2. buckets'[k] = answer.bucket
  BY DEF Answered
<1> HIDE DEF b, e
<1>3. /\ \/ answer.reason = "BlockedUntil" /\ answer.bucket.state = s
         \/ /\ now >= b.blocked_until
            /\ answer.reason = of_state.reason /\ answer.bucket.state = of_state.state
            /\ answer.retry_after = of_state.retry_after
      /\ now >= b.blocked_until => answer.bucket.blocked_until = 0
  BY <1>1, TryReserveShape
<1>4. answer.reason # "Granted"
  BY DEF b, e
<1>5. of_state.reason # "Granted" =>
        /\ of_state.state = s \/ of_state.state = t
        /\ of_state.reason = "WindowExhausted" =>
             /\ cost <= Limit(e) /\ of_state.state = t
             /\ LacksFor(t, e, cost, now, of_state.retry_after)
  BY <1>1, StateDenial
<1> HIDE DEF answer, of_state, s, t
<1>6. /\ answer.bucket.state = s \/ answer.bucket.state = t
      /\ now >= b.blocked_until => now >= answer.bucket.blocked_until
      /\ answer.reason = "WindowExhausted" =>
           /\ now >= answer.bucket.blocked_until /\ cost <= Limit(e)
           /\ answer.bucket.state = t /\ LacksFor(t, e, cost, now, answer.retry_after)
  BY <1>1, <1>3, <1>4, <1>5
<1> QED
  BY <1>2, <1>6 DEF answer, s, t, b, e

-----------------------------------------------------------------------------
(***************************************************************************)
(* A cost that was turned away for want of capacity stays one that neither *)
(* the limits nor a backoff would turn away.                               *)
(***************************************************************************)
\* Nothing asked of the key, and nothing taken from it, brings a block on.
LEMMA BlocksAway ==
  ASSUME TInv, TInv', NEW k \in Keys, Tracked(k)',
         Tracked(k) => now >= buckets[k].blocked_until,
         \/ Elsewhere(k) \/ \E cost \in Cost : UNCHANGED now /\ Polled(k, cost)
         \/ \E c \in Callers, sent \in BOOLEAN : GivenBack(k, c, sent)
  PROVE  now' >= buckets'[k].blocked_until
<1>1. /\ now \in Nat /\ now' \in Nat /\ 0 \in Duration
      /\ buckets'[k] \in Bucket /\ (Tracked(k) => buckets[k] \in Bucket)
  BY Widths DEF TInv, IInv, TypeOK, Tracked, Duration
<1>2. CASE Elsewhere(k)
  <2>1. now <= now' /\ Tracked(k) /\ buckets'[k] = buckets[k]
    BY <1>2 DEF Elsewhere, Tracked
  <2>2. buckets[k].blocked_until \in Nat
    BY <1>1, <2>1, Widths DEF Bucket, Duration
  <2> QED
    BY <1>1, <2>1, <2>2
<1>3. ASSUME NEW cost \in Cost, UNCHANGED now, Polled(k, cost)
      PROVE  now' >= buckets'[k].blocked_until
  <2>1. now >= BucketAt(k).blocked_until
    BY <1>1 DEF BucketAt, NewBucket
  <2>2. CASE UNCHANGED buckets
    BY <1>3, <2>2 DEF Tracked
  <2>3. CASE ~UNCHANGED buckets
    <3>1. Answered(k, cost)
          /\ TryReserve(BucketAt(k), EffectiveAlgorithm, cost, now).reason # "Granted"
      BY <1>3, <2>3 DEF Polled
    <3> QED
      BY <1>3, <2>1, <3>1, KeyDenial
  <2> QED
    BY <2>2, <2>3
<1>4. ASSUME NEW c \in Callers, NEW sent \in BOOLEAN, GivenBack(k, c, sent)
      PROVE  now' >= buckets'[k].blocked_until
  <2>1. Holds(c) /\ permits[c].key = k /\ UNCHANGED now
    BY <1>4 DEF GivenBack
  <2>2. /\ Tracked(k)
        /\ LET committed == BucketCommit(buckets[k], permits[c], sent, 0, cfg.algorithm, now)
               refunded == BucketRefund(buckets[k], permits[c], cfg.algorithm, now)
           IN  now >= buckets[k].blocked_until =>
                 now >= committed.blocked_until /\ now >= refunded.blocked_until
    BY <1>1, <2>1, FinalizedBucket
  <2> QED
    BY <1>4, <2>1, <2>2 DEF GivenBack
<1> QED
  BY <1>2, <1>3, <1>4

LEMMA AdmissibleStep ==
  ASSUME TInv, TInv', [TNext]_tvars, NEW k \in Keys, Admissible(k)
  PROVE  Admissible(k)'
<1> SUFFICES ASSUME hint'[k].reason = "WindowExhausted"
             PROVE  /\ hint'[k].cost <= Limit(EffectiveAlgorithm)'
                    /\ now' >= global_blocked_until'
                    /\ Tracked(k)' => now' >= buckets'[k].blocked_until
  BY DEF Admissible
<1>1. hint'[k] # NoHint /\ TypeOK /\ TypeOK'
  BY DEF NoHint, TInv, IInv
<1>2. now \in Nat /\ now' \in Nat /\ global_blocked_until \in Nat
  BY <1>1, Widths DEF TypeOK, Duration
<1>3. ASSUME SameHint(hint[k], hint'[k]), UNCHANGED <<cfg, global_blocked_until>>, now <= now',
             \/ Elsewhere(k) \/ \E cost \in Cost : UNCHANGED now /\ Polled(k, cost)
             \/ \E c \in Callers, sent \in BOOLEAN : GivenBack(k, c, sent)
      PROVE  /\ hint'[k].cost <= Limit(EffectiveAlgorithm)'
             /\ now' >= global_blocked_until'
             /\ Tracked(k)' => now' >= buckets'[k].blocked_until
  <2>1. /\ hint[k].reason = "WindowExhausted" /\ hint'[k].cost = hint[k].cost
        /\ hint[k].cost <= Limit(EffectiveAlgorithm) /\ now >= global_blocked_until
        /\ Tracked(k) => now >= buckets[k].blocked_until
    BY <1>3 DEF SameHint, Admissible
  <2>2. hint[k].cost \in Nat
    BY <2>1, HintParts, Widths DEF NoHint, TInv, Cost
  <2>3. /\ Limit(EffectiveAlgorithm) \in Nat /\ Limit(EffectiveAlgorithm)' \in Nat
        /\ Limit(EffectiveAlgorithm) <= Limit(EffectiveAlgorithm)'
    BY <1>1, <1>3, LimitsGrow
  <2>4. Tracked(k)' => now' >= buckets'[k].blocked_until
    BY <1>3, <2>1, BlocksAway
  <2> QED
    BY <1>2, <1>3, <2>1, <2>2, <2>3, <2>4
<1>4. ASSUME NEW cost \in Cost, Exhausted(k, cost), UNCHANGED <<cfg, global_blocked_until, now>>
      PROVE  /\ hint'[k].cost <= Limit(EffectiveAlgorithm)'
             /\ now' >= global_blocked_until'
             /\ Tracked(k)' => now' >= buckets'[k].blocked_until
  <2>1. cost <= Limit(EffectiveAlgorithm) /\ now >= buckets'[k].blocked_until
    BY <1>4, KeyDenial DEF Exhausted
  <2>2. /\ Limit(EffectiveAlgorithm) \in Nat /\ Limit(EffectiveAlgorithm)' \in Nat
        /\ Limit(EffectiveAlgorithm) <= Limit(EffectiveAlgorithm)'
    BY <1>1, <1>2, <1>4, LimitsGrow
  <2>3. now >= global_blocked_until /\ hint'[k].cost = cost /\ cost \in Nat
    BY <1>4, Widths DEF Exhausted, Answered, Cost
  <2> QED
    BY <1>4, <2>1, <2>2, <2>3
<1>5. ASSUME NEW cost \in Cost, hint'[k] = FreshHint("SlowStart", cost) PROVE FALSE
  BY <1>5 DEF FreshHint
<1>6. ASSUME NEW c \in Callers, NEW sent \in BOOLEAN, GivenBack(k, c, sent)
      PROVE  /\ SameHint(hint[k], hint'[k]) /\ UNCHANGED <<cfg, global_blocked_until>>
             /\ now <= now'
  BY <1>1, <1>2, <1>6, ReleasedHint DEF GivenBack
<1>7. Elsewhere(k) => /\ SameHint(hint[k], hint'[k]) /\ UNCHANGED <<cfg, global_blocked_until>>
                      /\ now <= now'
  BY DEF Elsewhere, SameHint
<1> QED
  BY <1>1, <1>2, <1>3, <1>4, <1>5, <1>6, <1>7, HintSteps DEF Polled

-----------------------------------------------------------------------------
(***************************************************************************)
(* Hints about a window.                                                   *)
(***************************************************************************)
LEMMA CurrentServes ==
  ASSUME NEW s, NEW a, a.kind = "FixedWindow", NEW time, NEW at,
         ServesFrom(s, a.window, at)
  PROVE  ServesFrom(Current(s, a, time), a.window, at)
BY DEF Current, MaybeResetWindow, NewFixedWindow, ServesFrom

\* A window that serves a retry anyway still does when it is asked, ends or gets capacity back.
LEMMA ServesStill ==
  ASSUME TInv, NEW k \in Keys, cfg.algorithm.kind = "FixedWindow", UNCHANGED cfg,
         NEW at, Tracked(k)', Tracked(k) => ServesFrom(buckets[k].state, cfg.algorithm.window, at),
         \/ Elsewhere(k) \/ \E cost \in Cost : Polled(k, cost)
         \/ \E c \in Callers, sent \in BOOLEAN : GivenBack(k, c, sent)
  PROVE  ServesFrom(buckets'[k].state, cfg.algorithm.window, at)
<1> DEFINE a == cfg.algorithm
           e == EffectiveAlgorithm
<1>1. e.kind = "FixedWindow" /\ e.window = a.window
  BY EffectiveShape DEF TInv, IInv
<1>2. CASE Elsewhere(k) \/ UNCHANGED buckets
  BY <1>2 DEF Elsewhere, Tracked
<1>3. ASSUME NEW cost \in Cost, Polled(k, cost), ~UNCHANGED buckets
      PROVE  ServesFrom(buckets'[k].state, a.window, at)
  <2> DEFINE s == BucketAt(k).state
  <2>1. ServesFrom(s, a.window, at)
    BY DEF BucketAt, NewBucket, NewState, NewFixedWindow, ServesFrom
  <2>2. Answered(k, cost) /\ TryReserve(BucketAt(k), e, cost, now).reason # "Granted"
    BY <1>3 DEF Polled
  <2>3. buckets'[k].state = s \/ buckets'[k].state = Current(s, e, now)
    BY <2>2, KeyDenial
  <2> HIDE DEF s, e
  <2>4. ServesFrom(Current(s, e, now), a.window, at)
    BY <1>1, <2>1, CurrentServes
  <2> QED
    BY <2>1, <2>3, <2>4
<1>4. ASSUME NEW c \in Callers, NEW sent \in BOOLEAN, GivenBack(k, c, sent)
      PROVE  ServesFrom(buckets'[k].state, a.window, at)
  <2> DEFINE s == buckets[k].state
             p == permits[c]
  <2>1. Holds(c) /\ p.key = k /\ 0 \in Duration
    BY <1>4, Widths DEF GivenBack, Duration
  <2>2. /\ Tracked(k) /\ s \in BucketState /\ StillKnows(s, p, a)
        /\ a \in AlgorithmConfig /\ now \in Duration
        /\ BucketCommit(buckets[k], p, sent, 0, a, now).state = FinalizeState(s, p, sent, a, now)
        /\ BucketRefund(buckets[k], p, a, now).state = RefundState(s, p, a, now)
    BY <2>1, FinalizedBucket
  <2>3. buckets'[k].state \in {FinalizeState(s, p, sent, a, now), RefundState(s, p, a, now)}
    BY <1>4, <2>2 DEF GivenBack
  <2>4. s.algo = "FixedWindow" /\ s.reserved # 0
    BY <2>2, StateKind, Widths DEF StillKnows, Outstanding, Cost, FixedWindowState, U32
  <2>5. Finalizes(s, p, FinalizeState(s, p, sent, a, now)) /\ Finalizes(s, p, RefundState(s, p, a, now))
    BY <2>2, FinalizeStateEffect
  <2>6. ServesFrom(s, a.window, at)
    BY <2>2
  <2> HIDE DEF s, p, a
  <2>7. buckets'[k].state.window_start = s.window_start
    BY <2>3, <2>4, <2>5 DEF Finalizes
  <2> QED
    BY <2>4, <2>6, <2>7 DEF ServesFrom, WindowEnd
<1> QED
  BY <1>2, <1>3, <1>4

LEMMA WindowHintStep ==
  ASSUME TInv, [TNext]_tvars, NEW k \in Keys, WindowHint(k)
  PROVE  WindowHint(k)'
<1> SUFFICES ASSUME hint'[k].reason = "WindowExhausted", cfg'.algorithm.kind = "FixedWindow",
                    Tracked(k)'
             PROVE  ServesFrom(buckets'[k].state, cfg'.algorithm.window, hint'[k].at)
  BY DEF WindowHint, ServesFrom, WindowEnd
<1>1. hint'[k] # NoHint
  BY DEF NoHint
<1>2. ASSUME SameHint(hint[k], hint'[k]), UNCHANGED cfg,
             \/ Elsewhere(k) \/ \E cost \in Cost : Polled(k, cost)
             \/ \E c \in Callers, sent \in BOOLEAN : GivenBack(k, c, sent)
      PROVE  ServesFrom(buckets'[k].state, cfg'.algorithm.window, hint'[k].at)
  <2>1. Tracked(k) => ServesFrom(buckets[k].state, cfg.algorithm.window, hint'[k].at)
    BY <1>2 DEF SameHint, WindowHint, ServesFrom
  <2> QED
    BY <1>2, <2>1, ServesStill
<1>3. ASSUME NEW cost \in Cost, Exhausted(k, cost), UNCHANGED <<cfg, global_blocked_until, now>>
      PROVE  ServesFrom(buckets'[k].state, cfg'.algorithm.window, hint'[k].at)
  <2> DEFINE s == BucketAt(k).state
             e == EffectiveAlgorithm
             t == Current(s, e, now)
             wait == TryReserve(BucketAt(k), e, cost, now).retry_after
  <2>1. /\ e.kind = "FixedWindow" /\ e.window = cfg'.algorithm.window
        /\ e \in AlgorithmConfig
    BY <1>3, EffectiveShape DEF TInv, IInv
  <2>2. buckets'[k].state = t /\ LacksFor(t, e, cost, now, wait) /\ hint'[k].at = now + wait
    BY <1>3, KeyDenial DEF Exhausted
  <2>3. s \in FixedWindowState /\ now \in Nat /\ now \in Duration
    <3>1. s \in BucketState /\ s.algo = "FixedWindow"
      BY <1>3, BucketAtInTime DEF Bucket, BucketState
    <3>2. now \in Nat /\ now \in Duration
      BY Widths DEF TInv, IInv, TypeOK, Duration
    <3> QED
      BY <3>1, <3>2, StateKind
  <2> HIDE DEF s, e
  <2>4. t \in FixedWindowState
    BY <2>1, <2>3, AlgorithmKind, MaybeResetWindowEffect DEF Current
  <2>5. WindowEnd(t, e.window) \in Nat
    <3> HIDE DEF t
    <3> QED
      BY <2>1, <2>4, AlgorithmKind, Widths
         DEF WindowEnd, SatAdd, Lesser, FixedWindowState, Duration
  <2> HIDE DEF t, wait
  <2>6. wait = SatSub(WindowEnd(t, e.window), now)
    BY <2>1, <2>2 DEF LacksFor
  <2>7. WindowEnd(t, e.window) <= now + wait
    BY <2>3, <2>5, <2>6 DEF SatSub
  <2> QED
    BY <2>1, <2>2, <2>7 DEF ServesFrom
<1>4. ASSUME NEW cost \in Cost, hint'[k] = FreshHint("SlowStart", cost) PROVE FALSE
  BY <1>4 DEF FreshHint
<1>5. ASSUME NEW c \in Callers, NEW sent \in BOOLEAN, GivenBack(k, c, sent)
      PROVE  SameHint(hint[k], hint'[k]) /\ UNCHANGED cfg
  BY <1>1, <1>5, ReleasedHint DEF GivenBack
<1>6. Elsewhere(k) => SameHint(hint[k], hint'[k]) /\ UNCHANGED cfg
  BY DEF Elsewhere, SameHint
<1> QED
  BY <1>1, <1>2, <1>3, <1>4, <1>5, <1>6, HintSteps DEF Polled

LEMMA WindowInvStep ==
  ASSUME TInv, TInv', WindowInv, [TNext]_tvars
  PROVE  WindowInv'
BY AdmissibleStep, WindowHintStep DEF WindowInv

\* A cost that neither limits nor backoffs turn away is left to the bucket.
LEMMA LeftToBucket ==
  ASSUME TInv, NEW k \in Keys, Admissible(k), hint[k].reason = "WindowExhausted"
  PROVE  /\ hint[k].cost \in Cost /\ hint[k].cost <= Limit(EffectiveAlgorithm)
         /\ now >= global_blocked_until /\ ~SlowStartDenies(hint[k].cost)
         /\ now >= BucketAt(k).blocked_until
         /\ WouldGrant(k, hint[k].cost) <=>
              StateTryReserve(BucketAt(k).state, EffectiveAlgorithm, hint[k].cost, now).reason
                = "Granted"
<1> DEFINE cost == hint[k].cost
           b == BucketAt(k)
           e == EffectiveAlgorithm
<1>1. cost \in Cost /\ cost <= Limit(e) /\ now >= global_blocked_until
  BY HintParts DEF Admissible, TInv, NoHint
<1>2. b \in Bucket /\ e \in AlgorithmConfig /\ now \in Duration /\ now \in Nat
  BY BucketAtInTime, EffectiveShape, Widths DEF TInv, IInv, TypeOK, Duration
<1>3. Limit(e) \in Nat /\ cost \in Nat
  BY <1>1, <1>2, AlgorithmKind, Widths DEF Limit, Cost, U32, U64
<1>4. ~SlowStartDenies(cost)
  BY <1>1, <1>3 DEF SlowStartDenies
<1>5. now >= b.blocked_until
  BY <1>2 DEF Admissible, BucketAt, NewBucket
<1> HIDE DEF b, e, cost
<1>6. b.blocked_until \in Nat
  BY <1>2, Widths DEF Bucket, Duration
<1>7. TryReserve(b, e, cost, now).reason = StateTryReserve(b.state, e, cost, now).reason
  BY <1>1, <1>2, <1>5, <1>6, TryReserveShape
<1> QED
  BY <1>1, <1>4, <1>5, <1>7 DEF b, e, cost, WouldGrant

LEMMA IdleWindowServes == TInv /\ WindowInv => WaitSufficesWhenIdle
<1> SUFFICES ASSUME TInv, WindowInv, cfg.algorithm.kind = "FixedWindow", NEW k \in Keys,
                    Due(k), hint[k].reason = "WindowExhausted", Tracked(k),
                    ~HasOutstanding(buckets[k])
             PROVE  WouldGrant(k, hint[k].cost)
  BY DEF WaitSufficesWhenIdle
<1> DEFINE cost == hint[k].cost
           s == buckets[k].state
           e == EffectiveAlgorithm
           t == MaybeResetWindow(s, now, e.window)
<1>1. /\ cost \in Cost /\ cost <= Limit(e) /\ BucketAt(k) = buckets[k]
      /\ WouldGrant(k, cost) <=> StateTryReserve(s, e, cost, now).reason = "Granted"
  BY LeftToBucket DEF WindowInv, BucketAt
<1>2. /\ e \in AlgorithmConfig /\ e.kind = "FixedWindow" /\ e.window = cfg.algorithm.window
      /\ s.algo = "FixedWindow" /\ s \in BucketState /\ now \in Nat
  BY <1>1, BucketAtInTime, EffectiveShape, Widths
     DEF TInv, IInv, TypeOK, Bucket, BucketState, Duration
<1>3. hint[k].at \in Nat /\ hint[k].at <= now
  BY HintParts DEF Due, TInv
<1>4. WindowEnd(s, e.window) <= hint[k].at \/ s.spent = 0
  BY <1>2 DEF WindowInv, WindowHint, ServesFrom
<1>5. s \in FixedWindowState /\ s.reserved = 0
  BY <1>2, StateKind DEF HasOutstanding
<1> HIDE DEF s, e, cost
<1>6. WindowEnd(s, e.window) \in Nat
  BY <1>2, <1>5, AlgorithmKind, Widths DEF WindowEnd, SatAdd, Lesser, FixedWindowState, Duration
<1>7. t.spent = 0 /\ t.reserved = 0
  BY <1>2, <1>3, <1>4, <1>5, <1>6 DEF MaybeResetWindow, NewFixedWindow
<1>8. e.max_per_window \in Nat /\ cost \in Nat \ {0} /\ cost <= e.max_per_window
  BY <1>1, <1>2, AlgorithmKind, Widths DEF Limit, Cost, U32
<1>9. FixedWindowTryReserve(s, e.max_per_window, e.window, cost, now).reason = "Granted"
  <2> HIDE DEF t
  <2>1. SatSub(e.max_per_window, SatAdd(t.spent, t.reserved, U32Max)) = e.max_per_window
    BY <1>7, <1>8, Widths DEF SatSub, SatAdd, Lesser
  <2> QED
    BY <1>8, <2>1 DEF FixedWindowTryReserve, t
<1>10. StateTryReserve(s, e, cost, now).reason = "Granted"
  BY <1>2, <1>9 DEF StateTryReserve
<1> QED
  BY <1>1, <1>10 DEF s, e, cost

(***************************************************************************)
(* Whoever waited as long as an exhausted window told is served once no    *)
(* permit holds the window.                                                *)
(***************************************************************************)
THEOREM WindowWaitSuffices == TSpec => []WaitSufficesWhenIdle
<1>1. TInit => WindowInv
  BY NoHintsYet
<1>2. TInv /\ TInv' /\ WindowInv /\ [TNext]_tvars => WindowInv'
  BY WindowInvStep
<1> QED
  BY <1>1, <1>2, IdleWindowServes, HintInvariance, PTL DEF TSpec

-----------------------------------------------------------------------------
(***************************************************************************)
(* Denials that ask for no wait.                                           *)
(***************************************************************************)
LEMMA NewWindowEnds ==
  ASSUME NEW time \in Duration, NEW window \in Duration \ {0}, time < DurationMax
  PROVE  time < WindowEnd(NewFixedWindow(time, window), window)
<1> DEFINE start == WindowStartFor(time, window)
<1>1. start \in 0..time /\ time < start + window
  BY WindowStartType, WindowStartRecent
<1>2. NewFixedWindow(time, window).window_start = start
  BY DEF NewFixedWindow
<1> HIDE DEF start
<1> QED
  BY <1>1, <1>2, Widths DEF WindowEnd, SatAdd, Lesser, Duration

\* A window that names no wait is held past its end; nothing else of a bucket names none.
LEMMA NoWaitFromState ==
  ASSUME NEW s \in BucketState, NEW a \in AlgorithmConfig, NEW cost \in Cost,
         NEW time \in Duration, time < DurationMax, s.algo = a.kind,
         StateTryReserve(s, a, cost, time).reason # "Granted",
         StateTryReserve(s, a, cost, time).retry_after = 0
  PROVE  /\ StateTryReserve(s, a, cost, time).reason = "WindowExhausted"
         /\ a.kind = "FixedWindow" /\ s.reserved # 0 /\ time >= WindowEnd(s, a.window)
<1> DEFINE answer == StateTryReserve(s, a, cost, time)
           t == Current(s, a, time)
<1>1. DurationMax \in Nat \ {0} /\ NanosPerSec \in Nat \ {0} /\ time \in Nat
  BY WidthAssumption, Widths DEF WidthAssumption, Duration
<1>2. answer.reason = "WindowExhausted"
  <2>1. CASE a.kind = "FixedWindow"
    <3>1. answer = FixedWindowTryReserve(s, a.max_per_window, a.window, cost, time)
          /\ a.window # 0
      BY <2>1, AlgorithmKind DEF StateTryReserve
    <3> QED
      BY <1>1, <3>1 DEF FixedWindowTryReserve
  <2>2. CASE a.kind # "FixedWindow"
    <3>1. answer = TokenTryReserve(s, a.capacity, a.refill_per_sec, cost, time)
      BY <2>2, AlgorithmKind DEF StateTryReserve
    <3> QED
      BY <1>1, <3>1 DEF TokenTryReserve
  <2> QED
    BY <2>1, <2>2
<1>3. LacksFor(t, a, cost, time, 0)
  BY <1>2, StateDenial
<1> HIDE DEF answer
<1>4. CASE a.kind = "FixedWindow"
  <2>1. a.window \in Duration \ {0} /\ s \in FixedWindowState
        /\ t = MaybeResetWindow(s, time, a.window)
    BY <1>4, AlgorithmKind, StateKind DEF Current
  <2>2. WindowEnd(s, a.window) \in Nat /\ WindowEnd(NewFixedWindow(time, a.window), a.window) \in Nat
    BY <2>1, NewFixedWindowType, Widths DEF WindowEnd, SatAdd, Lesser, FixedWindowState, Duration
  <2>3. time < WindowEnd(NewFixedWindow(time, a.window), a.window)
    BY <2>1, NewWindowEnds
  <2>4. SatSub(WindowEnd(t, a.window), time) = 0
    BY <1>3, <1>4 DEF LacksFor
  <2>5. t # NewFixedWindow(time, a.window)
    BY <1>1, <2>2, <2>3, <2>4 DEF SatSub
  <2>6. t = s /\ ~(s.reserved = 0 /\ time >= WindowEnd(s, a.window))
    BY <2>1, <2>5 DEF MaybeResetWindow
  <2>7. time >= WindowEnd(s, a.window)
    BY <1>1, <2>2, <2>4, <2>6 DEF SatSub
  <2> QED
    BY <1>2, <1>4, <2>6, <2>7 DEF answer
<1>5. CASE a.kind # "FixedWindow"
  <2>1. a.refill_per_sec \in Nat \ {0} /\ t.credits < cost
        /\ RetryAfterForDeficit(cost - t.credits, a.refill_per_sec) = 0
    BY <1>3, <1>5, AlgorithmKind, Widths DEF LacksFor, U64
  <2>2. t.credits \in Nat /\ cost \in Nat
    BY <1>5, StateKind, AlgorithmKind, RefillEffect, Widths
       DEF Current, TokenBucketState, U64, Cost
  <2> HIDE DEF t
  <2>3. (cost - t.credits) * NanosPerSec \in Nat \ {0}
    BY <1>1, <2>1, <2>2
  <2>4. DivCeil((cost - t.credits) * NanosPerSec, a.refill_per_sec) > 0
    <3>1. 0 < DivCeil((cost - t.credits) * NanosPerSec, a.refill_per_sec)
            <=> 0 * a.refill_per_sec < (cost - t.credits) * NanosPerSec
      BY <2>1, <2>3, DivCeilAbove
    <3> QED
      BY <2>1, <2>3, <3>1
  <2> QED
    BY <2>1, <2>4 DEF RetryAfterForDeficit
<1> QED
  BY <1>4, <1>5

LEMMA NoWaitFromBucket ==
  ASSUME TInv, ClockShortOfMax, NEW key \in Keys, NEW cost \in Cost, Answered(key, cost),
         reply'.reason # "Granted", reply'.retry_after = 0
  PROVE  reply'.reason = "WindowExhausted" /\ HeldPastEnd(key)
<1> DEFINE b == BucketAt(key)
           e == EffectiveAlgorithm
           of_state == StateTryReserve(b.state, e, cost, now)
           answer == TryReserve(b, e, cost, now)
<1>1. /\ b \in Bucket /\ b.state \in BucketState /\ e \in AlgorithmConfig
      /\ b.state.algo = e.kind /\ now \in Duration /\ now \in Nat /\ now < DurationMax
      /\ e.kind = cfg.algorithm.kind
      /\ e.kind = "FixedWindow" => e.window = cfg.algorithm.window
  BY BucketAtInTime, EffectiveShape, Widths
     DEF TInv, IInv, TypeOK, Bucket, BucketState, Duration
<1>2. reply'.reason = DenyReason(answer.reason) /\ reply'.retry_after = answer.retry_after
  BY DEF Answered
<1>3. answer.reason # "Granted" /\ answer.retry_after = 0
  BY <1>2 DEF DenyReason
<1>4. ~Tracked(key) => b.state = NewState(now, cfg.algorithm)
  BY DEF BucketAt, NewBucket
<1>5. Tracked(key) => b = buckets[key]
  BY DEF BucketAt
<1> HIDE DEF b, e
<1>6. b.blocked_until \in Nat
  BY <1>1, Widths DEF Bucket, Duration
<1>7. answer.reason = of_state.reason /\ of_state.retry_after = 0
  BY <1>1, <1>3, <1>6, TryReserveShape
<1>8. /\ of_state.reason = "WindowExhausted"
      /\ e.kind = "FixedWindow" /\ b.state.reserved # 0 /\ now >= WindowEnd(b.state, e.window)
  BY <1>1, <1>3, <1>7, NoWaitFromState
<1>9. Tracked(key)
  BY <1>1, <1>4, <1>8 DEF NewState, NewFixedWindow
<1> HIDE DEF of_state, answer
<1>10. reply'.reason = "WindowExhausted"
  BY <1>2, <1>7, <1>8 DEF DenyReason
<1>11. HasOutstanding(b)
  BY <1>1, <1>8 DEF HasOutstanding, Outstanding
<1> QED
  BY <1>1, <1>5, <1>8, <1>9, <1>10, <1>11 DEF HeldPastEnd

LEMMA NoWaitFromRamp ==
  ASSUME TInv, NEW cost \in Cost, SlowStartDeny(cost), reply'.retry_after = 0
  PROVE  /\ reply'.reason = "SlowStart"
         /\ now >= StartedAt + cfg.slow_start \/ Limit(cfg.algorithm) = 0
<1> DEFINE max == Limit(cfg.algorithm)
           ramp == cfg.slow_start
           elapsed == SatSub(now, StartedAt)
<1>1. /\ ramp # None /\ SlowStartDenies(cost)
      /\ RetryAfterForCost(max, ramp, StartedAt, now, cost) = 0 /\ reply'.reason = "SlowStart"
  BY DEF SlowStartDeny, SlowStartDenies, Returns
<1>2. /\ now \in Nat /\ StartedAt \in Nat /\ StartedAt <= now /\ ramp \in Nat
      /\ max \in Nat /\ cost \in Nat /\ elapsed = now - StartedAt
  BY <1>1, EffectiveShape, LimiterAssumption, Widths
     DEF LimiterAssumption, TInv, IInv, TypeOK, Config, Duration, Cost, SatSub
<1>3. SUFFICES ASSUME max # 0, elapsed < ramp PROVE FALSE
  BY <1>1, <1>2
<1>4. CASE cost > max
  BY <1>1, <1>2, <1>3, <1>4 DEF RetryAfterForCost
<1>5. CASE cost <= max
  <2>1. /\ DivCeil(cost * ramp, max) \in Nat
        /\ now - StartedAt < DivCeil(cost * ramp, max)
    BY <1>1, <1>5, DeniedUntilReached
  <2>2. RetryAfterForCost(max, ramp, StartedAt, now, cost)
          = SatSub(DivCeil(cost * ramp, max), elapsed)
    BY <1>2, <1>3, <1>5 DEF RetryAfterForCost
  <2> QED
    BY <1>1, <1>2, <2>1, <2>2 DEF SatSub
<1> QED
  BY <1>2, <1>4, <1>5

\* No step but an attempt to acquire denies anything.
LEMMA OnlyAcquireDenies ==
  ASSUME TNext, UNCHANGED now, TInv, reply'.reason \in Denials
  PROVE  \E c \in Callers, route \in Keys, cost \in Costs : TryAcquire(c, route, cost)
<1>1. ASSUME NEW new \in Configs, UpdateConfig(new) PROVE FALSE
  <2>1. reply'.reason \in {"None", "AlgorithmChanged", "FixedWindowWindowChanged"}
    BY <1>1 DEF UpdateConfig, RejectUpdate, Reconfigured, Returns, DisruptiveChange
  <2> QED
    BY <2>1 DEF Denials
<1>2. ~Tick
  BY Widths, LimiterAssumption DEF LimiterAssumption, Tick, TInv, IInv, TypeOK, Duration
<1>3. ASSUME NEW c \in Callers, TRefund(c) \/ \E outcome \in Outcome : TCommit(c, outcome)
      PROVE  FALSE
  BY <1>3 DEF TRefund, Refund, TCommit, Commit, Finalized, Returns, Denials
<1>4. ASSUME NEW route \in Keys, NEW f \in Feedbacks, ApplyFeedback(route, f) PROVE FALSE
  BY <1>4 DEF ApplyFeedback, Returns, Denials
<1> QED
  BY <1>1, <1>2, <1>3, <1>4 DEF TNext, TTryAcquire

LEMMA NoWaitCases ==
  ASSUME TInv, ClockShortOfMax, TNext, UNCHANGED now, reply'.reason \in Denials,
         reply'.retry_after = 0
  PROVE  \/ reply'.reason = "WindowExhausted" /\ \E k \in Keys : HeldPastEnd(k)
         \/ /\ reply'.reason = "SlowStart"
            /\ now >= StartedAt + cfg.slow_start \/ Limit(cfg.algorithm) = 0
<1>1. PICK c \in Callers, route \in Keys, cost \in Costs : TryAcquire(c, route, cost)
  BY OnlyAcquireDenies
<1> DEFINE key == ResolveBucketKey(route_map, route)
<1>2. key \in Keys /\ cost \in Cost
  BY LimiterAssumption DEF LimiterAssumption, ResolveBucketKey, TInv, IInv, TypeOK
<1>3. GlobalDeny \/ SlowStartDeny(cost) \/ KeyBoundDeny(key, cost) \/ BucketAnswer(c, key, cost)
  BY <1>1 DEF TryAcquire
<1> HIDE DEF key
<1>4. ~GlobalDeny
  BY Widths DEF GlobalDeny, Returns, TInv, IInv, TypeOK, Duration
<1>5. ~KeyBoundDeny(key, cost)
  <2>1. RetryAfterOnNewKeyDeny # 0
    BY AlgorithmKind, Widths DEF RetryAfterOnNewKeyDeny, TInv, IInv, TypeOK, Config
  <2> QED
    BY <2>1 DEF KeyBoundDeny, Returns
<1>6. CASE SlowStartDeny(cost)
  BY <1>2, <1>6, NoWaitFromRamp
<1>7. CASE BucketAnswer(c, key, cost)
  <2>1. Answered(key, cost)
    BY <1>2, <1>7, BucketAnswerShape
  <2> QED
    BY <1>2, <2>1, NoWaitFromBucket DEF Denials
<1> QED
  BY <1>3, <1>4, <1>5, <1>6, <1>7

(***************************************************************************)
(* A denial without a wait has one of three causes.                        *)
(***************************************************************************)
THEOREM NoWaitIsExplained ==
  ASSUME ClockShortOfMax
  PROVE  TSpec => ZeroWaitsExplained
<1> DEFINE Explained ==
      (now' = now /\ reply'.reason \in Denials /\ reply'.retry_after = 0) =>
         \/ reply'.reason = "WindowExhausted" /\ \E k \in Keys : HeldPastEnd(k)
         \/ /\ reply'.reason = "SlowStart"
            /\ now >= StartedAt + cfg.slow_start \/ Limit(cfg.algorithm) = 0
<1>1. TInv /\ [TNext]_tvars => [Explained]_tvars
  BY NoWaitCases
<1> QED
  BY <1>1, HintInvariance, PTL DEF TSpec, ZeroWaitsExplained

-----------------------------------------------------------------------------
(***************************************************************************)
(* Hints about a pool.                                                     *)
(***************************************************************************)
\* A refill that is one credit short of what it should be reaches the cost anyway.
LEMMA RefillEarns ==
  ASSUME NEW s \in TokenBucketState, NEW capacity \in U64, NEW r \in U64, NEW rate \in Nat,
         rate <= r, NEW time \in Duration, s.last_update <= time,
         NEW need \in Nat \ {0}, need <= capacity
  PROVE  LET t == Refill(s, capacity, r, time) IN
         /\ t.last_update = time /\ t.credits \in Nat /\ t \in TokenBucketState
         /\ t.credits >= need \/ NanosPerSec * t.credits + NanosPerSec > Worth(s, rate, time)
<1> DEFINE t == Refill(s, capacity, r, time)
           delta == time - s.last_update
           c == s.credits
           q == (delta * r) \div NanosPerSec
<1>1. /\ delta \in Nat /\ c \in Nat /\ r \in Nat /\ capacity \in Nat /\ capacity <= U64Max
      /\ NanosPerSec \in Nat \ {0} /\ U64Max \in Nat /\ s.last_update \in Nat /\ time \in Nat
  BY Widths DEF TokenBucketState, Duration, U64
<1>2. t \in TokenBucketState /\ t.last_update = time
  BY RefillEffect, RefillUntil
<1>3. t.credits \in Nat
  BY <1>2, Widths DEF TokenBucketState, U64
<1>4. SUFFICES ASSUME t.credits < need
               PROVE  NanosPerSec * t.credits + NanosPerSec > NanosPerSec * c + rate * delta
  BY <1>1, <1>2, <1>3 DEF Worth
<1>5. CASE time = s.last_update
  <2>1. t = s /\ delta = 0
    BY <1>1, <1>5 DEF Refill
  <2>2. NanosPerSec * c \in Nat /\ rate * delta = 0
    BY <1>1, <2>1
  <2> QED
    BY <1>1, <2>1, <2>2
<1>6. CASE time # s.last_update
  <2> DEFINE earned == IF r = 0 THEN 0 ELSE Lesser(q, U64Max)
  <2>1. t.credits = Lesser(SatAdd(c, earned, U64Max), capacity)
    BY <1>1, <1>6 DEF Refill, TokenBucketState, CreditsAdded
  <2>2. delta * r \in Nat
    BY <1>1
  <2>3. q \in Nat /\ delta * r < q * NanosPerSec + NanosPerSec
    BY <1>1, <2>2, DivBounds, DivAbove
  <2>4. rate * delta <= delta * r /\ rate * delta \in Nat
    BY <1>1
  <2> HIDE DEF t, q, delta, c
  <2>5. earned \in Nat
    BY <1>1, <2>3 DEF Lesser
  <2>6. t.credits = c + earned /\ earned < U64Max
    BY <1>1, <1>4, <2>1, <2>5 DEF Lesser, SatAdd
  <2>7. NanosPerSec * t.credits = NanosPerSec * c + NanosPerSec * earned
        /\ NanosPerSec * earned \in Nat /\ NanosPerSec * c \in Nat
    BY <1>1, <2>5, <2>6
  <2>8. rate * delta < NanosPerSec * earned + NanosPerSec
    <3>1. CASE r = 0
      <4>1. delta * r = 0
        BY <1>1, <3>1
      <4> QED
        BY <1>1, <2>4, <2>7, <4>1
    <3>2. CASE r # 0
      <4>1. earned = q
        BY <1>1, <2>3, <2>6, <3>2 DEF Lesser
      <4>2. q * NanosPerSec = NanosPerSec * q
        BY <1>1, <2>3
      <4> QED
        BY <1>1, <2>2, <2>3, <2>4, <2>7, <4>1, <4>2
    <3> QED
      BY <3>1, <3>2
  <2> QED
    BY <1>1, <2>4, <2>7, <2>8
<1> QED
  BY <1>5, <1>6

\* Enough worth is enough credit once it is refilled.
LEMMA RefillReaches ==
  ASSUME NEW s \in TokenBucketState, NEW capacity \in U64, NEW r \in U64, NEW rate \in Nat,
         rate <= r, NEW time \in Duration, s.last_update <= time,
         NEW need \in Nat \ {0}, need <= capacity, Worth(s, rate, time) >= NanosPerSec * need
  PROVE  Refill(s, capacity, r, time).credits >= need
<1> DEFINE credits == Refill(s, capacity, r, time).credits
<1>1. /\ credits \in Nat /\ NanosPerSec \in Nat \ {0}
      /\ credits >= need \/ NanosPerSec * credits + NanosPerSec > Worth(s, rate, time)
  BY RefillEarns, Widths
<1>2. Worth(s, rate, time) \in Int
  BY Widths DEF Worth, TokenBucketState, U64, Duration
<1> HIDE DEF credits
<1>3. ASSUME credits < need PROVE FALSE
  <2>1. NanosPerSec * (credits + 1) <= NanosPerSec * need
    BY <1>1, <1>3
  <2>2. NanosPerSec * (credits + 1) = NanosPerSec * credits + NanosPerSec
        /\ NanosPerSec * credits \in Nat /\ NanosPerSec * need \in Nat
    BY <1>1
  <2> QED
    BY <1>1, <1>2, <1>3, <2>1, <2>2
<1>4. credits >= need
  BY <1>1, <1>3
<1> QED
  BY <1>4 DEF credits

LEMMA EarnsMoreAtHigherRate ==
  ASSUME NEW s \in TokenBucketState, NEW rate \in Nat, NEW more \in Nat, rate <= more,
         NEW cost \in Nat, NEW at \in Nat, EarnsBy(s, rate, cost, at)
  PROVE  EarnsBy(s, more, cost, at)
<1>1. s.last_update \in Nat /\ s.credits \in Nat /\ NanosPerSec \in Nat
  BY Widths DEF TokenBucketState, Duration, U64
<1>2. s.last_update <= at => rate * (at - s.last_update) <= more * (at - s.last_update)
  BY <1>1
<1>3. /\ NanosPerSec * s.credits \in Int /\ NanosPerSec * cost \in Int
      /\ rate * (at - s.last_update) \in Int /\ more * (at - s.last_update) \in Int
  BY <1>1
<1> QED
  BY <1>2, <1>3 DEF EarnsBy, Worth

\* A pool that will have earned the cost in time serves it when the time has come.
LEMMA EarnedServes ==
  ASSUME NEW s \in TokenBucketState, NEW capacity \in U64, NEW r \in U64,
         NEW time \in Duration, s.last_update <= time,
         NEW cost \in Cost, cost <= capacity, NEW at \in Nat, at <= time, EarnsBy(s, r, cost, at)
  PROVE  TokenTryReserve(s, capacity, r, cost, time).reason = "Granted"
<1>1. /\ cost \in Nat \ {0} /\ capacity \in Nat /\ r \in Nat /\ s.credits \in Nat
      /\ NanosPerSec \in Nat /\ s.last_update \in Nat /\ time \in Nat
  BY Widths DEF Cost, U64, TokenBucketState, Duration
<1>2. Worth(s, r, time) >= NanosPerSec * cost
  <2>1. /\ NanosPerSec * s.credits \in Nat /\ NanosPerSec * cost \in Nat
        /\ r * (time - s.last_update) \in Nat
    BY <1>1
  <2>2. CASE s.credits >= cost
    <3>1. NanosPerSec * s.credits >= NanosPerSec * cost
      BY <1>1, <2>2
    <3> QED
      BY <2>1, <3>1 DEF Worth
  <2>3. CASE s.last_update <= at /\ Worth(s, r, at) >= NanosPerSec * cost
    <3>1. /\ r * (at - s.last_update) <= r * (time - s.last_update)
          /\ r * (at - s.last_update) \in Nat
      BY <1>1, <2>3
    <3> QED
      BY <2>1, <2>3, <3>1 DEF Worth
  <2> QED
    BY <2>2, <2>3 DEF EarnsBy
<1>3. Refill(s, capacity, r, time).credits >= cost
  BY <1>1, <1>2, RefillReaches
<1>4. capacity # 0 /\ ~(cost > capacity)
  BY <1>1
<1> QED
  BY <1>3, <1>4 DEF TokenTryReserve

\* Credits that come back make up for what the rounding of the refill lost.
LEMMA RefundEarns ==
  ASSUME NEW s \in TokenBucketState, NEW capacity \in U64, NEW r \in U64, NEW rate \in Nat,
         rate <= r, NEW time \in Duration, s.last_update <= time,
         NEW given \in Cost, s.credits <= capacity, capacity + U32Max <= U64Max,
         NEW cost \in Cost, cost <= capacity, NEW at \in Nat, EarnsBy(s, rate, cost, at)
  PROVE  LET refunded == TokenRefund(s, capacity, given, time, r) IN
         refunded.credits <= capacity /\ EarnsBy(refunded, rate, cost, at)
<1> DEFINE t == Refill(s, capacity, r, time)
           credits == Lesser(t.credits + given, capacity)
           refunded == TokenRefund(s, capacity, given, time, r)
<1>1. /\ cost \in Nat \ {0} /\ given \in Nat \ {0} /\ given <= U32Max /\ capacity \in Nat
      /\ r \in Nat /\ s.credits \in Nat /\ NanosPerSec \in Nat \ {0} /\ s.last_update \in Nat
      /\ time \in Nat /\ U64Max \in Nat /\ U32Max \in Nat
  BY Widths DEF Cost, U64, TokenBucketState, Duration
<1>2. /\ t.last_update = time /\ t.credits \in Nat /\ t \in TokenBucketState
      /\ t.credits >= cost \/ NanosPerSec * t.credits + NanosPerSec > Worth(s, rate, time)
  BY <1>1, RefillEarns
<1>3. t.credits <= capacity
  <2>1. r <= r
    BY <1>1
  <2> QED
    BY <2>1, RefillWorth
<1>4. refunded.last_update = time /\ refunded.credits = credits
  <2> HIDE DEF t
  <2>1. (t.credits + given) % (U64Max + 1) = t.credits + given
    BY <1>1, <1>2, <1>3
  <2> QED
    BY <1>2, <2>1 DEF TokenRefund, TokenBucketState, t
<1>5. ASSUME Worth(s, rate, time) >= NanosPerSec * cost PROVE t.credits >= cost
  BY <1>1, <1>5, RefillReaches
<1>6. ASSUME s.credits >= cost PROVE t.credits >= cost
  <2>1. /\ rate * (time - s.last_update) \in Nat /\ NanosPerSec * s.credits >= NanosPerSec * cost
        /\ NanosPerSec * s.credits \in Nat /\ NanosPerSec * cost \in Nat
    BY <1>1, <1>6
  <2>2. Worth(s, rate, time) >= NanosPerSec * cost
    BY <2>1 DEF Worth
  <2> QED
    BY <1>5, <2>2
<1> HIDE DEF t, refunded
<1>7. credits \in Nat /\ credits <= capacity
  BY <1>1, <1>2 DEF Lesser
<1>8. ASSUME credits < cost
      PROVE  time <= at /\ NanosPerSec * credits + rate * (at - time) >= NanosPerSec * cost
  <2>1. t.credits < cost /\ credits = t.credits + given
    BY <1>1, <1>2, <1>8 DEF Lesser
  <2>2. /\ s.last_update <= at /\ Worth(s, rate, at) >= NanosPerSec * cost
        /\ ~(s.credits >= cost)
    BY <1>1, <1>2, <1>6, <2>1 DEF EarnsBy
  <2>3. time <= at
    <3>1. SUFFICES ASSUME at < time PROVE FALSE
      BY <1>1
    <3>2. /\ rate * (at - s.last_update) <= rate * (time - s.last_update)
          /\ rate * (at - s.last_update) \in Nat /\ rate * (time - s.last_update) \in Nat
          /\ NanosPerSec * s.credits \in Nat /\ NanosPerSec * cost \in Nat
      BY <1>1, <2>2, <3>1
    <3>3. Worth(s, rate, time) >= NanosPerSec * cost
      BY <2>2, <3>2 DEF Worth
    <3> QED
      BY <1>1, <1>2, <1>5, <2>1, <3>3
  <2>4. NanosPerSec * t.credits + NanosPerSec > Worth(s, rate, time)
    BY <1>1, <1>2, <2>1
  <2>5. /\ rate * (at - s.last_update) = rate * (at - time) + rate * (time - s.last_update)
        /\ rate * (at - time) \in Nat /\ rate * (time - s.last_update) \in Nat
        /\ NanosPerSec * s.credits \in Nat /\ NanosPerSec * cost \in Nat
    BY <1>1, <2>2, <2>3
  <2>6. NanosPerSec * credits >= NanosPerSec * t.credits + NanosPerSec
    <3>1. NanosPerSec * (t.credits + 1) <= NanosPerSec * credits
      BY <1>1, <1>2, <2>1
    <3>2. NanosPerSec * (t.credits + 1) = NanosPerSec * t.credits + NanosPerSec
      BY <1>1, <1>2
    <3> QED
      BY <3>1, <3>2
  <2>7. NanosPerSec * credits \in Nat /\ NanosPerSec * t.credits \in Nat
    BY <1>1, <1>2, <1>7
  <2> QED
    BY <1>1, <2>2, <2>3, <2>4, <2>5, <2>6, <2>7 DEF Worth
<1> HIDE DEF credits
<1>9. EarnsBy(refunded, rate, cost, at)
  BY <1>1, <1>4, <1>7, <1>8 DEF EarnsBy, Worth
<1> QED
  BY <1>4, <1>7, <1>9 DEF refunded

\* A pool that just turned a cost away will have earned it when it said.
LEMMA DenialEarns ==
  ASSUME NEW t \in TokenBucketState, NEW rate \in Nat \ {0}, NEW cost \in Cost,
         t.credits < cost
  PROVE  LET at == t.last_update + RetryAfterForDeficit(cost - t.credits, rate) IN
         at \in Nat /\ EarnsBy(t, rate, cost, at)
<1> DEFINE wait == RetryAfterForDeficit(cost - t.credits, rate)
           at == t.last_update + wait
<1>1. /\ cost \in Nat /\ t.credits \in Nat /\ t.last_update \in Nat /\ NanosPerSec \in Nat
      /\ cost - t.credits \in Nat
  BY Widths DEF Cost, TokenBucketState, U64, Duration
<1>2. (cost - t.credits) * NanosPerSec \in Nat
  BY <1>1
<1>3. wait \in Nat /\ (cost - t.credits) * NanosPerSec <= wait * rate
  BY <1>2, DivCeilType DEF RetryAfterForDeficit
<1> HIDE DEF wait
<1>4. /\ (cost - t.credits) * NanosPerSec = NanosPerSec * cost - NanosPerSec * t.credits
      /\ wait * rate = rate * (at - t.last_update)
      /\ at \in Nat /\ t.last_update <= at
  BY <1>1, <1>3
<1>5. NanosPerSec * cost \in Nat /\ NanosPerSec * t.credits \in Nat
      /\ rate * (at - t.last_update) \in Nat
  BY <1>1, <1>3, <1>4
<1>6. Worth(t, rate, at) >= NanosPerSec * cost
  BY <1>1, <1>3, <1>4, <1>5 DEF Worth
<1> QED
  BY <1>4, <1>6 DEF EarnsBy, wait

(***************************************************************************)
(* A refund that adds its cost to a full pool stays within a u64; where it *)
(* wraps, credits are lost and a promised wait with them.                  *)
(***************************************************************************)
RefundsFit ==
  \A new \in Configs :
    new.algorithm.kind = "TokenBucket" => new.algorithm.capacity + U32Max <= U64Max

\* What is in force is at most what is configured.
LEMMA InForceBelow ==
  ASSUME TypeOK
  PROVE  /\ Limit(EffectiveAlgorithm) <= Limit(cfg.algorithm)
         /\ cfg.algorithm.kind = "TokenBucket" =>
              EffectiveAlgorithm.refill_per_sec <= cfg.algorithm.refill_per_sec
<1>1. ASSUME NEW max \in Nat PROVE InForce(max) <= max
  BY EffectiveBound, LimiterAssumption, Widths
     DEF LimiterAssumption, InForce, Ramped, TypeOK, Config, Duration
<1>2. cfg.algorithm.kind = "TokenBucket" => cfg.algorithm.refill_per_sec \in Nat
  BY AlgorithmKind, Widths DEF TypeOK, Config, U64
<1> QED
  BY <1>1, <1>2, EffectiveShape

LEMMA PoolAfterRelease ==
  ASSUME RefundsFit, TInv, NEW k \in Keys, Admissible(k), PoolHint(k),
         hint[k].reason = "WindowExhausted", ~hint[k].polled,
         cfg.algorithm.kind = "TokenBucket",
         NEW c \in Callers, NEW sent \in BOOLEAN, GivenBack(k, c, sent)
  PROVE  /\ buckets'[k].state.credits <= cfg.algorithm.capacity
         /\ EarnsBy(buckets'[k].state, EffectiveAlgorithm.refill_per_sec, hint[k].cost, hint[k].at)
<1> DEFINE s == buckets[k].state
           p == permits[c]
           a == cfg.algorithm
           rate == EffectiveAlgorithm.refill_per_sec
           refunded == TokenRefund(s, a.capacity, p.cost, now, a.refill_per_sec)
           committed == TokenCommit(s, p.cost)
<1>1. Holds(c) /\ p.key = k /\ 0 \in Duration
  BY Widths DEF GivenBack, Duration
<1>2. /\ Tracked(k) /\ s \in BucketState /\ StillKnows(s, p, a) /\ InTime(s, now)
      /\ a \in AlgorithmConfig /\ now \in Duration
      /\ BucketCommit(buckets[k], p, sent, 0, a, now).state = FinalizeState(s, p, sent, a, now)
      /\ BucketRefund(buckets[k], p, a, now).state = RefundState(s, p, a, now)
  BY <1>1, FinalizedBucket
<1>3. buckets'[k].state \in {FinalizeState(s, p, sent, a, now), RefundState(s, p, a, now)}
  BY <1>2 DEF GivenBack
<1>4. /\ s \in TokenBucketState /\ s.algo = "TokenBucket" /\ p.algo = "TokenBucket"
      /\ p.cost \in Cost /\ s.last_update <= now
      /\ a.capacity \in U64 /\ a.refill_per_sec \in U64
  BY <1>2, StateKind, AlgorithmKind DEF StillKnows, InTime
<1>5. buckets'[k].state \in {refunded, committed}
  BY <1>3, <1>4 DEF FinalizeState, RefundState
<1>6. s.credits <= a.capacity /\ EarnsBy(s, rate, hint[k].cost, hint[k].at)
  BY <1>2 DEF PoolHint
<1>7. /\ hint[k].cost \in Cost /\ hint[k].at \in Nat
      /\ hint[k].cost <= Limit(EffectiveAlgorithm) /\ Limit(a) = a.capacity
  BY HintParts DEF TInv, NoHint, Admissible, Limit
<1>8. /\ rate \in Nat /\ rate <= a.refill_per_sec
      /\ Limit(EffectiveAlgorithm) \in Nat /\ Limit(EffectiveAlgorithm) <= Limit(a)
  BY <1>4, EffectiveShape, AlgorithmKind, InForceBelow, Widths
     DEF TInv, IInv, Limit, U32, U64
<1>9. hint[k].cost <= a.capacity
  BY <1>4, <1>7, <1>8, Widths DEF Cost, U64
<1>10. a.capacity + U32Max <= U64Max
  BY DEF RefundsFit, TInv
<1> HIDE DEF s, p, a, rate, refunded, committed
<1>11. refunded.credits <= a.capacity /\ EarnsBy(refunded, rate, hint[k].cost, hint[k].at)
  BY <1>2, <1>4, <1>6, <1>7, <1>8, <1>9, <1>10, RefundEarns DEF refunded
<1>12. committed.credits = s.credits /\ committed.last_update = s.last_update
  BY <1>4 DEF committed, TokenCommit, TokenBucketState
<1>13. committed.credits <= a.capacity /\ EarnsBy(committed, rate, hint[k].cost, hint[k].at)
  BY <1>6, <1>12 DEF EarnsBy, Worth
<1> QED
  BY <1>5, <1>11, <1>13 DEF a, rate

LEMMA PoolAfterDenial ==
  ASSUME TInv, NEW k \in Keys, cfg.algorithm.kind = "TokenBucket",
         NEW cost \in Cost, Exhausted(k, cost)
  PROVE  /\ buckets'[k].state.credits <= cfg.algorithm.capacity
         /\ EarnsBy(buckets'[k].state, EffectiveAlgorithm.refill_per_sec, cost, hint'[k].at)
<1> DEFINE s == BucketAt(k).state
           e == EffectiveAlgorithm
           t == Refill(s, e.capacity, e.refill_per_sec, now)
           wait == TryReserve(BucketAt(k), e, cost, now).retry_after
<1>1. /\ s \in BucketState /\ s.algo = "TokenBucket" /\ InTime(s, now) /\ now \in Duration
      /\ e \in AlgorithmConfig /\ e.kind = "TokenBucket"
  BY BucketAtInTime, EffectiveShape DEF TInv, IInv, TypeOK, Bucket, BucketState
<1>2. t = Current(s, e, now)
  BY <1>1 DEF Current
<1>3. /\ buckets'[k].state = t /\ cost <= Limit(e) /\ hint'[k].at = now + wait
      /\ t.credits < cost /\ e.refill_per_sec > 0
      /\ wait = RetryAfterForDeficit(cost - t.credits, e.refill_per_sec)
  <2>1. /\ buckets'[k].state = t /\ cost <= Limit(e) /\ LacksFor(t, e, cost, now, wait)
        /\ hint'[k].at = now + wait
    BY <1>2, KeyDenial DEF Exhausted
  <2> HIDE DEF t, wait, e
  <2> QED
    BY <1>1, <2>1 DEF LacksFor
<1>4. /\ s \in TokenBucketState /\ s.last_update <= now
      /\ e.capacity \in U64 /\ e.refill_per_sec \in U64
  BY <1>1, StateKind, AlgorithmKind DEF InTime
<1>5. /\ Limit(e) \in Nat /\ Limit(e) <= Limit(cfg.algorithm)
      /\ Limit(cfg.algorithm) = cfg.algorithm.capacity /\ cfg.algorithm.capacity \in Nat
  BY <1>1, EffectiveShape, AlgorithmKind, InForceBelow, Widths
     DEF TInv, IInv, Limit, U64
<1> HIDE DEF s, e
<1>6. t \in TokenBucketState /\ t.last_update = now
  BY <1>1, <1>4, RefillEffect, RefillUntil
<1> HIDE DEF t, wait
<1>7. e.refill_per_sec \in Nat \ {0} /\ t.credits \in Nat /\ cost \in Nat
  BY <1>3, <1>4, <1>6, Widths DEF U64, TokenBucketState, Cost
<1>8. EarnsBy(t, e.refill_per_sec, cost, now + wait)
  BY <1>3, <1>6, <1>7, DenialEarns
<1>9. t.credits <= cfg.algorithm.capacity
  BY <1>3, <1>5, <1>7
<1> QED
  BY <1>3, <1>8, <1>9 DEF e

LEMMA PoolHintStep ==
  ASSUME RefundsFit, TInv, TInv', [TNext]_tvars, NEW k \in Keys, Admissible(k), PoolHint(k)
  PROVE  PoolHint(k)'
<1> DEFINE rate == EffectiveAlgorithm.refill_per_sec
           Goal == /\ buckets'[k].state.credits <= cfg'.algorithm.capacity
                   /\ EarnsBy(buckets'[k].state, EffectiveAlgorithm.refill_per_sec',
                              hint'[k].cost, hint'[k].at)
<1>1. SUFFICES ASSUME hint'[k].reason = "WindowExhausted", ~hint'[k].polled,
                      cfg'.algorithm.kind = "TokenBucket", Tracked(k)'
               PROVE  Goal
  BY DEF PoolHint, EarnsBy, Worth
<1>2. /\ hint'[k] # NoHint /\ TypeOK /\ TypeOK' /\ now \in Nat
      /\ hint' \in [Keys -> Hint] /\ buckets'[k] \in Bucket
  BY <1>1, Widths DEF NoHint, TInv, IInv, TypeOK, Tracked, Duration
<1>3. hint'[k].cost \in Nat /\ hint'[k].at \in Nat
  <2>1. hint'[k].cost \in Cost /\ hint'[k].at \in Nat
    BY <1>2 DEF Hint
  <2> QED
    BY <2>1, Widths DEF Cost
<1>4. ASSUME UNCHANGED cfg, now <= now', buckets'[k].state.credits <= cfg.algorithm.capacity,
             EarnsBy(buckets'[k].state, rate, hint'[k].cost, hint'[k].at)
      PROVE  Goal
  <2>1. /\ rate \in Nat /\ EffectiveAlgorithm.refill_per_sec' \in Nat
        /\ rate <= EffectiveAlgorithm.refill_per_sec'
    BY <1>1, <1>2, <1>4, LimitsGrow
  <2>2. buckets'[k].state \in TokenBucketState
    <3>1. BucketsRunAlgorithm'
      BY DEF TInv, IInv
    <3>2. buckets'[k].state \in BucketState /\ buckets'[k].state.algo = "TokenBucket"
      BY <1>1, <1>2, <3>1 DEF BucketsRunAlgorithm, TrackedKeys, Bucket, BucketState
    <3> QED
      BY <3>2, StateKind
  <2> HIDE DEF rate
  <2>3. EarnsBy(buckets'[k].state, EffectiveAlgorithm.refill_per_sec', hint'[k].cost, hint'[k].at)
    BY <1>3, <1>4, <2>1, <2>2, EarnsMoreAtHigherRate
  <2> QED
    BY <1>4, <2>3
<1>5. CASE Elsewhere(k)
  <2>1. /\ UNCHANGED cfg /\ now <= now' /\ Tracked(k) /\ buckets'[k] = buckets[k]
        /\ hint'[k] = hint[k]
    BY <1>1, <1>5 DEF Elsewhere, Tracked
  <2>2. buckets[k].state.credits <= cfg.algorithm.capacity
        /\ EarnsBy(buckets[k].state, rate, hint[k].cost, hint[k].at)
    BY <1>1, <2>1 DEF PoolHint
  <2> HIDE DEF rate, Goal
  <2> QED
    BY <1>4, <2>1, <2>2
<1>6. ASSUME NEW cost \in Cost, Exhausted(k, cost), UNCHANGED <<cfg, now>> PROVE Goal
  <2>1. /\ buckets'[k].state.credits <= cfg.algorithm.capacity
        /\ EarnsBy(buckets'[k].state, rate, cost, hint'[k].at)
    BY <1>1, <1>6, PoolAfterDenial
  <2>2. hint'[k].cost = cost /\ now <= now'
    BY <1>2, <1>6 DEF Exhausted
  <2> HIDE DEF rate, Goal
  <2> QED
    BY <1>4, <1>6, <2>1, <2>2
<1>7. ASSUME NEW c \in Callers, NEW sent \in BOOLEAN, GivenBack(k, c, sent) PROVE Goal
  <2>1. SameHint(hint[k], hint'[k]) /\ UNCHANGED <<cfg, now>> /\ now <= now'
    BY <1>2, <1>7, ReleasedHint DEF GivenBack
  <2>2. /\ hint[k].reason = "WindowExhausted" /\ ~hint[k].polled
        /\ cfg.algorithm.kind = "TokenBucket"
        /\ hint'[k].cost = hint[k].cost /\ hint'[k].at = hint[k].at
    BY <1>1, <2>1 DEF SameHint
  <2>3. /\ buckets'[k].state.credits <= cfg.algorithm.capacity
        /\ EarnsBy(buckets'[k].state, rate, hint[k].cost, hint[k].at)
    BY <1>7, <2>2, PoolAfterRelease
  <2> HIDE DEF rate, Goal
  <2> QED
    BY <1>4, <2>1, <2>2, <2>3
<1>8. ASSUME NEW cost \in Cost, hint'[k] = FreshHint("SlowStart", cost) PROVE FALSE
  BY <1>1, <1>8 DEF FreshHint
<1> HIDE DEF Goal
<1> QED
  BY <1>1, <1>2, <1>5, <1>6, <1>7, <1>8, HintSteps DEF Polled

LEMMA PoolInvStep ==
  ASSUME RefundsFit, TInv, TInv', WindowInv, PoolInv, [TNext]_tvars
  PROVE  PoolInv'
BY PoolHintStep DEF WindowInv, PoolInv

LEMMA UnpolledPoolServes == TInv /\ WindowInv /\ PoolInv => WaitSufficesUnpolled
<1> SUFFICES ASSUME TInv, WindowInv, PoolInv, cfg.algorithm.kind = "TokenBucket", NEW k \in Keys,
                    Due(k), ~hint[k].polled, hint[k].reason = "WindowExhausted"
             PROVE  WouldGrant(k, hint[k].cost)
  BY DEF WaitSufficesUnpolled
<1> DEFINE cost == hint[k].cost
           s == BucketAt(k).state
           e == EffectiveAlgorithm
<1>1. /\ cost \in Cost /\ cost <= Limit(e)
      /\ WouldGrant(k, cost) <=> StateTryReserve(s, e, cost, now).reason = "Granted"
  BY LeftToBucket DEF WindowInv
<1>2. /\ e \in AlgorithmConfig /\ e.kind = "TokenBucket" /\ s.algo = "TokenBucket"
      /\ s \in BucketState /\ InTime(s, now) /\ now \in Duration
  BY BucketAtInTime, EffectiveShape DEF TInv, IInv, TypeOK, Bucket, BucketState
<1>3. hint[k].at \in Nat /\ hint[k].at <= now
  BY HintParts DEF Due, TInv
<1>4. /\ s \in TokenBucketState /\ s.last_update <= now /\ e.capacity \in U64
      /\ e.refill_per_sec \in U64 /\ Limit(e) = e.capacity
  BY <1>2, StateKind, AlgorithmKind DEF InTime, Limit
<1>5. CASE Tracked(k)
  <2>1. EarnsBy(s, e.refill_per_sec, cost, hint[k].at)
    BY <1>5 DEF PoolInv, PoolHint, BucketAt
  <2> HIDE DEF s, e, cost
  <2>2. TokenTryReserve(s, e.capacity, e.refill_per_sec, cost, now).reason = "Granted"
    BY <1>1, <1>2, <1>3, <1>4, <2>1, EarnedServes
  <2>3. StateTryReserve(s, e, cost, now).reason = "Granted"
    BY <1>2, <2>2 DEF StateTryReserve
  <2> QED
    BY <1>1, <2>3 DEF cost
<1>6. CASE ~Tracked(k)
  <2>1. s.credits = Limit(cfg.algorithm)
    BY <1>6 DEF BucketAt, NewBucket, NewState, NewTokenBucket, Limit
  <2>2. Limit(e) \in Nat /\ Limit(cfg.algorithm) \in Nat /\ Limit(e) <= Limit(cfg.algorithm)
        /\ cost \in Nat
    BY <1>1, <1>4, EffectiveShape, InForceBelow, Widths DEF TInv, IInv, U64, Cost
  <2>3. s.credits >= cost
    BY <1>1, <2>1, <2>2
  <2> HIDE DEF s, e, cost
  <2>4. EarnsBy(s, e.refill_per_sec, cost, hint[k].at)
    BY <2>3 DEF EarnsBy
  <2>5. TokenTryReserve(s, e.capacity, e.refill_per_sec, cost, now).reason = "Granted"
    BY <1>1, <1>2, <1>3, <1>4, <2>4, EarnedServes
  <2>6. StateTryReserve(s, e, cost, now).reason = "Granted"
    BY <1>2, <2>5 DEF StateTryReserve
  <2> QED
    BY <1>1, <2>6 DEF cost
<1> QED
  BY <1>5, <1>6

(***************************************************************************)
(* Whoever waited as long as an exhausted pool told, and did not ask       *)
(* meanwhile, is served.                                                   *)
(***************************************************************************)
THEOREM PoolWaitSuffices ==
  ASSUME RefundsFit
  PROVE  TSpec => []WaitSufficesUnpolled
<1>1. TInit => WindowInv /\ PoolInv
  BY NoHintsYet
<1>2. TInv /\ TInv' /\ WindowInv /\ PoolInv /\ [TNext]_tvars => WindowInv' /\ PoolInv'
  BY WindowInvStep, PoolInvStep
<1> QED
  BY <1>1, <1>2, UnpolledPoolServes, HintInvariance, PTL DEF TSpec

-----------------------------------------------------------------------------
(***************************************************************************)
(* Hints are no longer than they must be.                                  *)
(***************************************************************************)
\* What was sent stays used, as spent instead of reserved.
LEMMA ShortAfterCommit ==
  ASSUME NEW s \in BucketState, NEW a \in AlgorithmConfig, NEW p, NEW time \in Duration,
         StillKnows(s, p, a), NEW cost \in Cost, NEW at \in Nat, ShortUntil(s, a, cost, time, at)
  PROVE  ShortUntil(FinalizeState(s, p, TRUE, a, time), a, cost, time, at)
<1> DEFINE after == FinalizeState(s, p, TRUE, a, time)
<1>1. p.cost \in Cost /\ p.algo = s.algo /\ a.kind = s.algo /\ p.cost <= Outstanding(s)
  BY DEF StillKnows
<1>2. CASE a.kind = "FixedWindow"
  <2>1. /\ s \in FixedWindowState /\ p.cost <= s.reserved
        /\ a.max_per_window \in U32 /\ a.window \in Duration \ {0}
    BY <1>1, <1>2, StateKind, AlgorithmKind
  <2>2. /\ p.cost \in Nat \ {0} /\ cost \in Nat /\ s.spent \in Nat /\ s.reserved \in Nat
        /\ a.max_per_window \in Nat /\ U32Max \in Nat
    BY <1>1, <2>1, Widths DEF FixedWindowState, U32, Cost
  <2>3. MaybeResetWindow(s, time, a.window) = s
    BY <2>1, <2>2, MaybeResetWindowEffect
  <2>4. after = FixedWindowCommit(s, p.cost, TRUE)
    BY <1>1, <1>2, <2>3 DEF FinalizeState, StillKnows
  <2>5. /\ after.spent = SatAdd(s.spent, p.cost, U32Max)
        /\ after.reserved = s.reserved - p.cost
        /\ after.window_start = s.window_start
    BY <2>1, <2>2, <2>4 DEF FixedWindowCommit, FixedWindowState, SatSub
  <2> HIDE DEF after
  <2>6. SatAdd(after.spent, after.reserved, U32Max) >= SatAdd(s.spent, s.reserved, U32Max)
        /\ SatAdd(after.spent, after.reserved, U32Max) \in Nat
        /\ SatAdd(s.spent, s.reserved, U32Max) \in Nat
    BY <2>1, <2>2, <2>5 DEF SatAdd, Lesser
  <2>7. cost > SatSub(a.max_per_window, SatAdd(s.spent, s.reserved, U32Max))
          => cost > SatSub(a.max_per_window, SatAdd(after.spent, after.reserved, U32Max))
    BY <2>2, <2>6 DEF SatSub
  <2>8. WindowEnd(after, a.window) = WindowEnd(s, a.window)
    BY <2>5 DEF WindowEnd
  <2> QED
    BY <1>2, <2>7, <2>8 DEF ShortUntil, after
<1>3. CASE a.kind # "FixedWindow"
  <2>1. s \in TokenBucketState /\ after = TokenCommit(s, p.cost)
    BY <1>1, <1>3, StateKind DEF FinalizeState
  <2>2. after.credits = s.credits /\ after.last_update = s.last_update
    BY <2>1 DEF TokenCommit, TokenBucketState
  <2> HIDE DEF after
  <2> QED
    BY <1>3, <2>2 DEF ShortUntil, after
<1> QED
  BY <1>2, <1>3

\* One tick before a pool has earned the cost it lacks it.
LEMMA NotEarnedBefore ==
  ASSUME NEW s \in TokenBucketState, NEW capacity \in U64, NEW rate \in U64 \ {0},
         NEW cost \in Cost, NEW time \in Duration, s.last_update <= time, s.credits < cost,
         time < s.last_update + RetryAfterForDeficit(cost - s.credits, rate)
  PROVE  Refill(s, capacity, rate, time).credits < cost
<1> DEFINE delta == time - s.last_update
           deficit == cost - s.credits
           q == (delta * rate) \div NanosPerSec
           wait == RetryAfterForDeficit(deficit, rate)
<1>1. /\ delta \in Nat /\ s.credits \in Nat /\ cost \in Nat /\ deficit \in Nat
      /\ rate \in Nat \ {0} /\ capacity \in Nat /\ U64Max \in Nat /\ NanosPerSec \in Nat \ {0}
      /\ time \in Nat /\ s.last_update \in Nat
  BY Widths DEF TokenBucketState, Duration, U64, Cost
<1>2. deficit * NanosPerSec \in Nat /\ delta * rate \in Nat
  BY <1>1
<1>3. delta < wait
  <2>1. wait \in Nat
    BY <1>1, <1>2, DivCeilType DEF RetryAfterForDeficit
  <2> HIDE DEF wait
  <2>2. time < s.last_update + wait
    BY DEF wait
  <2> QED
    BY <1>1, <2>1, <2>2
<1>4. delta * rate < deficit * NanosPerSec
  BY <1>1, <1>2, <1>3, DivCeilAbove DEF RetryAfterForDeficit
<1>5. q < deficit /\ q \in Nat
  BY <1>1, <1>2, <1>4, DivBelow, DivBounds
<1>6. CreditsAdded(delta, rate) \in 0..q
  BY <1>1, <1>5 DEF CreditsAdded, Lesser
<1> HIDE DEF q, delta
<1>7. CASE time = s.last_update
  BY <1>1, <1>7 DEF Refill
<1>8. CASE time # s.last_update
  <2> DEFINE earned == IF rate = 0 \/ capacity = 0 THEN 0 ELSE CreditsAdded(delta, rate)
  <2>1. Refill(s, capacity, rate, time).credits = Lesser(SatAdd(s.credits, earned, U64Max), capacity)
    BY <1>1, <1>8 DEF Refill, TokenBucketState, delta
  <2>2. earned \in Nat /\ earned <= q
    BY <1>5, <1>6
  <2> HIDE DEF earned
  <2> QED
    BY <1>1, <1>5, <2>1, <2>2 DEF Lesser, SatAdd
<1> QED
  BY <1>7, <1>8

LEMMA TightAfterDenial ==
  ASSUME TInv, NEW k \in Keys, cfg.slow_start = None, NEW cost \in Cost, Exhausted(k, cost),
         UNCHANGED now
  PROVE  /\ Tracked(k)'
         /\ ShortUntil(buckets'[k].state, cfg.algorithm, cost, now, hint'[k].at)
<1> DEFINE s == BucketAt(k).state
           a == cfg.algorithm
           t == Current(s, a, now)
           wait == TryReserve(BucketAt(k), a, cost, now).retry_after
<1>1. /\ EffectiveAlgorithm = a /\ a \in AlgorithmConfig
      /\ s \in BucketState /\ s.algo = a.kind /\ InTime(s, now)
      /\ now \in Duration /\ now \in Nat /\ BucketAt(k) \in Bucket
  BY BucketAtInTime, EffectiveShape, Widths
     DEF TInv, IInv, TypeOK, Bucket, BucketState, Duration, EffectiveAlgorithm
<1>2. buckets'[k].state = t /\ LacksFor(t, a, cost, now, wait) /\ hint'[k].at = now + wait
  BY <1>1, KeyDenial DEF Exhausted
<1>3. buckets'[k] \in Bucket
  <2>1. buckets'[k] = TryReserve(BucketAt(k), a, cost, now).bucket
    BY <1>1 DEF Exhausted, Answered
  <2> QED
    BY <1>1, <2>1, TryReserveEffect
<1>4. Tracked(k)'
  BY <1>3, NoBucketIsNone DEF Tracked
<1> HIDE DEF s, a, wait
<1>5. CASE a.kind = "FixedWindow"
  <2>1. t \in FixedWindowState /\ a.window \in Duration \ {0}
    BY <1>1, <1>5, StateKind, AlgorithmKind, MaybeResetWindowEffect DEF Current
  <2>2. WindowEnd(t, a.window) \in Nat
    <3> HIDE DEF t
    <3> QED
      BY <2>1, Widths DEF WindowEnd, SatAdd, Lesser, FixedWindowState, Duration
  <2> HIDE DEF t
  <2>3. /\ cost > SatSub(a.max_per_window, SatAdd(t.spent, t.reserved, U32Max))
        /\ wait = SatSub(WindowEnd(t, a.window), now)
    BY <1>2, <1>5 DEF LacksFor
  <2>4. now < now + wait => now + wait = WindowEnd(t, a.window)
    BY <1>1, <2>2, <2>3 DEF SatSub
  <2> QED
    BY <1>2, <1>4, <1>5, <2>3, <2>4 DEF ShortUntil, a
<1>6. CASE a.kind # "FixedWindow"
  <2>1. t.last_update = now
    BY <1>1, <1>6, StateKind, AlgorithmKind, RefillUntil DEF Current, InTime
  <2> HIDE DEF t
  <2>2. /\ t.credits < cost /\ a.refill_per_sec > 0
        /\ wait = RetryAfterForDeficit(cost - t.credits, a.refill_per_sec)
    BY <1>2, <1>6 DEF LacksFor
  <2> QED
    BY <1>2, <1>4, <1>6, <2>1, <2>2 DEF ShortUntil, a
<1> QED
  BY <1>5, <1>6

LEMMA TightHintStep ==
  ASSUME NeverEvicts, TInv, TInv', [TNext]_tvars, NEW k \in Keys, TightHint(k)
  PROVE  TightHint(k)'
<1> DEFINE Goal == /\ Tracked(k)' /\ hint'[k].reason = "WindowExhausted"
                   /\ ShortUntil(buckets'[k].state, cfg'.algorithm, hint'[k].cost, now', hint'[k].at)
<1>1. SUFFICES ASSUME cfg'.slow_start = None, hint'[k] # NoHint, ~hint'[k].polled, ~hint'[k].freed
               PROVE  Goal
  BY DEF TightHint, ShortUntil, WindowEnd
<1>2. now \in Nat /\ now' \in Nat /\ hint[k].at \in Nat
  BY HintParts, Widths DEF TInv, IInv, TypeOK, Duration, NoHint
<1>3. CASE Elsewhere(k)
  <2>1. /\ UNCHANGED cfg /\ now <= now' /\ buckets'[k] = buckets[k] /\ hint'[k] = hint[k]
    BY <1>3 DEF Elsewhere
  <2>2. /\ Tracked(k) /\ hint[k].reason = "WindowExhausted"
        /\ ShortUntil(buckets[k].state, cfg.algorithm, hint[k].cost, now, hint[k].at)
    BY <1>1, <2>1 DEF TightHint
  <2>3. ShortUntil(buckets[k].state, cfg.algorithm, hint[k].cost, now', hint[k].at)
    BY <1>2, <2>1, <2>2 DEF ShortUntil
  <2> QED
    BY <2>1, <2>2, <2>3 DEF Tracked
<1>4. ASSUME NEW cost \in Cost, Exhausted(k, cost), UNCHANGED <<cfg, now>> PROVE Goal
  <2>1. /\ Tracked(k)'
        /\ ShortUntil(buckets'[k].state, cfg.algorithm, cost, now, hint'[k].at)
    BY <1>1, <1>4, TightAfterDenial
  <2> QED
    BY <1>4, <2>1 DEF Exhausted
<1>5. ASSUME NEW cost \in Cost, SlowStartDeny(cost), UNCHANGED cfg PROVE FALSE
  BY <1>1, <1>5 DEF SlowStartDeny, SlowStartDenies
<1>6. ASSUME NEW c \in Callers, NEW sent \in BOOLEAN, GivenBack(k, c, sent) PROVE Goal
  <2> DEFINE s == buckets[k].state
             p == permits[c]
             a == cfg.algorithm
             b == BucketCommit(buckets[k], p, TRUE, 0, a, now)
  <2>1. hint'[k] = hint[k] /\ sent /\ hint[k] # NoHint /\ UNCHANGED <<cfg, now>>
    BY <1>1, <1>6, ReleasedHint DEF GivenBack
  <2>2. /\ hint[k].reason = "WindowExhausted"
        /\ ShortUntil(s, a, hint[k].cost, now, hint[k].at)
    BY <1>1, <2>1 DEF TightHint
  <2>3. Holds(c) /\ p.key = k /\ buckets'[k] = b /\ 0 \in Duration
    <3>1. sent = TRUE
      BY <2>1
    <3>2. GivenBack(k, c, TRUE)
      BY <1>6, <3>1
    <3>3. Holds(c) /\ p.key = k /\ buckets'[k] = b
      BY <3>2 DEF GivenBack
    <3> QED
      BY <3>3, Widths DEF Duration
  <2>4. /\ s \in BucketState /\ StillKnows(s, p, a) /\ a \in AlgorithmConfig /\ now \in Duration
        /\ b \in Bucket /\ b.state = FinalizeState(s, p, TRUE, a, now)
    BY <2>3, FinalizedBucket
  <2>5. hint[k].cost \in Cost
    BY <2>1, HintParts DEF TInv
  <2> HIDE DEF s, p, a, b
  <2>6. ShortUntil(b.state, a, hint[k].cost, now, hint[k].at)
    BY <1>2, <2>2, <2>4, <2>5, ShortAfterCommit
  <2> QED
    BY <2>1, <2>2, <2>3, <2>4, <2>6, NoBucketIsNone DEF Tracked, a
<1> HIDE DEF Goal
<1> QED
  BY <1>1, <1>3, <1>4, <1>5, <1>6, HintSteps DEF Polled

LEMMA TightInvStep ==
  ASSUME NeverEvicts, TInv, TInv', TightInv, [TNext]_tvars
  PROVE  TightInv'
BY TightHintStep DEF TightInv

LEMMA TooEarly == TInv /\ TightInv => NoLongerThanNeeded
<1> SUFFICES ASSUME TInv, TightInv, cfg.slow_start = None, NEW k \in Keys, hint[k] # NoHint,
                    ~hint[k].polled, ~hint[k].freed, now + 1 = hint[k].at,
                    WouldGrant(k, hint[k].cost)
             PROVE  FALSE
  BY DEF NoLongerThanNeeded
<1> DEFINE cost == hint[k].cost
           s == buckets[k].state
           a == cfg.algorithm
<1>1. Tracked(k) /\ ShortUntil(s, a, cost, now, hint[k].at)
  BY DEF TightInv, TightHint
<1>2. /\ BucketAt(k) = buckets[k] /\ EffectiveAlgorithm = a
      /\ buckets[k] \in Bucket /\ a \in AlgorithmConfig /\ s \in BucketState
      /\ s.algo = a.kind /\ InTime(s, now) /\ now \in Duration /\ now \in Nat /\ cost \in Cost
  BY <1>1, BucketAtInTime, EffectiveShape, HintParts, Widths
     DEF TInv, IInv, TypeOK, Bucket, BucketState, Duration, EffectiveAlgorithm, BucketAt
<1>3. TryReserve(buckets[k], a, cost, now).reason = "Granted"
  BY <1>2 DEF WouldGrant
<1> HIDE DEF a, cost
<1>4. StateTryReserve(s, a, cost, now).reason = "Granted"
  BY <1>2, <1>3, TryReserveShape
<1> HIDE DEF s
<1>5. CASE a.kind = "FixedWindow"
  <2>1. now < WindowEnd(s, a.window)
        /\ cost > SatSub(a.max_per_window, SatAdd(s.spent, s.reserved, U32Max))
    BY <1>1, <1>2, <1>5 DEF ShortUntil
  <2>2. s \in FixedWindowState /\ a.window \in Duration
    BY <1>2, <1>5, StateKind, AlgorithmKind
  <2>3. WindowEnd(s, a.window) \in Nat
    BY <2>2, Widths DEF WindowEnd, SatAdd, Lesser, FixedWindowState, Duration
  <2>4. MaybeResetWindow(s, now, a.window) = s
    BY <1>2, <2>1, <2>3 DEF MaybeResetWindow
  <2>5. FixedWindowTryReserve(s, a.max_per_window, a.window, cost, now).reason = "Granted"
    BY <1>2, <1>4, <1>5 DEF StateTryReserve
  <2> QED
    BY <2>1, <2>4, <2>5 DEF FixedWindowTryReserve
<1>6. CASE a.kind # "FixedWindow"
  <2>1. /\ s \in TokenBucketState /\ s.last_update <= now
        /\ a.capacity \in U64 /\ a.refill_per_sec \in U64
    BY <1>2, <1>6, StateKind, AlgorithmKind DEF InTime
  <2>2. /\ s.credits < cost /\ a.refill_per_sec \in U64 \ {0}
        /\ now + 1 = s.last_update + RetryAfterForDeficit(cost - s.credits, a.refill_per_sec)
    BY <1>1, <1>6, <2>1, Widths DEF ShortUntil, U64
  <2>3. now < s.last_update + RetryAfterForDeficit(cost - s.credits, a.refill_per_sec)
    BY <1>2, <2>2
  <2>4. Refill(s, a.capacity, a.refill_per_sec, now).credits < cost
    BY <1>2, <2>1, <2>2, <2>3, NotEarnedBefore
  <2>5. Refill(s, a.capacity, a.refill_per_sec, now).credits \in Nat /\ cost \in Nat
    <3>1. Refill(s, a.capacity, a.refill_per_sec, now) \in TokenBucketState
      BY <1>2, <2>1, RefillEffect
    <3> QED
      BY <1>2, <3>1, Widths DEF TokenBucketState, U64, Cost
  <2>6. TokenTryReserve(s, a.capacity, a.refill_per_sec, cost, now).reason = "Granted"
    BY <1>2, <1>4, <1>6 DEF StateTryReserve
  <2> QED
    BY <2>4, <2>5, <2>6 DEF TokenTryReserve
<1> QED
  BY <1>5, <1>6

(***************************************************************************)
(* One tick before the hint is due is too early, for a key left alone.     *)
(***************************************************************************)
THEOREM WaitIsNecessary ==
  ASSUME NeverEvicts
  PROVE  TSpec => []NoLongerThanNeeded
<1>1. TInit => TightInv
  BY NoHintsYet
<1>2. TInv /\ TInv' /\ TightInv /\ [TNext]_tvars => TightInv'
  BY TightInvStep
<1> QED
  BY <1>1, <1>2, TooEarly, HintInvariance, PTL DEF TSpec

=============================================================================
