---------------------------- MODULE RateLimiter ----------------------------
(***************************************************************************)
(* The limiter: one owner, so one call at a time, made by callers that     *)
(* hold a permit between try_acquire and its commit or refund and act in   *)
(* any order.  The clock is the caller's: monotonic, as the architecture   *)
(* notes require, and advanced by Tick.                                    *)
(***************************************************************************)
EXTENDS Bucket, SlowStart, FiniteSets, Sequences, SequencesExt

CONSTANTS
  Keys,       \* route keys and bucket keys, one type in the code
  Callers,    \* each holds at most one permit at a time
  None,       \* Option::None
  StartedAt,  \* started_at of new_at
  MaxTime,    \* bound: the clock stops here
  Costs,      \* costs callers ask for
  Configs,    \* configurations the limiter is created with and updated to
  Feedbacks,  \* server feedback signals
  Backoffs    \* retry_after of rate-limited outcomes

OverflowPolicy == {"DenyNewKey", "EvictOldestKey"}

Config ==
  [algorithm : AlgorithmConfig, slow_start : Duration \cup {None},
   max_keys : Nat \cup {None}, overflow_policy : OverflowPolicy]

\* `exhausted` is remaining == Some(0); the other values of remaining are ignored.
Feedback ==
  [retry_after : Duration, exhausted : BOOLEAN, reset_after : Duration \cup {None},
   scope : {"Global", "Key", "Route"}, bucket_remap : Keys \cup {None}]

ASSUME LimiterAssumption ==
  /\ None \notin Keys /\ None \notin Nat
  /\ StartedAt \in Duration /\ MaxTime \in Duration
  /\ Costs \subseteq Cost /\ Backoffs \subseteq Duration
  /\ Configs \subseteq Config /\ Configs # {}
  /\ Feedbacks \subseteq Feedback

\* The permits open at once never reserve more than a u64 counts.
ASSUME PermitsFitAssumption ==
  /\ IsFiniteSet(Callers)
  /\ Cardinality(Callers) * U32Max <= U64Max

Permit ==
  [key : Keys, cost : Cost, algo : {"FixedWindow", "TokenBucket"}, window_start : Duration]

NoPermit == [key |-> None, cost |-> 0, algo |-> "None", window_start |-> 0]

\* What the last call returned: nothing, a permit, a denial or an update error.
Reasons ==
  {"None", "Granted", "FeedbackBackoff", "SlowStart", "KeyCardinalityBound",
   "WindowExhausted", "Disabled", "AlgorithmChanged", "FixedWindowWindowChanged"}

Outcome ==
  [kind : {"Confirmed", "SentNoConfirm", "NotSent"}, scope : {"None"}, retry_after : {0}]
  \cup [kind : {"RateLimitedFeedback"}, scope : {"Global", "Key"}, retry_after : Backoffs]

VARIABLES
  cfg,
  route_map,             \* [Keys -> Keys \cup {None}]
  buckets,               \* [Keys -> Bucket \cup {NoBucket}]
  fifo,                  \* tracked keys, oldest first
  global_blocked_until,  \* 0 is None
  now,                   \* the caller's clock
  permits,               \* [Callers -> Permit \cup {NoPermit}]
  reply                  \* what the last call returned

vars == <<cfg, route_map, buckets, fifo, global_blocked_until, now, permits, reply>>

TypeOK ==
  /\ cfg \in Config
  /\ route_map \in [Keys -> Keys \cup {None}]
  /\ buckets \in [Keys -> Bucket \cup {NoBucket}]
  /\ fifo \in Seq(Keys)
  /\ global_blocked_until \in Duration
  /\ now \in Duration
  /\ permits \in [Callers -> Permit \cup {NoPermit}]
  /\ reply \in [reason : Reasons, retry_after : Duration]

Init ==
  /\ cfg \in Configs
  /\ route_map = [r \in Keys |-> None]
  /\ buckets = [k \in Keys |-> NoBucket]
  /\ fifo = <<>>
  /\ global_blocked_until = 0
  /\ now = StartedAt
  /\ permits = [c \in Callers |-> NoPermit]
  /\ reply = [reason |-> "None", retry_after |-> 0]

Returns(reason, wait) == reply' = [reason |-> reason, retry_after |-> wait]

Holds(c) == permits[c] # NoPermit

-----------------------------------------------------------------------------
(***************************************************************************)
(* Keys and buckets.                                                       *)
(***************************************************************************)
Tracked(k) == buckets[k] # NoBucket

TrackedKeys == {k \in Keys : Tracked(k)}

ResolveBucketKey(map, route) == IF map[route] = None THEN route ELSE map[route]

MappedRoutes == {r \in Keys : route_map[r] # None}

\* Mutant: one route too many.
RemapAcceptedAtBound(route) ==
  cfg.max_keys = None \/ Cardinality(MappedRoutes) <= cfg.max_keys \/ route_map[route] # None

\* A full mapping table takes no new route; a mapped route can be remapped.
RemapAccepted(route) ==
  \/ cfg.max_keys = None
  \/ Cardinality(MappedRoutes) < cfg.max_keys
  \/ route_map[route] # None

RemappedBy(route, target) ==
  IF target # None /\ RemapAccepted(route)
  THEN [route_map EXCEPT ![route] = target] ELSE route_map

BucketAt(key) == IF Tracked(key) THEN buckets[key] ELSE NewBucket(now, cfg.algorithm)

\* Mutant: a limiter above a lowered bound no longer notices it.
JustAtKeyBound == cfg.max_keys # None /\ Cardinality(TrackedKeys) = cfg.max_keys

AtKeyBound == cfg.max_keys # None /\ Cardinality(TrackedKeys) >= cfg.max_keys

NeedsRoom(key) == ~Tracked(key) /\ AtKeyBound

\* Mutant: the oldest key goes, with its open permits.
AnyEvictable(k) == TRUE

Evictable(k) == ~Tracked(k) \/ ~HasOutstanding(buckets[k])

\* The oldest key without outstanding reservations.
IsVictim(i) ==
  /\ i \in DOMAIN fifo /\ Evictable(fifo[i])
  /\ \A j \in 1..(i - 1) : ~Evictable(fifo[j])

(***************************************************************************)
(* ensure_bucket_capacity: the bucket of `key` can exist, once the fifo    *)
(* entry i is evicted, or as it is when i = 0.                             *)
(***************************************************************************)
HasRoom(key, i) ==
  IF NeedsRoom(key)
  THEN cfg.overflow_policy = "EvictOldestKey" /\ IsVictim(i)
  ELSE i = 0

NoRoom(key) == \A i \in 0..Len(fifo) : ~HasRoom(key, i)

RetryAfterOnNewKeyDeny ==
  IF cfg.algorithm.kind = "FixedWindow" THEN cfg.algorithm.window ELSE NanosPerSec

\* Mutant: the evicted key keeps its place in the fifo.
PlaceKeepingEntry(key, i, b) ==
  /\ buckets' = [k \in Keys |-> IF k = key THEN b
                                ELSE IF i # 0 /\ k = fifo[i] THEN NoBucket
                                ELSE buckets[k]]
  /\ fifo' = IF Tracked(key) THEN fifo ELSE Append(fifo, key)

\* `key` now has bucket b and the last place in the fifo if it is new; entry i is gone.
Place(key, i, b) ==
  LET kept == IF i = 0 THEN fifo ELSE RemoveAt(fifo, i) IN
  /\ buckets' = [k \in Keys |-> IF k = key THEN b
                                ELSE IF i # 0 /\ k = fifo[i] THEN NoBucket
                                ELSE buckets[k]]
  /\ fifo' = IF Tracked(key) THEN kept ELSE Append(kept, key)

-----------------------------------------------------------------------------
(***************************************************************************)
(* try_acquire.                                                            *)
(***************************************************************************)
Ramped(max) == Effective(max, cfg.slow_start, StartedAt, now)

EffectiveAlgorithm ==
  IF cfg.slow_start = None THEN cfg.algorithm
  ELSE IF cfg.algorithm.kind = "FixedWindow"
    THEN [cfg.algorithm EXCEPT !.max_per_window = Ramped(@)]
    ELSE [cfg.algorithm EXCEPT !.capacity = Ramped(@), !.refill_per_sec = Ramped(@)]

\* The limit slow start scales: a window's maximum or a pool's capacity.
Limit(algorithm) ==
  IF algorithm.kind = "FixedWindow" THEN algorithm.max_per_window ELSE algorithm.capacity

\* A disabled fixed window is left to the bucket to deny.
SlowStartDenies(cost) ==
  /\ cfg.slow_start # None
  /\ Limit(EffectiveAlgorithm) < cost
  /\ ~(cfg.algorithm.kind = "FixedWindow" /\ cfg.algorithm.max_per_window = 0)

\* The reason an observer is told.
DenyReason(reason) ==
  CASE reason = "BlockedUntil" -> "FeedbackBackoff"
    [] reason = "Unachievable" -> "Disabled"
    [] OTHER -> reason

GlobalDeny ==
  /\ now < global_blocked_until
  /\ Returns("FeedbackBackoff", global_blocked_until - now)
  /\ UNCHANGED <<buckets, fifo, permits>>

SlowStartDeny(cost) ==
  /\ now >= global_blocked_until
  /\ SlowStartDenies(cost)
  /\ Returns("SlowStart",
             RetryAfterForCost(Limit(cfg.algorithm), cfg.slow_start, StartedAt, now, cost))
  /\ UNCHANGED <<buckets, fifo, permits>>

KeyBoundDeny(key, cost) ==
  /\ now >= global_blocked_until
  /\ ~SlowStartDenies(cost)
  /\ NoRoom(key)
  /\ Returns("KeyCardinalityBound", RetryAfterOnNewKeyDeny)
  /\ UNCHANGED <<buckets, fifo, permits>>

\* The bucket answers; a permit goes to the caller, a denial changes it too.
BucketAnswer(c, key, cost) ==
  LET answer == TryReserve(BucketAt(key), EffectiveAlgorithm, cost, now) IN
  /\ now >= global_blocked_until
  /\ ~SlowStartDenies(cost)
  /\ \E i \in 0..Len(fifo) : HasRoom(key, i) /\ Place(key, i, answer.bucket)
  /\ permits' = IF answer.reason = "Granted"
                THEN [permits EXCEPT ![c] = PermitFor(key, cost, answer.bucket.state)]
                ELSE permits
  /\ Returns(DenyReason(answer.reason), answer.retry_after)

TryAcquire(c, route, cost) ==
  LET key == ResolveBucketKey(route_map, route) IN
  /\ ~Holds(c)
  /\ \/ GlobalDeny
     \/ SlowStartDeny(cost)
     \/ KeyBoundDeny(key, cost)
     \/ BucketAnswer(c, key, cost)
  /\ UNCHANGED <<cfg, route_map, global_blocked_until, now>>

-----------------------------------------------------------------------------
(***************************************************************************)
(* Finalization consumes the permit.                                       *)
(***************************************************************************)
Finalized(c, b) ==
  /\ buckets' = IF Tracked(permits[c].key)
                THEN [buckets EXCEPT ![permits[c].key] = b] ELSE buckets
  /\ permits' = [permits EXCEPT ![c] = NoPermit]
  /\ Returns("None", 0)
  /\ UNCHANGED <<cfg, route_map, fifo, now>>

Commit(c, outcome) ==
  LET p == permits[c]
      until == SatAdd(now, outcome.retry_after, DurationMax)
  IN  /\ Holds(c)
      /\ Finalized(c, BucketCommit(buckets[p.key], p, outcome.kind # "NotSent",
                                   IF outcome.scope = "Key" THEN until ELSE 0,
                                   cfg.algorithm, now))
      /\ global_blocked_until' = IF outcome.scope = "Global"
                                 THEN Greater(global_blocked_until, until)
                                 ELSE global_blocked_until

\* Mutant: the permit's key is looked up again, through the remaps made meanwhile.
RefundRemapped(c) ==
  LET p == permits[c]
      key == ResolveBucketKey(route_map, p.key)
  IN  /\ Holds(c)
      /\ buckets' = IF Tracked(key)
                    THEN [buckets EXCEPT ![key] = BucketRefund(@, p, cfg.algorithm, now)]
                    ELSE buckets
      /\ permits' = [permits EXCEPT ![c] = NoPermit]
      /\ Returns("None", 0)
      /\ UNCHANGED <<cfg, route_map, fifo, now, global_blocked_until>>

Refund(c) ==
  LET p == permits[c] IN
  /\ Holds(c)
  /\ Finalized(c, BucketRefund(buckets[p.key], p, cfg.algorithm, now))
  /\ UNCHANGED global_blocked_until

-----------------------------------------------------------------------------
(***************************************************************************)
(* apply_feedback.  The remap is applied first, so a key-scoped signal     *)
(* blocks the bucket the route leads to from now on.  When there is no     *)
(* room for that bucket the backoff is dropped.                            *)
(***************************************************************************)
FeedbackUntil(f) ==
  SatAdd(now,
         IF f.exhausted /\ f.reset_after # None
         THEN Greater(f.retry_after, f.reset_after) ELSE f.retry_after,
         DurationMax)

FeedbackBlocksKey(key, until) ==
  /\ \/ \E i \in 0..Len(fifo) :
          HasRoom(key, i) /\ Place(key, i, ApplyBlockedUntil(BucketAt(key), until))
     \/ NoRoom(key) /\ UNCHANGED <<buckets, fifo>>
  /\ UNCHANGED global_blocked_until

FeedbackBlocksAll(until) ==
  /\ global_blocked_until' = Greater(global_blocked_until, until)
  /\ UNCHANGED <<buckets, fifo>>

\* Mutant: the blocked key is resolved before the remap.
ApplyFeedbackThenRemap(route, f) ==
  /\ route_map' = RemappedBy(route, f.bucket_remap)
  /\ IF f.scope = "Global"
     THEN FeedbackBlocksAll(FeedbackUntil(f))
     ELSE FeedbackBlocksKey(ResolveBucketKey(route_map, route), FeedbackUntil(f))
  /\ Returns("None", 0)
  /\ UNCHANGED <<cfg, now, permits>>

ApplyFeedback(route, f) ==
  LET map == RemappedBy(route, f.bucket_remap) IN
  /\ route_map' = map
  /\ IF f.scope = "Global"
     THEN FeedbackBlocksAll(FeedbackUntil(f))
     ELSE FeedbackBlocksKey(ResolveBucketKey(map, route), FeedbackUntil(f))
  /\ Returns("None", 0)
  /\ UNCHANGED <<cfg, now, permits>>

-----------------------------------------------------------------------------
(***************************************************************************)
(* update_config and update_config_unchecked.                              *)
(***************************************************************************)
\* The change that needs every permit finalized, "None" if there is none.
DisruptiveChange(old, new) ==
  IF old.kind # new.kind THEN "AlgorithmChanged"
  ELSE IF old.kind = "FixedWindow" /\ old.window # new.window THEN "FixedWindowWindowChanged"
  ELSE "None"

\* Mutant: one idle bucket is enough to let the change through.
UpdateRejectedIfAllHeld(new) ==
  /\ DisruptiveChange(cfg.algorithm, new.algorithm) # "None"
  /\ \A k \in TrackedKeys : HasOutstanding(buckets[k])

UpdateRejected(new) ==
  /\ DisruptiveChange(cfg.algorithm, new.algorithm) # "None"
  /\ \E k \in TrackedKeys : HasOutstanding(buckets[k])

Reconfigured(new) ==
  /\ cfg' = new
  /\ buckets' = [k \in Keys |-> IF Tracked(k)
                                THEN OnUpdate(buckets[k], cfg.algorithm, new.algorithm, now)
                                ELSE NoBucket]
  /\ Returns("None", 0)
  /\ UNCHANGED <<route_map, fifo, global_blocked_until, now, permits>>

RejectUpdate(new) ==
  /\ UpdateRejected(new)
  /\ Returns(DisruptiveChange(cfg.algorithm, new.algorithm), 0)
  /\ UNCHANGED <<cfg, route_map, buckets, fifo, global_blocked_until, now, permits>>

UpdateConfig(new) ==
  \/ RejectUpdate(new)
  \/ ~UpdateRejected(new) /\ Reconfigured(new)

\* The caller's part of the contract: every permit is finalized before a disruptive change.
UpdateConfigUnchecked(new) ==
  /\ \/ DisruptiveChange(cfg.algorithm, new.algorithm) = "None"
     \/ \A c \in Callers : ~Holds(c)
  /\ Reconfigured(new)

\* The caller's own clock moves on, by any amount; the limiter reads none.
Tick ==
  /\ now' \in (now + 1)..MaxTime
  /\ UNCHANGED <<cfg, route_map, buckets, fifo, global_blocked_until, permits, reply>>

Next ==
  \/ \E c \in Callers, route \in Keys, cost \in Costs : TryAcquire(c, route, cost)
  \/ \E c \in Callers, outcome \in Outcome : Commit(c, outcome)
  \/ \E c \in Callers : Refund(c)
  \/ \E route \in Keys, f \in Feedbacks : ApplyFeedback(route, f)
  \/ \E new \in Configs : UpdateConfig(new) \/ UpdateConfigUnchecked(new)
  \/ Tick

Spec == Init /\ [][Next]_vars

-----------------------------------------------------------------------------
(***************************************************************************)
(* Safety.                                                                 *)
(***************************************************************************)
\* The units of capacity the open permits of a key hold, one pair per unit.
HeldUnits(k) ==
  {u \in Callers \X Cost : permits[u[1]].key = k /\ u[2] <= permits[u[1]].cost}

(***************************************************************************)
(* Every open permit can still be finalized: its bucket is tracked, runs   *)
(* the algorithm that issued the permit and is still in the permit's       *)
(* window.  Eviction, window rollover and configuration updates all        *)
(* threaten it; when it fails the finalization is silently dropped.        *)
(***************************************************************************)
PermitsFinalizable ==
  \A c \in Callers :
    Holds(c) =>
      LET p == permits[c] IN
      /\ Tracked(p.key)
      /\ buckets[p.key].state.algo = p.algo
      /\ cfg.algorithm.kind = p.algo
      /\ p.algo = "FixedWindow" => buckets[p.key].state.window_start = p.window_start

(***************************************************************************)
(* The books balance: a bucket's outstanding capacity is exactly what its  *)
(* open permits hold, so none leaks and none is released twice.            *)
(***************************************************************************)
OutstandingIsHeld ==
  \A k \in TrackedKeys : Outstanding(buckets[k].state) = Cardinality(HeldUnits(k))

\* Every bucket runs the configured algorithm, so the mismatch arms are dead.
BucketsRunAlgorithm ==
  \A k \in TrackedKeys : buckets[k].state.algo = cfg.algorithm.kind

(***************************************************************************)
(* The fifo lists each tracked key once, so eviction by age meets every    *)
(* bucket and only buckets.                                                *)
(***************************************************************************)
FifoTracksBuckets ==
  /\ ToSet(fifo) = TrackedKeys
  /\ Len(fifo) = Cardinality(TrackedKeys)

(***************************************************************************)
(* Memory: neither the buckets nor the route map ever grow past max_keys.  *)
(* (A lowered max_keys does not shrink them, so this is about growth.)     *)
(***************************************************************************)
GrowsWithinBound(before, after) ==
  Cardinality(after) > Cardinality(before) =>
    cfg.max_keys = None \/ Cardinality(after) <= cfg.max_keys

GrowthBounded ==
  [][/\ GrowsWithinBound(TrackedKeys, TrackedKeys')
     /\ GrowsWithinBound(MappedRoutes, MappedRoutes')]_vars
=============================================================================
