--------------------------- MODULE LimiterHistory ---------------------------
(***************************************************************************)
(* RateLimiter with a memory of its own dealings, which the code does not  *)
(* keep: the capacity handed out per key and window, what pools were ever  *)
(* entitled to, and the backoffs the server announced.  The properties     *)
(* compare the limiter with them.                                          *)
(***************************************************************************)
EXTENDS RateLimiter

CONSTANT MaxSupply  \* bound: pools are not enlarged beyond it

VARIABLES
  charged,  \* per key: the window last granted from and the units it still owes
  supply,   \* what a pool was entitled to so far, in credits times NanosPerSec
  promised  \* the time until which the server asked each key, and all keys, to wait

hvars == <<vars, charged, supply, promised>>

Everyone == "everyone"

ASSUME EveryoneAssumption == Everyone \notin Keys

HistoryTypeOK ==
  /\ TypeOK
  /\ charged \in [Keys -> [window : Duration, units : Nat]]
  /\ supply \in Nat
  /\ promised \in [Keys \cup {Everyone} -> Duration]

\* What a pool starts with.
FullPool(algorithm) ==
  IF algorithm.kind = "TokenBucket" THEN NanosPerSec * algorithm.capacity ELSE 0

HInit ==
  /\ Init
  /\ charged = [k \in Keys |-> [window |-> 0, units |-> 0]]
  /\ supply = FullPool(cfg.algorithm)
  /\ promised = [k \in Keys \cup {Everyone} |-> 0]

\* A token bucket's permits all bear window 0: they are charged for good.
Charge(p) ==
  LET old == charged[p.key] IN
  charged' = [charged EXCEPT ![p.key] =
    [window |-> p.window_start,
     units |-> p.cost + IF old.window = p.window_start THEN old.units ELSE 0]]

Release(p) ==
  charged' = [charged EXCEPT ![p.key].units =
    IF charged[p.key].window = p.window_start THEN @ - p.cost ELSE @]

Promise(who, until) == promised' = [promised EXCEPT ![who] = Greater(@, until)]

HTryAcquire(c, route, cost) ==
  /\ TryAcquire(c, route, cost)
  /\ IF Holds(c)' THEN Charge(permits'[c]) ELSE UNCHANGED charged
  /\ UNCHANGED <<supply, promised>>

HCommit(c, outcome) ==
  /\ Commit(c, outcome)
  /\ IF outcome.kind = "NotSent" THEN Release(permits[c]) ELSE UNCHANGED charged
  /\ IF outcome.kind = "RateLimitedFeedback"
     THEN Promise(IF outcome.scope = "Global" THEN Everyone ELSE permits[c].key,
                  SatAdd(now, outcome.retry_after, DurationMax))
     ELSE UNCHANGED promised
  /\ UNCHANGED supply

HRefund(c) ==
  /\ Refund(c)
  /\ Release(permits[c])
  /\ UNCHANGED <<supply, promised>>

HApplyFeedback(route, f) ==
  /\ ApplyFeedback(route, f)
  /\ Promise(IF f.scope = "Global" THEN Everyone ELSE ResolveBucketKey(route_map', route),
             FeedbackUntil(f))
  /\ UNCHANGED <<charged, supply>>

(***************************************************************************)
(* A larger capacity is granted at once.  A change of the algorithm or of  *)
(* the window length replaces every bucket and is left to RateLimiter.     *)
(***************************************************************************)
HUpdateConfig(new) ==
  /\ DisruptiveChange(cfg.algorithm, new.algorithm) = "None"
  /\ UpdateConfig(new)
  /\ supply' = supply + SatSub(FullPool(new.algorithm), FullPool(cfg.algorithm))
  /\ supply' <= MaxSupply \/ supply' = supply
  /\ UNCHANGED <<charged, promised>>

HTick ==
  /\ Tick
  /\ supply' = supply + IF cfg.algorithm.kind = "FixedWindow" THEN 0
                        ELSE cfg.algorithm.refill_per_sec * (now' - now)
  /\ UNCHANGED <<charged, promised>>

HNext ==
  \/ \E c \in Callers, route \in Keys, cost \in Costs : HTryAcquire(c, route, cost)
  \/ \E c \in Callers, outcome \in Outcome : HCommit(c, outcome)
  \/ \E c \in Callers : HRefund(c)
  \/ \E route \in Keys, f \in Feedbacks : HApplyFeedback(route, f)
  \/ \E new \in Configs : HUpdateConfig(new)
  \/ HTick

HSpec == HInit /\ [][HNext]_hvars

-----------------------------------------------------------------------------
\* The call just made was granted, to c.
Grants(c) == ~Holds(c) /\ Holds(c)'

(***************************************************************************)
(* A grant never takes a key's window beyond its maximum, counting all     *)
(* that was granted in that window and not refunded.  The code keeps only  *)
(* `spent` and `reserved`, moved about by every call.                      *)
(***************************************************************************)
WithinWindowBudget ==
  \A c \in Callers :
    (Grants(c) /\ cfg.algorithm.kind = "FixedWindow") =>
      charged'[permits'[c].key].units <= cfg.algorithm.max_per_window

WindowBudget == [][WithinWindowBudget]_hvars

(***************************************************************************)
(* Under slow start the budget at the moment of a grant is the limit       *)
(* scaled by elapsed / ramp: of the window, or of the pool's burst on top  *)
(* of what the full refill rate earned since the limiter started.          *)
(***************************************************************************)
WithinRampBudget ==
  \A c \in Callers :
    (Grants(c) /\ cfg.slow_start # None) =>
      LET ramp == cfg.slow_start
          elapsed == Lesser(now - StartedAt, ramp)
          units == charged'[permits'[c].key].units
          earned == supply - FullPool(cfg.algorithm)
      IN  NanosPerSec * units * ramp
            <= NanosPerSec * Limit(cfg.algorithm) * elapsed + earned * ramp

RampBudget == [][WithinRampBudget]_hvars

(***************************************************************************)
(* The long-run rate: what a key has drawn from its pool, refunds taken    *)
(* off, is at most one full pool, what the refill earned under the rates   *)
(* in force and what capacity was added.  Rounding, refunds, clamping and  *)
(* resizing must never create credit.                                      *)
(***************************************************************************)
RateBound ==
  cfg.algorithm.kind = "TokenBucket" =>
    \A k \in Keys : NanosPerSec * charged[k].units <= supply

(***************************************************************************)
(* No permit is granted on a key before the end of any backoff the server  *)
(* announced for that key or for all keys, whatever happened since.        *)
(***************************************************************************)
HonoursBackoff ==
  \A c \in Callers :
    Grants(c) =>
      /\ now >= promised[permits'[c].key]
      /\ now >= promised[Everyone]

BackoffHonoured == [][HonoursBackoff]_hvars
=============================================================================
