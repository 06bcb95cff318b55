----------------------------- MODULE TokenBucket -----------------------------
(***************************************************************************)
(* The credit pool of one bucket: credits left, credits reserved by open   *)
(* permits, and the time up to which the refill has been credited.         *)
(***************************************************************************)
EXTENDS Durations

TokenBucketState ==
  [algo : {"TokenBucket"}, last_update : Duration, credits : U64, in_flight : U64]

NewTokenBucket(now, capacity) ==
  [algo |-> "TokenBucket", last_update |-> now, credits |-> capacity, in_flight |-> 0]

\* Mutants: a started credit counts as earned; only whole seconds earn any.
CreditsRoundedUp(delta, refill_per_sec) ==
  Lesser(DivCeil(delta * refill_per_sec, NanosPerSec), U64Max)

CreditsOfWholeSeconds(delta, refill_per_sec) ==
  Lesser((delta \div NanosPerSec) * refill_per_sec, U64Max)

\* Whole credits earned in `delta`; the fraction of a credit is dropped.
CreditsAdded(delta, refill_per_sec) ==
  Lesser((delta * refill_per_sec) \div NanosPerSec, U64Max)

\* Mutants: the wait rounded down; one tick added also when it needs no rounding.
RetryAfterRoundedDown(deficit, refill_per_sec) ==
  (deficit * NanosPerSec) \div refill_per_sec

RetryAfterOneMore(deficit, refill_per_sec) ==
  (deficit * NanosPerSec) \div refill_per_sec + 1

RetryAfterForDeficit(deficit, refill_per_sec) ==
  DivCeil(deficit * NanosPerSec, refill_per_sec)

\* Bring the pool up to `now`.  A zero rate or capacity only clamps it.
Refill(s, capacity, refill_per_sec, now) ==
  LET earned == IF refill_per_sec = 0 \/ capacity = 0 THEN 0
                ELSE CreditsAdded(now - s.last_update, refill_per_sec)
  IN  IF now <= s.last_update THEN s
      ELSE [s EXCEPT !.last_update = now,
                     !.credits = Lesser(SatAdd(@, earned, U64Max), capacity)]

(***************************************************************************)
(* Draw `cost` credits.  Every call credits the refill first, also one     *)
(* that ends in a denial.                                                  *)
(***************************************************************************)
TokenTryReserve(s, capacity, refill_per_sec, cost, now) ==
  LET t == Refill(s, capacity, refill_per_sec, now)
      Answer(after, reason, wait) ==
        [state |-> after, reason |-> reason, retry_after |-> wait]
  IN  IF capacity = 0 THEN Answer(s, "Disabled", DurationMax)
      ELSE IF cost > capacity THEN Answer(t, "Unachievable", DurationMax)
      ELSE IF t.credits >= cost
        THEN Answer([t EXCEPT !.credits = @ - cost,
                              !.in_flight = SatAdd(@, cost, U64Max)], "Granted", 0)
      ELSE IF refill_per_sec = 0 THEN Answer(t, "Unachievable", DurationMax)
      ELSE Answer(t, "WindowExhausted",
                  RetryAfterForDeficit(cost - t.credits, refill_per_sec))

\* Mutant: the credits come back but stay in flight.
TokenRefundLeaks(s, capacity, cost, now, refill_per_sec) ==
  LET t == Refill(s, capacity, refill_per_sec, now) IN
  [t EXCEPT !.credits = Lesser(@ + cost, capacity)]

\* The sum is an unchecked u64 addition: it wraps in a release build.
TokenRefund(s, capacity, cost, now, refill_per_sec) ==
  LET t == Refill(s, capacity, refill_per_sec, now) IN
  [t EXCEPT !.in_flight = SatSub(@, cost),
            !.credits = Lesser((@ + cost) % (U64Max + 1), capacity)]

TokenCommit(s, cost) == [s EXCEPT !.in_flight = SatSub(@, cost)]

\* Mutant: the resized pool is made anew and forgets what is in flight.
ReplacedPool(s, old_capacity, new_capacity) == NewTokenBucket(s.last_update, new_capacity)

\* A larger pool keeps its deficit; a smaller one is clamped.
ApplyCapacityChange(s, old_capacity, new_capacity) ==
  LET grown == SatAdd(s.credits, SatSub(new_capacity, old_capacity), U64Max) IN
  [s EXCEPT !.credits = Lesser(grown, new_capacity)]
=============================================================================
