----------------------------- MODULE RetryHints -----------------------------
(***************************************************************************)
(* What a denial promises.  A denied caller is told "how long the caller   *)
(* should wait before retrying"; here the first such hint of every key is  *)
(* remembered until something other than waiting, polling or finalizing    *)
(* happens to the key, and compared with what a retry would then get.      *)
(***************************************************************************)
EXTENDS RateLimiter

VARIABLE hint  \* [Keys -> hint or NoHint]

tvars == <<vars, hint>>

NoHint == [reason |-> "None", cost |-> 0, at |-> 0, polled |-> FALSE, freed |-> FALSE]

\* Denials for want of capacity; the wait of the others is no estimate of it.
CapacityReasons == {"WindowExhausted", "SlowStart"}

\* A retry of `cost` is due at `at`.  Since the denial the key was asked again
\* (polled), or got capacity back from a permit that was not used (freed).
Hint ==
  [reason : CapacityReasons, cost : Cost, at : Nat, polled : BOOLEAN, freed : BOOLEAN]
  \cup {NoHint}

HintTypeOK == TypeOK /\ hint \in [Keys -> Hint]

TInit == Init /\ hint = [k \in Keys |-> NoHint]

HintAfterAsking(k, cost) ==
  IF reply'.reason = "Granted" THEN NoHint
  ELSE IF hint[k] # NoHint THEN [hint[k] EXCEPT !.polled = TRUE]
  ELSE IF reply'.reason \in CapacityReasons
    THEN [reason |-> reply'.reason, cost |-> cost, at |-> now + reply'.retry_after,
          polled |-> FALSE, freed |-> FALSE]
  ELSE NoHint

TTryAcquire(c, route, cost) ==
  LET k == ResolveBucketKey(route_map, route) IN
  /\ TryAcquire(c, route, cost)
  /\ hint' = [hint EXCEPT ![k] = HintAfterAsking(k, cost)]

HintAfterRelease(k) == IF hint[k] = NoHint THEN NoHint ELSE [hint[k] EXCEPT !.freed = TRUE]

TCommit(c, outcome) ==
  LET k == permits[c].key IN
  /\ Commit(c, outcome)
  /\ hint' = CASE outcome.kind = "NotSent" -> [hint EXCEPT ![k] = HintAfterRelease(k)]
               [] outcome.kind = "RateLimitedFeedback" -> [j \in Keys |-> NoHint]
               [] OTHER -> hint

TRefund(c) ==
  LET k == permits[c].key IN
  /\ Refund(c)
  /\ hint' = [hint EXCEPT ![k] = HintAfterRelease(k)]

TNext ==
  \/ \E c \in Callers, route \in Keys, cost \in Costs : TTryAcquire(c, route, cost)
  \/ \E c \in Callers, outcome \in Outcome : TCommit(c, outcome)
  \/ \E c \in Callers : TRefund(c)
  \/ \E route \in Keys, f \in Feedbacks :
       ApplyFeedback(route, f) /\ hint' = [k \in Keys |-> NoHint]
  \/ \E new \in Configs : UpdateConfig(new) /\ hint' = [k \in Keys |-> NoHint]
  \/ Tick /\ UNCHANGED hint

TSpec == TInit /\ [][TNext]_tvars

-----------------------------------------------------------------------------
\* try_acquire on bucket key k would be granted now.
WouldGrant(k, cost) ==
  /\ now >= global_blocked_until
  /\ ~SlowStartDenies(cost)
  /\ TryReserve(BucketAt(k), EffectiveAlgorithm, cost, now).reason = "Granted"

Due(k) == hint[k] # NoHint /\ now >= hint[k].at

(***************************************************************************)
(* A caller of a window that waits as long as it was told is served once   *)
(* no permit holds the window, whoever polled, committed or refunded       *)
(* meanwhile, and however far slow start has got.                          *)
(***************************************************************************)
WaitSufficesWhenIdle ==
  cfg.algorithm.kind = "FixedWindow" =>
    \A k \in Keys :
      (/\ Due(k) /\ hint[k].reason = "WindowExhausted"
       /\ Tracked(k) /\ ~HasOutstanding(buckets[k])) => WouldGrant(k, hint[k].cost)

(***************************************************************************)
(* A caller of a pool that waits as long as it was told is served,         *)
(* provided nobody asked for the key meanwhile: the refill is then         *)
(* computed in one step from the denial on, at the rate slow start has     *)
(* reached by then.                                                        *)
(***************************************************************************)
WaitSufficesUnpolled ==
  cfg.algorithm.kind = "TokenBucket" =>
    \A k \in Keys :
      Due(k) /\ ~hint[k].polled /\ hint[k].reason = "WindowExhausted" => WouldGrant(k, hint[k].cost)

(***************************************************************************)
(* What the documentation of Deny::retry_after leads a caller to expect.   *)
(***************************************************************************)
WaitSuffices == \A k \in Keys : Due(k) => WouldGrant(k, hint[k].cost)

(***************************************************************************)
(* The hint is no longer than it must be: as long as the key is left       *)
(* alone, one tick before the hint is due is still too early.  During slow *)
(* start it may be longer, as the rate it is computed with is still rising. *)
(***************************************************************************)
NoLongerThanNeeded ==
  cfg.slow_start = None =>
    \A k \in Keys :
      LET h == hint[k] IN
      h # NoHint /\ ~h.polled /\ ~h.freed /\ now + 1 = h.at => ~WouldGrant(k, h.cost)

(***************************************************************************)
(* A slow-start denial of a cost the limit admits at all names the exact   *)
(* moment the scaled limit first admits it, rounding of the ramp and of    *)
(* the hint included.                                                      *)
(***************************************************************************)
RampWaitExact ==
  \A k \in Keys :
    LET h == hint[k] IN
    (h.reason = "SlowStart" /\ h.cost <= Limit(cfg.algorithm)) =>
      (now >= h.at <=> ~SlowStartDenies(h.cost))

(***************************************************************************)
(* A denial that asks for no wait invites an endless loop of retries at    *)
(* the same instant.  That happens in three cases only: an open permit     *)
(* holds a window past its end; slow start, its ramp over, turns away a    *)
(* cost above the configured limit; or slow start scales an empty pool.    *)
(***************************************************************************)
HeldPastEnd(k) ==
  /\ Tracked(k) /\ cfg.algorithm.kind = "FixedWindow"
  /\ HasOutstanding(buckets[k])
  /\ now >= WindowEnd(buckets[k].state, cfg.algorithm.window)

Denials ==
  {"FeedbackBackoff", "SlowStart", "KeyCardinalityBound", "WindowExhausted", "Disabled"}

ZeroWaitsExplained ==
  [][(now' = now /\ reply'.reason \in Denials /\ reply'.retry_after = 0) =>
       \/ reply'.reason = "WindowExhausted" /\ \E k \in Keys : HeldPastEnd(k)
       \/ /\ reply'.reason = "SlowStart"
          /\ now >= StartedAt + cfg.slow_start \/ Limit(cfg.algorithm) = 0]_tvars
=============================================================================
