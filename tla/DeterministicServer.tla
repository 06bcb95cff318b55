-------------------------- MODULE DeterministicServer --------------------------
(***************************************************************************)
(* The server the limiter is tested against: an implementation of the two  *)
(* algorithms of its own, which counts requests when they arrive and knows *)
(* no reservations.  A request it turns away counts too, and blocks its    *)
(* key until the wait that was announced is over.  The server turns away   *)
(* key by key only, so its global block is never set and is left out.      *)
(***************************************************************************)
EXTENDS Durations

\* Both halves of a state are there, whichever the algorithm uses.
ServerKeyState ==
  [window_start : Duration, spent : U32, last_update : Duration, credits : U64,
   blocked_until : Duration]

ServerDecision == [ok : BOOLEAN, retry_after : Duration]

Accepted == [ok |-> TRUE, retry_after |-> 0]
Rejected(wait) == [ok |-> FALSE, retry_after |-> wait]

WindowOf(now, window) == (now \div window) * window

NewServerKey(algo, now) ==
  [window_start |-> IF algo.kind = "FixedWindow" THEN WindowOf(now, algo.window) ELSE 0,
   spent |-> 0,
   last_update |-> IF algo.kind = "FixedWindow" THEN 0 ELSE now,
   credits |-> IF algo.kind = "FixedWindow" THEN 0 ELSE algo.capacity,
   blocked_until |-> 0]

AdvanceWindow(st, window, now) ==
  IF now >= SatAdd(st.window_start, window, DurationMax)
  THEN [st EXCEPT !.window_start = WindowOf(now, window), !.spent = 0]
  ELSE st

RefillKey(st, algo, now) ==
  LET added == Lesser(((now - st.last_update) * algo.refill_per_sec) \div NanosPerSec, U64Max) IN
  IF now > st.last_update
  THEN [st EXCEPT !.credits = Lesser(SatAdd(@, added, U64Max), algo.capacity),
                  !.last_update = now]
  ELSE st

Advanced(st, algo, now) ==
  IF algo.kind = "FixedWindow" THEN AdvanceWindow(st, algo.window, now)
  ELSE RefillKey(st, algo, now)

WindowDecision(st, algo, cost, now) ==
  IF cost > algo.max_per_window THEN Rejected(DurationMax)
  ELSE IF SatAdd(st.spent, cost, U32Max) > algo.max_per_window
    THEN Rejected(SatSub(SatAdd(st.window_start, algo.window, DurationMax), now))
  ELSE Accepted

PoolDecision(st, algo, cost) ==
  IF cost > algo.capacity THEN Rejected(DurationMax)
  ELSE IF st.credits >= cost THEN Accepted
  ELSE IF algo.refill_per_sec = 0 THEN Rejected(DurationMax)
  ELSE Rejected(DivCeil((cost - st.credits) * NanosPerSec, algo.refill_per_sec))

\* decide, for a state that is advanced to `now` unless the key is blocked.
Decide(st, algo, cost, now) ==
  IF now < st.blocked_until THEN Rejected(st.blocked_until - now)
  ELSE IF algo.kind = "FixedWindow" THEN WindowDecision(Advanced(st, algo, now), algo, cost, now)
  ELSE PoolDecision(Advanced(st, algo, now), algo, cost)

\* apply_outcome, for Confirmed and RateLimitedFeedback of scope Key.
ApplyOutcome(st, algo, cost, decision, now) ==
  LET t == Advanced(st, algo, now)
      until == SatAdd(now, decision.retry_after, DurationMax)
      counted == IF algo.kind = "FixedWindow"
                 THEN [t EXCEPT !.spent = SatAdd(@, cost, U32Max)]
                 ELSE [t EXCEPT !.credits = SatSub(@, cost)]
  IN  IF decision.ok THEN counted
      ELSE [counted EXCEPT !.blocked_until = Greater(@, until)]
=============================================================================
