------------------------------ MODULE SlowStart ------------------------------
(***************************************************************************)
(* The slow-start ramp: for its length after `started_at` a limit is       *)
(* scaled by elapsed / ramp, rounded down.                                 *)
(***************************************************************************)
EXTENDS Durations

\* Mutant: the scaled limit rounded up.
EffectiveRoundedUp(max, ramp, started_at, now) ==
  LET elapsed == SatSub(now, started_at) IN
  IF ramp = 0 \/ elapsed >= ramp THEN max ELSE DivCeil(max * elapsed, ramp)

\* effective_max and effective_u64, which differ only in width.
Effective(max, ramp, started_at, now) ==
  LET elapsed == SatSub(now, started_at) IN
  IF ramp = 0 \/ elapsed >= ramp THEN max ELSE (max * elapsed) \div ramp

\* Mutant: the time at which the ramp reaches the cost rounded down.
RampWaitRoundedDown(max, ramp, started_at, now, cost) ==
  LET elapsed == SatSub(now, started_at) IN
  IF ramp = 0 \/ max = 0 \/ elapsed >= ramp THEN 0
  ELSE IF cost > max THEN ramp - elapsed
  ELSE SatSub((cost * ramp) \div max, elapsed)

\* retry_after_for_cost and retry_after_for_cost_u64.
RetryAfterForCost(max, ramp, started_at, now, cost) ==
  LET elapsed == SatSub(now, started_at) IN
  IF ramp = 0 \/ max = 0 \/ elapsed >= ramp THEN 0
  ELSE IF cost > max THEN ramp - elapsed
  ELSE SatSub(DivCeil(cost * ramp, max), elapsed)
=============================================================================
