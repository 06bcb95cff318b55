----------------------------- MODULE FixedWindow -----------------------------
(***************************************************************************)
(* The fixed-window accounting of one bucket.  Capacity a permit has       *)
(* reserved counts against the window until the permit is finalized, and   *)
(* the window does not advance while any capacity is reserved.             *)
(***************************************************************************)
EXTENDS Durations

FixedWindowState ==
  [algo : {"FixedWindow"}, window_start : Duration, reserved : U32, spent : U32]

\* Windows are aligned to multiples of their length.
WindowStartFor(now, window) == (now \div window) * window

NewFixedWindow(now, window) ==
  [algo |-> "FixedWindow", window_start |-> WindowStartFor(now, window),
   reserved |-> 0, spent |-> 0]

WindowEnd(s, window) == SatAdd(s.window_start, window, DurationMax)

\* Mutant: the rollover does not wait for open reservations.
MaybeResetHeldWindow(s, now, window) ==
  IF now >= WindowEnd(s, window) THEN NewFixedWindow(now, window) ELSE s

\* Mutant: the window still counts at the instant it ends.
MaybeResetWindowLate(s, now, window) ==
  IF s.reserved = 0 /\ now > WindowEnd(s, window) THEN NewFixedWindow(now, window) ELSE s

MaybeResetWindow(s, now, window) ==
  IF s.reserved = 0 /\ now >= WindowEnd(s, window)
  THEN NewFixedWindow(now, window)
  ELSE s

\* Mutant: an unchecked subtraction.
RetryAfterUnchecked(s, now, window) == WindowEnd(s, window) - now

RetryAfterForWindow(s, now, window) == SatSub(WindowEnd(s, window), now)

(***************************************************************************)
(* Reserve `cost` out of `max` for the window `now` falls in.  The answer  *)
(* holds the state left behind, the reason and, for a denial, the wait.    *)
(***************************************************************************)
FixedWindowTryReserve(s, max, window, cost, now) ==
  LET t == MaybeResetWindow(s, now, window)
      available == SatSub(max, SatAdd(t.spent, t.reserved, U32Max))
      Answer(after, reason, wait) ==
        [state |-> after, reason |-> reason, retry_after |-> wait]
  IN  IF max = 0 THEN Answer(t, "Disabled", window)
      ELSE IF cost > max THEN Answer(t, "Unachievable", DurationMax)
      ELSE IF cost > available
        THEN Answer(t, "WindowExhausted", RetryAfterForWindow(t, now, window))
      ELSE Answer([t EXCEPT !.reserved = SatAdd(@, cost, U32Max)], "Granted", 0)

\* Mutant: the refund is also taken off `spent`.
FixedWindowRefundTwice(s, cost) ==
  [s EXCEPT !.reserved = SatSub(@, cost), !.spent = SatSub(@, cost)]

\* A finalized permit gives up its reservation; what was sent becomes spent.
FixedWindowRefund(s, cost) == [s EXCEPT !.reserved = SatSub(@, cost)]

FixedWindowCommit(s, cost, sent) ==
  LET spent == SatAdd(s.spent, cost, U32Max) IN
  [s EXCEPT !.reserved = SatSub(@, cost),
            !.spent = IF sent THEN spent ELSE SatSub(spent, cost)]
=============================================================================
