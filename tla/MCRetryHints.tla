---------------------------- MODULE MCRetryHints ----------------------------
(***************************************************************************)
(* Configurations under which the waits a denial announces are compared    *)
(* with what a retry gets.                                                 *)
(***************************************************************************)
EXTENDS MCLimiter, RetryHints

\* One window; its hints name the end of the window.
HintWindow == {Plain(Window(2, 3))}

\* 2 ticks a second: a credit takes 2/3 of a tick, 2 ticks or, with rate 0, forever.
HintPools == {Plain(Pool(3, 3)), Plain(Pool(2, 1)), Plain(Pool(2, 0))}

\* Ramps that end within the clock's range; a disabled window, a disabled pool, a
\* window smaller than a cost, and a pool that starts with more than its scaled capacity.
HintRamps ==
  {Ramping(Window(3, 2), 5), Ramping(Window(0, 2), 3), Ramping(Window(1, 2), 3),
   Ramping(Pool(0, 1), 3)}
  \cup PoolRamps

HintConfigs == HintWindow \cup HintPools \cup HintRamps
HintFeedback == {Signal("Global", 1)}

\* A pool whose credit takes two ticks.
SlowPool == {Plain(Pool(1, 1))}
=============================================================================
