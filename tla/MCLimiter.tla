------------------------------ MODULE MCLimiter ------------------------------
(***************************************************************************)
(* Values for TLC: configurations, feedback signals and symmetry.          *)
(***************************************************************************)
EXTENDS RateLimiter

Window(max, window) ==
  [kind |-> "FixedWindow", max_per_window |-> max, window |-> window]

Pool(capacity, rate) ==
  [kind |-> "TokenBucket", capacity |-> capacity, refill_per_sec |-> rate]

Plain(algorithm) ==
  [algorithm |-> algorithm, slow_start |-> None, max_keys |-> None,
   overflow_policy |-> "DenyNewKey"]

Bounded(algorithm, max_keys, policy) ==
  [Plain(algorithm) EXCEPT !.max_keys = max_keys, !.overflow_policy = policy]

Ramping(algorithm, ramp) == [Plain(algorithm) EXCEPT !.slow_start = ramp]

Signal(scope, wait) ==
  [retry_after |-> wait, exhausted |-> FALSE, reset_after |-> None,
   scope |-> scope, bucket_remap |-> None]

Reset(scope, wait) == [Signal(scope, 0) EXCEPT !.exhausted = TRUE, !.reset_after = wait]

Remap(target, wait) == [Signal("Route", wait) EXCEPT !.bucket_remap = target]

Symmetry == Permutations(Callers) \cup Permutations(Keys)

NoFeedback == {}

\* accounting: a window whose maximum is raised, lowered and ramped up; a pool
\* that is resized, with a rate that does not divide a tick, so that fractions
\* are dropped.
WindowConfigs == {Plain(Window(2, 2)), Plain(Window(3, 2)), Ramping(Window(3, 2), 5)}
PoolConfigs == {Plain(Pool(3, 3)), Plain(Pool(2, 3))}
AccountingConfigs == WindowConfigs \cup PoolConfigs
AccountingFeedbacks == {Signal("Global", 1), Reset("Key", 2)}

\* eviction: two places for three keys, later only one; routes remapped among them.
EvictingConfigs == {Bounded(Window(2, 2), n, "EvictOldestKey") : n \in {1, 2}}
Remaps == {Remap(k, 2) : k \in Keys}
KeyFeedbacks == {Signal("Key", 2)}

\* key_bound: one place for two keys, no eviction.
OnePlace == {Bounded(Window(1, 2), 1, "DenyNewKey")}
RouteFeedbacks == Remaps \cup KeyFeedbacks

\* update_config: every kind of change, and a key bound that is lowered.
UpdateConfigs ==
  {Plain(Window(2, 2)), Plain(Window(2, 3)), Plain(Pool(3, 1)),
   Bounded(Pool(2, 4), 1, "EvictOldestKey")}

\* slow_start_pool_burst: a pool that is used while its capacity ramps up.
PoolRamps == {Ramping(Pool(4, 1), 4)}
=============================================================================
