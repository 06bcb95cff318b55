------------------------------- MODULE Bucket -------------------------------
(***************************************************************************)
(* One tracked key: the accounting state of the configured algorithm and   *)
(* the time until which the server asked this key to hold back.            *)
(*                                                                         *)
(* blocked_until is an Option: None is 0, which denies nothing either.     *)
(***************************************************************************)
EXTENDS FixedWindow, TokenBucket

FixedWindowAlgorithm ==
  [kind : {"FixedWindow"}, max_per_window : U32, window : Duration \ {0}]

TokenBucketAlgorithm ==
  [kind : {"TokenBucket"}, capacity : U64, refill_per_sec : U64]

AlgorithmConfig == FixedWindowAlgorithm \cup TokenBucketAlgorithm

Bucket == [blocked_until : Duration, state : FixedWindowState \cup TokenBucketState]

\* The key has no bucket.
NoBucket == [blocked_until |-> 0, state |-> [algo |-> "None"]]

NewState(now, algorithm) ==
  IF algorithm.kind = "FixedWindow"
  THEN NewFixedWindow(now, algorithm.window)
  ELSE NewTokenBucket(now, algorithm.capacity)

NewBucket(now, algorithm) == [blocked_until |-> 0, state |-> NewState(now, algorithm)]

\* Capacity held by permits that are not finalized.
Outstanding(s) == IF s.algo = "FixedWindow" THEN s.reserved ELSE s.in_flight

HasOutstanding(b) == Outstanding(b.state) # 0

\* Mutant: a backoff ends one tick early.
ClearEndingBlock(b, now) ==
  IF now + 1 >= b.blocked_until THEN [b EXCEPT !.blocked_until = 0] ELSE b

ClearExpiredBlock(b, now) ==
  IF now >= b.blocked_until THEN [b EXCEPT !.blocked_until = 0] ELSE b

\* Mutant: the last word on a backoff replaces the longest.
OverwriteBlockedUntil(b, until) == [b EXCEPT !.blocked_until = until]

\* A backoff is extended, never shortened.
ApplyBlockedUntil(b, until) == [b EXCEPT !.blocked_until = Greater(@, until)]

(***************************************************************************)
(* A permit's meta names the algorithm that issued it; a token bucket's    *)
(* permits belong to no window.                                            *)
(***************************************************************************)
PermitFor(key, cost, s) ==
  [key |-> key, cost |-> cost, algo |-> s.algo,
   window_start |-> IF s.algo = "FixedWindow" THEN s.window_start ELSE 0]

\* Reservation by the state's own algorithm; a state of the other one refuses.
StateTryReserve(s, algorithm, cost, now) ==
  IF s.algo # algorithm.kind
  THEN [state |-> s, reason |-> "Disabled", retry_after |-> NanosPerSec]
  ELSE IF s.algo = "FixedWindow"
    THEN FixedWindowTryReserve(s, algorithm.max_per_window, algorithm.window, cost, now)
    ELSE TokenTryReserve(s, algorithm.capacity, algorithm.refill_per_sec, cost, now)

TryReserve(bucket, algorithm, cost, now) ==
  LET b == ClearExpiredBlock(bucket, now)
      answer == StateTryReserve(b.state, algorithm, cost, now)
  IN  IF now < b.blocked_until
      THEN [bucket |-> b, reason |-> "BlockedUntil", retry_after |-> b.blocked_until - now]
      ELSE [bucket |-> [b EXCEPT !.state = answer.state],
            reason |-> answer.reason, retry_after |-> answer.retry_after]

(***************************************************************************)
(* Finalization of a permit against state, configured algorithm and meta.  *)
(* A permit of another algorithm, or of a window that is no longer the     *)
(* current one, changes nothing: the late finalization of a release build. *)
(***************************************************************************)
FinalizeState(s, p, sent, algorithm, now) ==
  IF s.algo # algorithm.kind \/ p.algo # s.algo THEN s
  ELSE IF s.algo = "FixedWindow"
    THEN LET t == MaybeResetWindow(s, now, algorithm.window) IN
         IF p.window_start # t.window_start THEN t
         ELSE FixedWindowCommit(t, p.cost, sent)
    ELSE IF sent THEN TokenCommit(s, p.cost)
    ELSE TokenRefund(s, algorithm.capacity, p.cost, now, algorithm.refill_per_sec)

\* refund: the fixed-window arm gives up the reservation and nothing else.
RefundState(s, p, algorithm, now) ==
  IF s.algo = "FixedWindow" /\ algorithm.kind = "FixedWindow" /\ p.algo = "FixedWindow"
  THEN LET t == MaybeResetWindow(s, now, algorithm.window) IN
       IF p.window_start # t.window_start THEN t ELSE FixedWindowRefund(t, p.cost)
  ELSE FinalizeState(s, p, FALSE, algorithm, now)

BucketRefund(b, p, algorithm, now) ==
  [ClearExpiredBlock(b, now) EXCEPT !.state = RefundState(@, p, algorithm, now)]

\* `until` is the backoff a key-scoped rate-limit outcome carries, else 0.
BucketCommit(b, p, sent, until, algorithm, now) ==
  [ApplyBlockedUntil(ClearExpiredBlock(b, now), until)
     EXCEPT !.state = FinalizeState(@, p, sent, algorithm, now)]

\* Mutant: a state of the old algorithm is left as it is.
StateKeptOnUpdate(s, old, new, now) == s

(***************************************************************************)
(* A configuration change.  The window is re-anchored only when nothing is *)
(* reserved in it; a pool is refilled under the old rate and then resized; *)
(* any other combination starts over in the new algorithm.                 *)
(***************************************************************************)
StateOnUpdate(s, old, new, now) ==
  IF s.algo = "FixedWindow" /\ old.kind = "FixedWindow" /\ new.kind = "FixedWindow"
  THEN IF old.window # new.window /\ s.reserved = 0
       THEN NewFixedWindow(now, new.window) ELSE s
  ELSE IF s.algo = "TokenBucket" /\ old.kind = "TokenBucket" /\ new.kind = "TokenBucket"
  THEN ApplyCapacityChange(Refill(s, old.capacity, old.refill_per_sec, now),
                           old.capacity, new.capacity)
  ELSE NewState(now, new)

OnUpdate(b, old, new, now) ==
  [ClearExpiredBlock(b, now) EXCEPT !.state = StateOnUpdate(@, old, new, now)]
=============================================================================
