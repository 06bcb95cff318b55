---------------------------- MODULE HistoryProofs ----------------------------
(***************************************************************************)
(* The limiter against what it has handed out, for any keys, callers and   *)
(* times: the budget of a window, the budget of a ramp, the long-run rate  *)
(* of a pool and the backoffs the server asked for.                        *)
(***************************************************************************)
EXTENDS LimiterHistory, RateLimiterProofs

(***************************************************************************)
(* Two more assumptions on the configurations, made only where a theorem   *)
(* says so.                                                                *)
(***************************************************************************)
\* max_keys is not changed by an update.
BoundIsFixed == \A new, other \in Configs : new.max_keys = other.max_keys

\* Slow start is used with windows only.
OnlyWindowsRamp ==
  \A new \in Configs : new.slow_start # None => new.algorithm.kind = "FixedWindow"

-----------------------------------------------------------------------------
(***************************************************************************)
(* The books of one key: what its bucket says and what was charged to it.  *)
(***************************************************************************)
Account == [window : Duration, units : Nat]

NothingCharged == [window |-> 0, units |-> 0]

\* The account after a grant in `window`, and after p's cost is given back.
Charged(account, window, cost) ==
  [window |-> window, units |-> cost + IF account.window = window THEN account.units ELSE 0]

Released(account, p) ==
  [account EXCEPT !.units = IF account.window = p.window_start THEN @ - p.cost ELSE @]

\* The window a permit issued from state s belongs to.
WindowOf(s) == IF s.algo = "FixedWindow" THEN s.window_start ELSE 0

\* A window owes what was charged to it, or is a later one and owes nothing.
WindowBooks(s, account) ==
  /\ Used(s) <= U32Max
  /\ IF account.window = s.window_start THEN account.units = Used(s)
     ELSE account.window < s.window_start /\ Used(s) = 0

\* A pool and what was drawn from it stay within what it was entitled to.
PoolBooks(s, account, rate, time, entitled) ==
  /\ s.last_update <= time
  /\ account.window = 0
  /\ Worth(s, rate, time) + NanosPerSec * account.units <= entitled

StateBooks(s, account, algorithm, time, entitled) ==
  IF s.algo = "FixedWindow" THEN ClockShortOfMax => WindowBooks(s, account)
  ELSE PoolBooks(s, account, algorithm.refill_per_sec, time, entitled)

Books(k) ==
  IF Tracked(k)
  THEN StateBooks(buckets[k].state, charged[k], cfg.algorithm, now, supply)
  ELSE charged[k] = NothingCharged

\* What the open permits of a key hold is part of what was charged, all to one window.
HeldAreCharged(k) ==
  /\ Cardinality(UnitsOf(permits, k)) <= charged[k].units
  /\ \A c \in Callers : permits[c].key = k => permits[c].window_start = charged[k].window

PoolPermitsBearNoWindow ==
  \A c \in Callers : permits[c].algo = "TokenBucket" => permits[c].window_start = 0

\* A promise still to be kept: the bucket keeps it, or the key finds no room.
PromiseKept(k) ==
  promised[k] > now =>
    IF Tracked(k) THEN buckets[k].blocked_until >= promised[k] ELSE AtKeyBound

(***************************************************************************)
(* The inductive invariants: of every limiter, of one that evicts no key,  *)
(* and of one that keeps its key bound too.                                *)
(***************************************************************************)
HInv ==
  /\ IInv
  /\ charged \in [Keys -> Account]
  /\ supply \in Nat
  /\ promised \in [Keys \cup {Everyone} -> Duration]
  /\ cfg \in Configs
  /\ StartedAt <= now
  /\ ClockShortOfMax => now < DurationMax
  /\ PoolPermitsBearNoWindow
  /\ \A k \in Keys : HeldAreCharged(k)

BooksInv ==
  /\ FullPool(cfg.algorithm) <= supply
  /\ \A k \in Keys : Books(k)

PromisesInv ==
  /\ \A k \in Keys : PromiseKept(k)
  /\ promised[Everyone] > now => global_blocked_until >= promised[Everyone]

-----------------------------------------------------------------------------
(***************************************************************************)
(* The books of a bucket, operation by operation.                          *)
(***************************************************************************)
LEMMA FullPoolType ==
  ASSUME NEW a \in AlgorithmConfig
  PROVE  FullPool(a) \in Nat
<1>1. CASE a.kind = "TokenBucket"
  <2>1. a.capacity \in Nat
    BY <1>1, AlgorithmKind, Widths DEF U64
  <2> QED
    BY <1>1, <2>1, Widths DEF FullPool
<1>2. CASE a.kind # "TokenBucket"
  BY <1>2 DEF FullPool
<1> QED
  BY <1>1, <1>2

\* A new bucket owes nothing and is worth one full pool.
LEMMA NewStateBooks ==
  ASSUME NEW a \in AlgorithmConfig, NEW time \in Duration, NEW entitled \in Nat,
         FullPool(a) <= entitled
  PROVE  StateBooks(NewState(time, a), NothingCharged, a, time, entitled)
<1> DEFINE s == NewState(time, a)
<1>1. CASE a.kind = "FixedWindow"
  <2>1. s = NewFixedWindow(time, a.window)
    BY <1>1 DEF NewState
  <2>2. s.algo = "FixedWindow" /\ s.spent = 0 /\ s.reserved = 0
        /\ s.window_start = WindowStartFor(time, a.window)
    BY <2>1 DEF NewFixedWindow
  <2>3. WindowStartFor(time, a.window) \in 0..time
    BY <1>1, AlgorithmKind, WindowStartType
  <2>4. time \in Nat
    BY Widths DEF Duration
  <2> HIDE DEF s
  <2>5. StateBooks(s, NothingCharged, a, time, entitled)
    BY <2>2, <2>3, <2>4, Widths DEF StateBooks, WindowBooks, Used, NothingCharged
  <2> QED
    BY <2>5 DEF s
<1>2. CASE a.kind # "FixedWindow"
  <2>1. s = NewTokenBucket(time, a.capacity)
    BY <1>2 DEF NewState
  <2>2. s.algo = "TokenBucket" /\ s.last_update = time /\ s.credits = a.capacity
    BY <2>1 DEF NewTokenBucket
  <2>3. a.capacity \in Nat /\ a.refill_per_sec \in Nat /\ time \in Nat
        /\ NanosPerSec * a.capacity <= entitled
    BY <1>2, AlgorithmKind, Widths DEF U64, Duration, FullPool
  <2>4. NanosPerSec * a.capacity \in Nat
    BY <2>3, Widths
  <2> HIDE DEF s
  <2>5. Worth(s, a.refill_per_sec, time) = NanosPerSec * a.capacity
    BY <2>2, <2>3, <2>4 DEF Worth
  <2>6. StateBooks(s, NothingCharged, a, time, entitled)
    BY <2>2, <2>3, <2>4, <2>5, Widths DEF StateBooks, PoolBooks, NothingCharged
  <2> QED
    BY <2>6 DEF s
<1> QED
  BY <1>1, <1>2

\* A window's answer: a grant is charged and fits the maximum.
LEMMA WindowReserveBooks ==
  ASSUME NEW s \in FixedWindowState, NEW account \in Account, NEW max \in U32,
         NEW window \in Duration \ {0}, NEW cost \in Cost, NEW time \in Duration,
         time < DurationMax, WindowBooks(s, account)
  PROVE  LET answer == FixedWindowTryReserve(s, max, window, cost, time)
             after == Charged(account, answer.state.window_start, cost) IN
         /\ answer.reason = "Granted" =>
              WindowBooks(answer.state, after) /\ after.units <= max
         /\ answer.reason # "Granted" => WindowBooks(answer.state, account)
<1> DEFINE answer == FixedWindowTryReserve(s, max, window, cost, time)
           t == MaybeResetWindow(s, time, window)
           after == Charged(account, answer.state.window_start, cost)
<1>1. /\ answer.reason = "Granted" =>
           /\ Used(t) + cost <= max
           /\ answer.state.spent = t.spent
           /\ answer.state.reserved = t.reserved + cost
           /\ answer.state.window_start = t.window_start
      /\ answer.reason # "Granted" => answer.state = t
  BY FixedWindowTryReserveUse
<1>2. /\ t \in FixedWindowState
      /\ t = s \/ (t.spent = 0 /\ t.reserved = 0 /\ s.window_start < t.window_start)
  BY MaybeResetWindowUse
<1>3. after.window = answer.state.window_start
      /\ after.units = cost + IF account.window = answer.state.window_start
                              THEN account.units ELSE 0
  BY DEF Charged
<1> HIDE DEF answer, t, after
<1>4. /\ t.spent \in Nat /\ t.reserved \in Nat /\ t.window_start \in Nat
      /\ s.spent \in Nat /\ s.reserved \in Nat /\ s.window_start \in Nat
      /\ account.units \in Nat /\ account.window \in Nat
      /\ cost \in Nat /\ max \in Nat /\ max <= U32Max /\ U32Max \in Nat
  BY <1>2, Widths DEF FixedWindowState, U32, Cost, Account, Duration
<1>5. WindowBooks(t, account)
  BY <1>2, <1>4 DEF WindowBooks, Used
<1>6. ASSUME answer.reason = "Granted"
      PROVE  WindowBooks(answer.state, after) /\ after.units <= max
  <2>1. after.units = Used(t) + cost
    BY <1>1, <1>3, <1>4, <1>5, <1>6 DEF WindowBooks, Used
  <2>2. Used(answer.state) = Used(t) + cost /\ Used(t) + cost <= max
    BY <1>1, <1>4, <1>6 DEF Used
  <2> QED
    BY <1>3, <1>4, <2>1, <2>2 DEF WindowBooks
<1>7. answer.reason # "Granted" => WindowBooks(answer.state, account)
  BY <1>1, <1>5
<1> QED
  BY <1>6, <1>7 DEF answer, after

\* A pool's answer: a grant is charged to what the pool is worth.
LEMMA PoolReserveBooks ==
  ASSUME NEW s \in TokenBucketState, NEW account \in Account, NEW capacity \in U64,
         NEW r \in U64, NEW rate \in U64, r <= rate, NEW cost \in Cost,
         NEW time \in Duration, NEW entitled \in Nat,
         PoolBooks(s, account, rate, time, entitled)
  PROVE  LET answer == TokenTryReserve(s, capacity, r, cost, time) IN
         /\ answer.reason = "Granted" =>
              PoolBooks(answer.state, Charged(account, 0, cost), rate, time, entitled)
         /\ answer.reason # "Granted" =>
              PoolBooks(answer.state, account, rate, time, entitled)
<1> DEFINE answer == TokenTryReserve(s, capacity, r, cost, time)
           after == Charged(account, 0, cost)
<1>1. /\ answer.state.last_update <= time
      /\ answer.reason = "Granted" =>
           Worth(answer.state, rate, time) + NanosPerSec * cost <= Worth(s, rate, time)
      /\ answer.reason # "Granted" => Worth(answer.state, rate, time) <= Worth(s, rate, time)
  BY TokenTryReserveWorth DEF PoolBooks
<1>2. answer.state \in TokenBucketState
  BY TokenTryReserveEffect DEF Answers
<1> HIDE DEF answer
<1>3. Worth(answer.state, rate, time) \in Nat /\ Worth(s, rate, time) \in Nat
  BY <1>1, <1>2, WorthType DEF PoolBooks
<1>4. account.window = 0 /\ Worth(s, rate, time) + NanosPerSec * account.units <= entitled
  BY DEF PoolBooks
<1>5. /\ account.units \in Nat /\ cost \in Nat /\ NanosPerSec \in Nat
      /\ after.window = 0 /\ after.units = cost + account.units
  BY <1>4, Widths DEF Account, Cost, Charged
<1> HIDE DEF after
<1>6. /\ NanosPerSec * account.units \in Nat /\ NanosPerSec * cost \in Nat
      /\ NanosPerSec * after.units = NanosPerSec * cost + NanosPerSec * account.units
  BY <1>5
<1>7. /\ answer.reason = "Granted" => PoolBooks(answer.state, after, rate, time, entitled)
      /\ answer.reason # "Granted" => PoolBooks(answer.state, account, rate, time, entitled)
  BY <1>1, <1>3, <1>4, <1>5, <1>6 DEF PoolBooks
<1> QED
  BY <1>7 DEF answer, after

\* try_reserve keeps the books under the limits in force.
LEMMA ReserveBooks ==
  ASSUME NEW b \in Bucket, NEW a \in AlgorithmConfig, NEW e \in AlgorithmConfig,
         Lowers(e, a), b.state.algo = a.kind, NEW cost \in Cost, NEW time \in Duration,
         ClockShortOfMax => time < DurationMax, NEW entitled \in Nat, NEW account \in Account,
         StateBooks(b.state, account, a, time, entitled)
  PROVE  LET answer == TryReserve(b, e, cost, time)
             after == Charged(account, WindowOf(answer.bucket.state), cost) IN
         /\ answer.reason = "Granted" =>
              /\ StateBooks(answer.bucket.state, after, a, time, entitled)
              /\ a.kind = "FixedWindow" /\ ClockShortOfMax => after.units <= e.max_per_window
         /\ answer.reason # "Granted" =>
              StateBooks(answer.bucket.state, account, a, time, entitled)
<1> DEFINE answer == TryReserve(b, e, cost, time)
           of_state == StateTryReserve(b.state, e, cost, time)
           after == Charged(account, WindowOf(answer.bucket.state), cost)
           s == answer.bucket.state
<1>1. \/ answer.reason = "BlockedUntil" /\ s = b.state
      \/ answer.reason = of_state.reason /\ s = of_state.state
  BY TryReserveShape
<1>2. b.state \in BucketState /\ e.kind = a.kind
  BY DEF Bucket, BucketState, Lowers
<1>3. CASE answer.reason = "BlockedUntil" /\ s = b.state
  BY <1>3
<1>4. CASE answer.reason = of_state.reason /\ s = of_state.state
  <2>1. CASE a.kind = "FixedWindow"
    <3> DEFINE reserved ==
          FixedWindowTryReserve(b.state, e.max_per_window, e.window, cost, time)
    <3>1. /\ b.state \in FixedWindowState
          /\ e.max_per_window \in U32 /\ e.window \in Duration \ {0}
      BY <1>2, <2>1, StateKind, AlgorithmKind
    <3>2. of_state = reserved
      BY <1>2, <2>1 DEF StateTryReserve
    <3>3. reserved.state.algo = "FixedWindow"
      BY <3>1, FixedWindowTryReserveEffect DEF Answers, FixedWindowState
    <3>4. ASSUME ClockShortOfMax
          PROVE  /\ reserved.reason = "Granted" =>
                      /\ WindowBooks(reserved.state,
                           Charged(account, reserved.state.window_start, cost))
                      /\ Charged(account, reserved.state.window_start, cost).units
                           <= e.max_per_window
                 /\ reserved.reason # "Granted" => WindowBooks(reserved.state, account)
      <4>1. time < DurationMax /\ WindowBooks(b.state, account)
        BY <2>1, <3>4 DEF StateBooks
      <4> HIDE DEF reserved
      <4> QED
        BY <3>1, <4>1, WindowReserveBooks DEF reserved
    <3> HIDE DEF reserved, of_state, answer
    <3>5. WindowOf(s) = reserved.state.window_start
      BY <1>4, <3>2, <3>3 DEF WindowOf
    <3> QED
      BY <1>4, <2>1, <3>2, <3>3, <3>4, <3>5 DEF StateBooks, answer
  <2>2. CASE a.kind # "FixedWindow"
    <3> DEFINE reserved ==
          TokenTryReserve(b.state, e.capacity, e.refill_per_sec, cost, time)
    <3>1. /\ b.state \in TokenBucketState /\ a.refill_per_sec \in U64
          /\ e.capacity \in U64 /\ e.refill_per_sec \in U64
          /\ e.refill_per_sec <= a.refill_per_sec
      BY <1>2, <2>2, StateKind, AlgorithmKind DEF Lowers
    <3>2. of_state = reserved
      BY <1>2, <2>2 DEF StateTryReserve
    <3>3. reserved.state.algo # "FixedWindow"
      BY <3>1, TokenTryReserveEffect DEF Answers, TokenBucketState
    <3>4. PoolBooks(b.state, account, a.refill_per_sec, time, entitled)
      BY <2>2 DEF StateBooks
    <3> HIDE DEF reserved
    <3>5. /\ reserved.reason = "Granted" =>
               PoolBooks(reserved.state, Charged(account, 0, cost), a.refill_per_sec,
                         time, entitled)
          /\ reserved.reason # "Granted" =>
               PoolBooks(reserved.state, account, a.refill_per_sec, time, entitled)
      BY <3>1, <3>4, PoolReserveBooks DEF reserved
    <3> HIDE DEF of_state, answer
    <3>6. WindowOf(s) = 0
      BY <1>4, <3>2, <3>3 DEF WindowOf
    <3> QED
      BY <1>4, <2>2, <3>2, <3>3, <3>5, <3>6 DEF StateBooks, answer
  <2> QED
    BY <2>1, <2>2
<1> QED
  BY <1>1, <1>3, <1>4

(***************************************************************************)
(* Finalization: what was sent stays charged, what was not is given back.  *)
(***************************************************************************)
GivesBack(s, after, p, sent, account, a, time, entitled) ==
  StateBooks(s, account, a, time, entitled) =>
    StateBooks(after, IF sent THEN account ELSE Released(account, p), a, time, entitled)

LEMMA FinalizeBooks ==
  ASSUME NEW s \in BucketState, NEW a \in AlgorithmConfig, NEW p \in Permit,
         NEW sent \in BOOLEAN, NEW time \in Duration, StillKnows(s, p, a),
         NEW entitled \in Nat, NEW account \in Account, account.window = p.window_start
  PROVE  /\ GivesBack(s, FinalizeState(s, p, sent, a, time), p, sent, account, a, time, entitled)
         /\ GivesBack(s, RefundState(s, p, a, time), p, FALSE, account, a, time, entitled)
<1> DEFINE back == Released(account, p)
<1>1. p.cost \in Cost /\ p.cost <= Outstanding(s) /\ a.kind = s.algo /\ p.algo = s.algo
  BY DEF StillKnows
<1>2. back.window = account.window /\ back.units = account.units - p.cost
  BY DEF Released, Account
<1>3. account.units \in Nat /\ p.cost \in Nat /\ NanosPerSec \in Nat
  BY <1>1, Widths DEF Account, Cost
<1> HIDE DEF back
<1>4. CASE s.algo = "FixedWindow"
  <2>1. s \in FixedWindowState /\ p.cost <= s.reserved /\ p.window_start = s.window_start
    BY <1>1, <1>4, StateKind DEF StillKnows
  <2>2. s.reserved # 0 /\ a.window \in Duration \ {0}
    BY <1>1, <1>4, <2>1, AlgorithmKind, Widths DEF Cost, FixedWindowState, U32
  <2>3. MaybeResetWindow(s, time, a.window) = s
    BY <2>1, <2>2, MaybeResetWindowEffect
  <2> DEFINE committed == FixedWindowCommit(s, p.cost, sent)
             refunded == FixedWindowRefund(s, p.cost)
  <2>4. /\ FinalizeState(s, p, sent, a, time) = committed
        /\ RefundState(s, p, a, time) = refunded
    BY <1>1, <1>4, <2>1, <2>3 DEF FinalizeState, RefundState
  <2>5. /\ committed \in FixedWindowState /\ committed.window_start = s.window_start
        /\ refunded \in FixedWindowState /\ refunded.window_start = s.window_start
    BY <1>1, <2>1, FixedWindowFinalizeEffect
  <2>6. Used(s) <= U32Max =>
          /\ Used(committed) = IF sent THEN Used(s) ELSE Used(s) - p.cost
          /\ Used(refunded) = Used(s) - p.cost
    BY <1>1, <2>1, FixedWindowFinalizeUse
  <2> HIDE DEF committed, refunded
  <2>7. Used(s) \in Nat /\ U32Max \in Nat
    BY <2>1, Widths DEF Used, FixedWindowState, U32
  <2>8. committed.algo = "FixedWindow" /\ refunded.algo = "FixedWindow"
    BY <2>5 DEF FixedWindowState
  <2>9. WindowBooks(s, account) =>
          /\ WindowBooks(committed, IF sent THEN account ELSE back)
          /\ WindowBooks(refunded, back)
    BY <1>2, <1>3, <2>1, <2>5, <2>6, <2>7 DEF WindowBooks
  <2> QED
    BY <1>4, <2>4, <2>8, <2>9 DEF GivesBack, StateBooks, back
<1>5. CASE s.algo # "FixedWindow"
  <2>1. /\ s \in TokenBucketState /\ a.capacity \in U64 /\ a.refill_per_sec \in U64
    BY <1>1, <1>5, StateKind, AlgorithmKind
  <2> DEFINE rate == a.refill_per_sec
             refunded == TokenRefund(s, a.capacity, p.cost, time, rate)
             committed == TokenCommit(s, p.cost)
  <2>2. /\ FinalizeState(s, p, sent, a, time) = IF sent THEN committed ELSE refunded
        /\ RefundState(s, p, a, time) = refunded
    BY <1>1, <1>5 DEF FinalizeState, RefundState
  <2>3. /\ refunded \in TokenBucketState /\ committed \in TokenBucketState
    BY <1>1, <2>1, TokenFinalizeEffect
  <2>4. s.last_update <= time =>
          /\ committed.last_update <= time
          /\ Worth(committed, rate, time) = Worth(s, rate, time)
          /\ refunded.last_update <= time
          /\ Worth(refunded, rate, time) <= Worth(s, rate, time) + NanosPerSec * p.cost
    BY <1>1, <2>1, TokenFinalizeWorth
  <2>5. refunded.algo # "FixedWindow" /\ committed.algo # "FixedWindow"
    BY <2>3 DEF TokenBucketState
  <2> HIDE DEF committed, refunded, rate
  <2>6. /\ NanosPerSec * account.units \in Nat /\ NanosPerSec * p.cost \in Nat
        /\ NanosPerSec * back.units = NanosPerSec * account.units - NanosPerSec * p.cost
    BY <1>2, <1>3
  <2>7. rate \in U64
    BY <2>1 DEF rate
  <2>8. s.last_update <= time =>
          Worth(s, rate, time) \in Nat /\ (refunded.last_update <= time => Worth(refunded, rate, time) \in Nat)
    BY <2>1, <2>3, <2>7, WorthType
  <2>9. PoolBooks(s, account, rate, time, entitled) =>
          /\ PoolBooks(committed, account, rate, time, entitled)
          /\ PoolBooks(refunded, back, rate, time, entitled)
    BY <1>2, <2>4, <2>6, <2>8 DEF PoolBooks
  <2> QED
    BY <1>5, <2>2, <2>5, <2>9 DEF GivesBack, StateBooks, back, rate
<1> QED
  BY <1>4, <1>5

\* An update within the algorithm: a window is left alone, a pool grows by what is added.
LEMMA UpdateBooks ==
  ASSUME NEW s \in BucketState, NEW old \in AlgorithmConfig, NEW new \in AlgorithmConfig,
         s.algo = old.kind, DisruptiveChange(old, new) = "None", NEW time \in Duration,
         NEW entitled \in Nat, NEW account \in Account,
         StateBooks(s, account, old, time, entitled)
  PROVE  StateBooks(StateOnUpdate(s, old, new, time), account, new, time,
                    entitled + SatSub(FullPool(new), FullPool(old)))
<1> DEFINE after == StateOnUpdate(s, old, new, time)
           more == SatSub(FullPool(new), FullPool(old))
<1>1. /\ old.kind = new.kind
      /\ old.kind = "FixedWindow" => old.window = new.window
  BY DEF DisruptiveChange
<1>2. CASE s.algo = "FixedWindow"
  <2>1. after = s
    BY <1>1, <1>2 DEF StateOnUpdate
  <2> QED
    BY <1>2, <2>1 DEF StateBooks
<1>3. CASE s.algo # "FixedWindow"
  <2>1. /\ s \in TokenBucketState /\ s.algo = "TokenBucket"
        /\ old.kind = "TokenBucket" /\ new.kind = "TokenBucket"
        /\ old.capacity \in U64 /\ old.refill_per_sec \in U64
        /\ new.capacity \in U64 /\ new.refill_per_sec \in U64
    BY <1>1, <1>3, StateKind, AlgorithmKind
  <2> DEFINE added == SatSub(new.capacity, old.capacity)
  <2>2. after = ApplyCapacityChange(Refill(s, old.capacity, old.refill_per_sec, time),
                                    old.capacity, new.capacity)
    BY <2>1 DEF StateOnUpdate
  <2>3. PoolBooks(s, account, old.refill_per_sec, time, entitled)
    BY <1>3 DEF StateBooks
  <2>4. /\ after \in TokenBucketState
        /\ after.last_update = time
        /\ NanosPerSec * after.credits <= Worth(s, old.refill_per_sec, time)
                                           + NanosPerSec * added
    BY <2>1, <2>2, <2>3, TokenResizeWorth DEF PoolBooks
  <2>5. more = NanosPerSec * added
    <3>1. new.capacity \in Nat /\ old.capacity \in Nat /\ NanosPerSec \in Nat \ {0}
      BY <2>1, Widths DEF U64
    <3>2. new.capacity >= old.capacity
            <=> NanosPerSec * new.capacity >= NanosPerSec * old.capacity
      BY <3>1
    <3>3. NanosPerSec * (new.capacity - old.capacity)
            = NanosPerSec * new.capacity - NanosPerSec * old.capacity
      BY <3>1
    <3> QED
      BY <2>1, <3>1, <3>2, <3>3 DEF FullPool, SatSub
  <2>6. Worth(after, new.refill_per_sec, time) = NanosPerSec * after.credits
    BY <2>1, <2>4, WorthNow
  <2>7. after.algo # "FixedWindow" /\ time \in Nat
    BY <2>4, Widths DEF TokenBucketState, Duration
  <2> HIDE DEF after, more, added
  <2>8. /\ Worth(s, old.refill_per_sec, time) \in Nat /\ NanosPerSec * account.units \in Nat
        /\ NanosPerSec * added \in Int
    <3>1. account.units \in Nat /\ added \in Int
      BY <2>1, Widths DEF Account, added, SatSub, U64
    <3> QED
      BY <2>1, <2>3, <3>1, WorthType, Widths DEF PoolBooks
  <2>9. NanosPerSec * after.credits \in Nat
    BY <2>4, Widths DEF TokenBucketState, U64
  <2>10. PoolBooks(after, account, new.refill_per_sec, time, entitled + more)
    BY <2>3, <2>4, <2>5, <2>6, <2>7, <2>8, <2>9 DEF PoolBooks
  <2> QED
    BY <2>7, <2>10 DEF StateBooks, after, more
<1> QED
  BY <1>2, <1>3

\* Time earns a pool what its rate entitles it to, and nothing for a window.
LEMMA TickBooks ==
  ASSUME NEW s \in BucketState, NEW a \in AlgorithmConfig, s.algo = a.kind,
         NEW time \in Duration, NEW later \in Duration, time <= later,
         NEW entitled \in Nat, NEW account \in Account,
         StateBooks(s, account, a, time, entitled)
  PROVE  StateBooks(s, account, a, later,
                    entitled + IF a.kind = "FixedWindow" THEN 0
                               ELSE a.refill_per_sec * (later - time))
<1>1. CASE s.algo = "FixedWindow"
  BY <1>1 DEF StateBooks
<1>2. CASE s.algo # "FixedWindow"
  <2> DEFINE rate == a.refill_per_sec
             earned == rate * (later - time)
  <2>1. s \in TokenBucketState /\ rate \in U64
    BY <1>2, StateKind, AlgorithmKind
  <2>2. PoolBooks(s, account, rate, time, entitled)
    BY <1>2 DEF StateBooks
  <2> HIDE DEF rate
  <2>3. /\ rate \in Nat /\ time \in Nat /\ later \in Nat /\ s.last_update \in Nat
        /\ s.credits \in Nat /\ account.units \in Nat /\ NanosPerSec \in Nat
    BY <2>1, Widths DEF U64, Duration, TokenBucketState, Account
  <2>4. rate * (later - s.last_update) = rate * (time - s.last_update) + earned
    BY <2>3
  <2>5. Worth(s, rate, later) = Worth(s, rate, time) + earned
    <3>1. /\ NanosPerSec * s.credits \in Nat /\ rate * (time - s.last_update) \in Int
          /\ earned \in Int
      BY <2>3
    <3> HIDE DEF earned
    <3> QED
      BY <2>4, <3>1 DEF Worth
  <2>6. NanosPerSec * account.units \in Nat /\ earned \in Int /\ Worth(s, rate, time) \in Nat
    BY <2>1, <2>2, <2>3, WorthType DEF PoolBooks
  <2> HIDE DEF earned
  <2>7. PoolBooks(s, account, rate, later, entitled + earned)
    BY <2>2, <2>3, <2>5, <2>6 DEF PoolBooks
  <2> QED
    BY <1>2, <2>7 DEF StateBooks, rate, earned
<1> QED
  BY <1>1, <1>2
-----------------------------------------------------------------------------
(***************************************************************************)
(* The steps, as far as the history goes.                                  *)
(***************************************************************************)
\* The history only watches: what it does not mention is the limiter's own step.
LEMMA HistoryWatches ==
  /\ HInit => Init
  /\ [HNext]_hvars => [Next]_vars
<1>1. HInit => Init
  BY DEF HInit
<1>2. ASSUME HNext PROVE Next
  BY <1>2 DEF HNext, Next, HTryAcquire, HCommit, HRefund, HApplyFeedback, HUpdateConfig, HTick
<1>3. UNCHANGED hvars => UNCHANGED vars
  BY DEF hvars
<1> QED
  BY <1>1, <1>2, <1>3

\* The bucket of `key` answered c's call.
Acquired(c, key, cost) ==
  LET answer == TryReserve(BucketAt(key), EffectiveAlgorithm, cost, now)
      s == answer.bucket.state
  IN  /\ now >= global_blocked_until
      /\ \E i \in 0..Len(fifo) : HasRoom(key, i) /\ Place(key, i, answer.bucket)
      /\ IF answer.reason = "Granted"
         THEN /\ permits' = [permits EXCEPT ![c] = PermitFor(key, cost, s)]
              /\ charged' = [charged EXCEPT ![key] = Charged(charged[key], WindowOf(s), cost)]
         ELSE UNCHANGED <<permits, charged>>

LEMMA AcquireShape ==
  ASSUME IInv, NEW c \in Callers, NEW route \in Keys, NEW cost \in Costs,
         HTryAcquire(c, route, cost)
  PROVE  /\ cost \in Cost /\ ~Holds(c)
         /\ UNCHANGED <<cfg, now, global_blocked_until, supply, promised>>
         /\ \/ UNCHANGED <<buckets, permits, charged>>
            \/ \E key \in Keys : Acquired(c, key, cost)
<1> DEFINE key == ResolveBucketKey(route_map, route)
           answer == TryReserve(BucketAt(key), EffectiveAlgorithm, cost, now)
           p == PermitFor(key, cost, answer.bucket.state)
<1>1. /\ ~Holds(c)
      /\ \/ GlobalDeny \/ SlowStartDeny(cost) \/ KeyBoundDeny(key, cost)
         \/ BucketAnswer(c, key, cost)
      /\ UNCHANGED <<cfg, now, global_blocked_until, supply, promised>>
      /\ IF Holds(c)' THEN Charge(permits'[c]) ELSE UNCHANGED charged
  BY DEF HTryAcquire, TryAcquire
<1>2. cost \in Cost /\ key \in Keys /\ permits \in PermitTable
  BY LimiterAssumption DEF LimiterAssumption, IInv, TypeOK, ResolveBucketKey, PermitTable
<1> HIDE DEF key
<1>3. CASE GlobalDeny \/ SlowStartDeny(cost) \/ KeyBoundDeny(key, cost)
  <2>1. UNCHANGED <<buckets, permits>>
    BY <1>3 DEF GlobalDeny, SlowStartDeny, KeyBoundDeny
  <2>2. ~Holds(c)'
    BY <1>1, <2>1 DEF Holds
  <2> QED
    BY <1>1, <1>2, <2>1, <2>2
<1>4. CASE BucketAnswer(c, key, cost)
  <2>1. /\ now >= global_blocked_until
        /\ \E i \in 0..Len(fifo) : HasRoom(key, i) /\ Place(key, i, answer.bucket)
        /\ permits' = IF answer.reason = "Granted" THEN [permits EXCEPT ![c] = p] ELSE permits
    BY <1>4 DEF BucketAnswer
  <2>2. p.key = key /\ p.cost = cost /\ p.window_start = WindowOf(answer.bucket.state)
    BY DEF PermitFor, WindowOf
  <2> HIDE DEF p, answer
  <2>3. CASE answer.reason = "Granted"
    <3>1. permits'[c] = p
      BY <1>2, <2>1, <2>3 DEF PermitTable
    <3>2. Holds(c)'
      BY <1>2, <2>2, <3>1, NoPermitIsNone DEF Holds
    <3>3. charged' = [charged EXCEPT ![key] =
                        Charged(charged[key], WindowOf(answer.bucket.state), cost)]
      BY <1>1, <2>2, <3>1, <3>2 DEF Charge, Charged
    <3>4. Acquired(c, key, cost)
      BY <2>1, <2>3, <3>3 DEF Acquired, answer, p
    <3> QED
      BY <1>1, <1>2, <3>4
  <2>4. CASE answer.reason # "Granted"
    <3>1. UNCHANGED permits /\ ~Holds(c)'
      BY <1>1, <2>1, <2>4 DEF Holds
    <3>2. Acquired(c, key, cost)
      BY <1>1, <2>1, <2>4, <3>1 DEF Acquired, answer
    <3> QED
      BY <1>1, <1>2, <3>2
  <2> QED
    BY <2>3, <2>4
<1> QED
  BY <1>1, <1>3, <1>4

\* c's permit was finalized and left its bucket as b; `sent` capacity stays charged.
Finished(c, b, sent) ==
  LET p == permits[c] IN
  /\ buckets' = [buckets EXCEPT ![p.key] = b]
  /\ permits' = [permits EXCEPT ![c] = NoPermit]
  /\ charged' = IF sent THEN charged
                ELSE [charged EXCEPT ![p.key] = Released(charged[p.key], p)]
  /\ UNCHANGED <<cfg, now, supply>>

\* Both ways to finalize, and what they make of the bucket.
LEMMA FinishShape ==
  ASSUME IInv, NEW c \in Callers
  PROVE  LET p == permits[c] IN
         /\ \A outcome \in Outcome : HCommit(c, outcome) =>
              Finished(c, BucketCommit(buckets[p.key], p, outcome.kind # "NotSent",
                                       KeyBlock(outcome), cfg.algorithm, now),
                       outcome.kind # "NotSent")
         /\ HRefund(c) =>
              Finished(c, BucketRefund(buckets[p.key], p, cfg.algorithm, now), FALSE)
<1> DEFINE p == permits[c]
<1>1. ASSUME Holds(c), NEW b, Finalized(c, b), UNCHANGED supply
      PROVE  /\ buckets' = [buckets EXCEPT ![p.key] = b]
             /\ permits' = [permits EXCEPT ![c] = NoPermit]
             /\ UNCHANGED <<cfg, now, supply>>
  BY <1>1, HeldBucketKnows DEF Finalized
<1>2. Release(p) = (charged' = [charged EXCEPT ![p.key] = Released(charged[p.key], p)])
  BY DEF Release, Released
<1>3. ASSUME NEW outcome \in Outcome, HCommit(c, outcome)
      PROVE  Finished(c, BucketCommit(buckets[p.key], p, outcome.kind # "NotSent",
                                      KeyBlock(outcome), cfg.algorithm, now),
                      outcome.kind # "NotSent")
  <2> DEFINE b == BucketCommit(buckets[p.key], p, outcome.kind # "NotSent",
                               KeyBlock(outcome), cfg.algorithm, now)
  <2>1. Holds(c) /\ Finalized(c, b) /\ UNCHANGED supply
        /\ IF outcome.kind = "NotSent" THEN Release(p) ELSE UNCHANGED charged
    BY <1>3 DEF HCommit, Commit, KeyBlock, OutcomeUntil
  <2> HIDE DEF b
  <2>2. /\ buckets' = [buckets EXCEPT ![p.key] = b]
        /\ permits' = [permits EXCEPT ![c] = NoPermit]
        /\ UNCHANGED <<cfg, now, supply>>
    BY <1>1, <2>1
  <2>3. Finished(c, b, outcome.kind # "NotSent")
    BY <1>2, <2>1, <2>2 DEF Finished
  <2> QED
    BY <2>3 DEF b
<1>4. ASSUME HRefund(c)
      PROVE  Finished(c, BucketRefund(buckets[p.key], p, cfg.algorithm, now), FALSE)
  <2> DEFINE b == BucketRefund(buckets[p.key], p, cfg.algorithm, now)
  <2>1. Holds(c) /\ Finalized(c, b) /\ UNCHANGED supply /\ Release(p)
    BY <1>4 DEF HRefund, Refund
  <2> HIDE DEF b
  <2>2. Finished(c, b, FALSE)
    BY <1>1, <1>2, <2>1 DEF Finished
  <2> QED
    BY <2>2 DEF b
<1> QED
  BY <1>3, <1>4
-----------------------------------------------------------------------------
(***************************************************************************)
(* The accounts are well formed and cover the open permits.                *)
(***************************************************************************)
\* The open permits of a key all belong to one window.
PermitsShareWindow ==
  \A c, d \in Callers :
    permits[c].key \in Keys /\ permits[c].key = permits[d].key
      => permits[c].window_start = permits[d].window_start

LEMMA HeldShareWindow == IInv /\ PoolPermitsBearNoWindow => PermitsShareWindow
<1> SUFFICES ASSUME IInv, PoolPermitsBearNoWindow, NEW c \in Callers, NEW d \in Callers,
                    permits[c].key \in Keys, permits[c].key = permits[d].key
             PROVE  permits[c].window_start = permits[d].window_start
  BY DEF PermitsShareWindow
<1>1. Holds(c) /\ Holds(d) /\ permits[c] \in Permit
  BY HoldsIffKey DEF IInv
<1>2. /\ permits[c].algo = permits[d].algo
      /\ permits[c].algo \in {"FixedWindow", "TokenBucket"}
  BY <1>1 DEF IInv, PermitsFinalizable, Permit
<1>3. CASE permits[c].algo = "FixedWindow"
  BY <1>1, <1>2, <1>3 DEF IInv, PermitsFinalizable
<1>4. CASE permits[c].algo = "TokenBucket"
  BY <1>2, <1>4 DEF PoolPermitsBearNoWindow
<1> QED
  BY <1>2, <1>3, <1>4

\* A key whose permits and account are left alone keeps its account in order.
LEMMA AccountUntouched ==
  ASSUME NEW k \in Keys, HeldAreCharged(k), charged'[k] = charged[k],
         \A c \in Callers :
           permits[c].key = k \/ permits'[c].key = k => permits'[c] = permits[c]
  PROVE  HeldAreCharged(k)'
<1>1. UnitsOf(permits', k) = UnitsOf(permits, k)
  BY DEF UnitsOf
<1> QED
  BY <1>1 DEF HeldAreCharged

LEMMA ChargedType ==
  ASSUME NEW account \in Account, NEW window \in Duration, NEW cost \in Cost
  PROVE  Charged(account, window, cost) \in Account
<1>1. cost \in Nat /\ account.units \in Nat
  BY Widths DEF Cost, Account
<1> QED
  BY <1>1 DEF Charged, Account

\* A grant adds its cost to the account; a new window starts the account anew.
LEMMA AcquiredHInv ==
  ASSUME HInv, IInv', NEW c \in Callers, NEW key \in Keys, NEW cost \in Cost, ~Holds(c),
         Acquired(c, key, cost), UNCHANGED <<cfg, now, supply, promised>>
  PROVE  HInv'
<1> DEFINE answer == TryReserve(BucketAt(key), EffectiveAlgorithm, cost, now)
           s == answer.bucket.state
           p == PermitFor(key, cost, s)
           after == Charged(charged[key], WindowOf(s), cost)
<1>1. /\ IF answer.reason = "Granted"
         THEN /\ permits' = [permits EXCEPT ![c] = p]
              /\ charged' = [charged EXCEPT ![key] = after]
         ELSE UNCHANGED <<permits, charged>>
      /\ permits \in PermitTable /\ permits' \in PermitTable
      /\ charged \in [Keys -> Account]
  BY DEF Acquired, HInv, IInv, TypeOK, PermitTable
<1>2. p.key = key /\ p.cost = cost /\ p.window_start = WindowOf(s) /\ p.algo = s.algo
  BY DEF PermitFor, WindowOf
<1> HIDE DEF answer, p
<1>3. CASE answer.reason # "Granted"
  BY <1>1, <1>3 DEF HInv, PoolPermitsBearNoWindow, HeldAreCharged
<1>4. CASE answer.reason = "Granted"
  <2>1. /\ permits[c] = NoPermit /\ permits'[c] = p
        /\ \A d \in Callers : d # c => permits'[d] = permits[d]
    BY <1>1, <1>4 DEF PermitTable, Holds
  <2>2. p \in Permit
    BY <1>1, <1>2, <2>1, NoPermitIsNone DEF PermitTable
  <2>3. WindowOf(s) \in Duration
    BY <1>2, <2>2 DEF Permit
  <2>4. after \in Account
    BY <1>1, <2>3, ChargedType
  <2>5. charged' \in [Keys -> Account] /\ charged'[key] = after
        /\ \A k \in Keys : k # key => charged'[k] = charged[k]
    BY <1>1, <1>4, <2>4
  <2>6. PoolPermitsBearNoWindow'
    BY <1>2, <2>1 DEF HInv, PoolPermitsBearNoWindow, WindowOf
  <2>7. \A d \in Callers : permits'[d].key = key => permits'[d].window_start = WindowOf(s)
    <3>1. (IInv /\ PoolPermitsBearNoWindow => PermitsShareWindow)'
      BY HeldShareWindow, PTL
    <3>2. PermitsShareWindow'
      BY <2>6, <3>1
    <3> QED
      BY <1>2, <2>1, <3>2 DEF PermitsShareWindow
  <2>8. HeldAreCharged(key)'
    <3> DEFINE old == Cardinality(UnitsOf(permits, key))
    <3>1. Cardinality(UnitsOf(permits', key)) = old + cost
      BY <1>1, <1>2, <1>4, <2>1, <2>2, UnitsOfGrant
    <3>2. after.window = WindowOf(s)
          /\ after.units = cost + IF charged[key].window = WindowOf(s)
                                  THEN charged[key].units ELSE 0
      BY DEF Charged
    <3>3. old \in Nat /\ cost \in Nat /\ charged[key].units \in Nat
      BY <1>1, UnitsFit, Widths DEF Cost, Account
    <3>4. old <= charged[key].units
      BY DEF HInv, HeldAreCharged
    <3>5. charged[key].window # WindowOf(s) => old = 0
      <4> SUFFICES ASSUME charged[key].window # WindowOf(s), NEW d \in Callers,
                          permits[d].key = key
                   PROVE  FALSE
        BY NoPermitNoUnits
      <4>1. d # c
        BY <2>1, NoPermitIsNone
      <4>2. permits'[d] = permits[d] /\ permits[d].window_start = charged[key].window
        BY <2>1, <4>1 DEF HInv, HeldAreCharged
      <4> QED
        BY <2>7, <4>2
    <3> HIDE DEF old, after
    <3>6. old + cost <= after.units
      BY <3>2, <3>3, <3>4, <3>5
    <3> QED
      BY <2>5, <2>7, <3>1, <3>2, <3>6 DEF HeldAreCharged
  <2>9. ASSUME NEW k \in Keys, k # key PROVE HeldAreCharged(k)'
    <3>1. \A d \in Callers :
            permits[d].key = k \/ permits'[d].key = k => permits'[d] = permits[d]
      BY <1>2, <2>1, <2>9, NoPermitIsNone
    <3> QED
      BY <2>5, <2>9, <3>1, AccountUntouched DEF HInv
  <2> QED
    BY <2>5, <2>6, <2>8, <2>9 DEF HInv
<1> QED
  BY <1>3, <1>4

\* A finalization takes back what the permit was charged, which the account still covers.
LEMMA FinishedHInv ==
  ASSUME HInv, IInv', NEW c \in Callers, Holds(c), NEW b, NEW sent \in BOOLEAN,
         Finished(c, b, sent), promised' \in [Keys \cup {Everyone} -> Duration]
  PROVE  HInv'
<1> DEFINE p == permits[c]
           back == Released(charged[p.key], p)
<1>1. /\ permits' = [permits EXCEPT ![c] = NoPermit]
      /\ charged' = IF sent THEN charged ELSE [charged EXCEPT ![p.key] = back]
      /\ UNCHANGED <<cfg, now, supply>>
      /\ permits \in PermitTable /\ charged \in [Keys -> Account] /\ p # NoPermit
  BY DEF Finished, HInv, IInv, TypeOK, PermitTable, Holds
<1>2. /\ p \in Permit
      /\ p.cost <= Cardinality(UnitsOf(permits, p.key))
      /\ Cardinality(UnitsOf(permits', p.key)) = Cardinality(UnitsOf(permits, p.key)) - p.cost
  BY <1>1, UnitsOfFinalization
<1>3. /\ permits'[c] = NoPermit
      /\ \A d \in Callers : d # c => permits'[d] = permits[d]
  BY <1>1 DEF PermitTable
<1> DEFINE key == p.key
           old == Cardinality(UnitsOf(permits, key))
<1>4. key \in Keys /\ p.cost \in Nat
  BY <1>2, Widths DEF Permit, Cost
<1>5. /\ old <= charged[key].units
      /\ p.window_start = charged[key].window
      /\ old \in Nat /\ charged[key].units \in Nat
  BY <1>1, <1>4, UnitsFit DEF HInv, HeldAreCharged, Account
<1>6. /\ back.window = charged[key].window
      /\ back.units = charged[key].units - p.cost
      /\ back \in Account
  <2>1. charged[key].units - p.cost \in Nat
    BY <1>2, <1>4, <1>5
  <2> QED
    BY <1>1, <1>4, <1>5, <2>1 DEF Released, Account
<1>7. PoolPermitsBearNoWindow'
  BY <1>3 DEF HInv, PoolPermitsBearNoWindow, NoPermit
<1> HIDE DEF back
<1>8. /\ charged' \in [Keys -> Account]
      /\ charged'[key] = IF sent THEN charged[key] ELSE back
      /\ \A k \in Keys : k # key => charged'[k] = charged[k]
  BY <1>1, <1>4, <1>6
<1>9. ASSUME NEW k \in Keys PROVE HeldAreCharged(k)'
  <2>1. CASE k = key
    <3>1. Cardinality(UnitsOf(permits', key)) <= charged'[key].units
      BY <1>2, <1>4, <1>5, <1>6, <1>8
    <3>2. ASSUME NEW d \in Callers, permits'[d].key = key
          PROVE  permits'[d].window_start = charged'[key].window
      <4>1. d # c
        BY <1>3, <1>4, <3>2, NoPermitIsNone
      <4>2. permits[d].window_start = charged[key].window
        BY <1>3, <1>4, <3>2, <4>1 DEF HInv, HeldAreCharged
      <4> QED
        BY <1>3, <1>6, <1>8, <4>1, <4>2
    <3> QED
      BY <2>1, <3>1, <3>2 DEF HeldAreCharged
  <2>2. CASE k # key
    <3>1. \A d \in Callers :
            permits[d].key = k \/ permits'[d].key = k => permits'[d] = permits[d]
      BY <1>3, <2>2, NoPermitIsNone
    <3> QED
      BY <1>8, <2>2, <3>1, AccountUntouched DEF HInv
  <2> QED
    BY <2>1, <2>2
<1> QED
  BY <1>1, <1>7, <1>8, <1>9 DEF HInv
\* What feedback, an update and the clock leave alone, they leave in order.
LEMMA HInvOfTypes ==
  ASSUME HInv, IInv', UNCHANGED <<permits, charged>>, supply' \in Nat,
         promised' \in [Keys \cup {Everyone} -> Duration], cfg' \in Configs,
         StartedAt <= now', ClockShortOfMax => now' < DurationMax
  PROVE  HInv'
<1>1. \A k \in Keys : HeldAreCharged(k)'
  BY AccountUntouched DEF HInv
<1> QED
  BY <1>1 DEF HInv, PoolPermitsBearNoWindow

LEMMA PromiseType ==
  ASSUME promised \in [Keys \cup {Everyone} -> Duration], NEW who, NEW until \in Duration,
         Promise(who, until)
  PROVE  promised' \in [Keys \cup {Everyone} -> Duration]
<1>1. \A a, b \in Duration : Greater(a, b) \in Duration
  BY DEF Greater
<1> QED
  BY <1>1 DEF Promise

LEMMA HInitInv == HInit => HInv
<1> SUFFICES ASSUME HInit PROVE HInv
  OBVIOUS
<1>1. IInv /\ cfg \in Configs /\ now = StartedAt /\ permits = [c \in Callers |-> NoPermit]
  BY InitInv DEF HInit, Init
<1>2. charged = [k \in Keys |-> NothingCharged] /\ NothingCharged \in Account
  BY Widths DEF HInit, NothingCharged, Account, Duration
<1>3. supply \in Nat
  BY <1>1, FullPoolType DEF HInit, IInv, TypeOK, Config
<1>4. promised \in [Keys \cup {Everyone} -> Duration]
  BY Widths DEF HInit, Duration
<1>5. StartedAt \in Nat
  BY LimiterAssumption, Widths DEF LimiterAssumption, Duration
<1>6. \A k \in Keys : HeldAreCharged(k)
  <2> SUFFICES ASSUME NEW k \in Keys PROVE HeldAreCharged(k)
    OBVIOUS
  <2>1. \A c \in Callers : permits[c].key # k
    BY <1>1, NoPermitIsNone
  <2>2. charged[k].units = 0
    BY <1>2 DEF NothingCharged
  <2> QED
    BY <2>1, <2>2, NoPermitNoUnits DEF HeldAreCharged
<1>7. PoolPermitsBearNoWindow
  BY <1>1 DEF PoolPermitsBearNoWindow, NoPermit
<1> QED
  BY <1>1, <1>2, <1>3, <1>4, <1>5, <1>6, <1>7 DEF HInv, ClockShortOfMax

LEMMA HCommitInv ==
  ASSUME HInv, IInv', NEW c \in Callers, NEW outcome \in Outcome, HCommit(c, outcome)
  PROVE  HInv'
<1> DEFINE p == permits[c]
           sent == outcome.kind # "NotSent"
           b == BucketCommit(buckets[p.key], p, sent, KeyBlock(outcome), cfg.algorithm, now)
<1>1. Finished(c, b, sent) /\ Holds(c)
  BY FinishShape DEF HInv, HCommit, Commit
<1>2. promised' \in [Keys \cup {Everyone} -> Duration]
  <2>1. OutcomeUntil(outcome) \in Duration
    BY OutcomeUntilType DEF HInv, IInv
  <2> QED
    BY <2>1, PromiseType DEF HInv, HCommit, OutcomeUntil
<1>3. sent \in BOOLEAN
  OBVIOUS
<1> HIDE DEF b, sent
<1> QED
  BY <1>1, <1>2, <1>3, FinishedHInv

LEMMA HRefundInv ==
  ASSUME HInv, IInv', NEW c \in Callers, HRefund(c)
  PROVE  HInv'
<1> DEFINE p == permits[c]
           b == BucketRefund(buckets[p.key], p, cfg.algorithm, now)
<1>1. Finished(c, b, FALSE) /\ Holds(c)
  BY FinishShape DEF HInv, HRefund, Refund
<1>2. promised' \in [Keys \cup {Everyone} -> Duration]
  BY DEF HInv, HRefund
<1> HIDE DEF b
<1> QED
  BY <1>1, <1>2, FinishedHInv

LEMMA HApplyFeedbackInv ==
  ASSUME HInv, IInv', NEW route \in Keys, NEW f \in Feedbacks, HApplyFeedback(route, f)
  PROVE  HInv'
<1>1. UNCHANGED <<permits, charged, supply, cfg, now>>
  BY DEF HApplyFeedback, ApplyFeedback
<1>2. promised' \in [Keys \cup {Everyone} -> Duration]
  <2>1. FeedbackUntil(f) \in Duration
    BY FeedbackType DEF HInv, IInv
  <2> QED
    BY <2>1, PromiseType DEF HInv, HApplyFeedback
<1> QED
  BY <1>1, <1>2, HInvOfTypes DEF HInv

\* An update that asks for nothing disruptive goes through.
LEMMA UpdateShape ==
  ASSUME HInv, NEW new \in Configs, HUpdateConfig(new)
  PROVE  /\ Reconfigured(new) /\ DisruptiveChange(cfg.algorithm, new.algorithm) = "None"
         /\ cfg.algorithm \in AlgorithmConfig /\ new.algorithm \in AlgorithmConfig
         /\ supply' = supply + SatSub(FullPool(new.algorithm), FullPool(cfg.algorithm))
         /\ UNCHANGED <<charged, promised>>
<1>1. new \in Config /\ cfg \in Config
  BY LimiterAssumption DEF LimiterAssumption, HInv
<1> QED
  BY <1>1 DEF HUpdateConfig, UpdateConfig, RejectUpdate, UpdateRejected, Config

LEMMA HUpdateConfigInv ==
  ASSUME HInv, IInv', NEW new \in Configs, HUpdateConfig(new)
  PROVE  HInv'
<1>1. /\ cfg' = new /\ UNCHANGED <<permits, charged, now, promised>>
      /\ supply' = supply + SatSub(FullPool(new.algorithm), FullPool(cfg.algorithm))
      /\ cfg.algorithm \in AlgorithmConfig /\ new.algorithm \in AlgorithmConfig
  BY UpdateShape DEF Reconfigured
<1>2. SatSub(FullPool(new.algorithm), FullPool(cfg.algorithm)) \in Nat
  BY <1>1, FullPoolType DEF SatSub
<1> QED
  BY <1>1, <1>2, HInvOfTypes DEF HInv

\* The clock moves on and pools are entitled to what it earns them.
LEMMA TickShape ==
  ASSUME HInv, HTick
  PROVE  /\ now \in Duration /\ now' \in Duration /\ now < now' /\ now' <= MaxTime
         /\ supply' = supply + IF cfg.algorithm.kind = "FixedWindow" THEN 0
                               ELSE cfg.algorithm.refill_per_sec * (now' - now)
         /\ supply' \in Nat
         /\ UNCHANGED <<cfg, buckets, fifo, global_blocked_until, permits, charged, promised>>
<1>1. /\ now' \in (now + 1)..MaxTime
      /\ supply' = supply + IF cfg.algorithm.kind = "FixedWindow" THEN 0
                            ELSE cfg.algorithm.refill_per_sec * (now' - now)
      /\ UNCHANGED <<cfg, buckets, fifo, global_blocked_until, permits, charged, promised>>
  BY DEF HTick, Tick
<1>2. now \in Duration /\ MaxTime \in Duration /\ cfg.algorithm \in AlgorithmConfig
  BY LimiterAssumption DEF LimiterAssumption, HInv, IInv, TypeOK, Config
<1>3. now' \in Duration /\ now < now' /\ now' <= MaxTime /\ now' - now \in Nat
  BY <1>1, <1>2, Widths DEF Duration
<1>4. cfg.algorithm.kind # "FixedWindow" => cfg.algorithm.refill_per_sec * (now' - now) \in Nat
  <2>1. cfg.algorithm.kind # "FixedWindow" => cfg.algorithm.refill_per_sec \in Nat
    BY <1>2, AlgorithmKind, Widths DEF U64
  <2> QED
    BY <1>3, <2>1
<1>5. supply' \in Nat
  BY <1>1, <1>4 DEF HInv
<1> QED
  BY <1>1, <1>2, <1>3, <1>5

LEMMA HTickInv ==
  ASSUME HInv, IInv', HTick
  PROVE  HInv'
<1>1. /\ now \in Duration /\ now' \in Duration /\ now < now' /\ now' <= MaxTime
      /\ supply' \in Nat /\ UNCHANGED <<cfg, permits, charged, promised>>
  BY TickShape
<1>2. MaxTime \in Nat /\ StartedAt \in Nat /\ now \in Nat /\ now' \in Nat
  BY <1>1, LimiterAssumption, Widths DEF LimiterAssumption, Duration
<1>3. StartedAt <= now' /\ (ClockShortOfMax => now' < DurationMax)
  BY <1>1, <1>2, Widths DEF HInv, ClockShortOfMax
<1> QED
  BY <1>1, <1>3, HInvOfTypes DEF HInv

LEMMA HInvStep ==
  ASSUME HInv, IInv', [HNext]_hvars
  PROVE  HInv'
<1>1. ASSUME NEW c \in Callers, NEW route \in Keys, NEW cost \in Costs,
             HTryAcquire(c, route, cost)
      PROVE  HInv'
  <2>1. /\ cost \in Cost /\ ~Holds(c) /\ UNCHANGED <<cfg, now, supply, promised>>
        /\ \/ UNCHANGED <<buckets, permits, charged>>
           \/ \E key \in Keys : Acquired(c, key, cost)
    BY <1>1, AcquireShape DEF HInv
  <2>2. CASE UNCHANGED <<buckets, permits, charged>>
    BY <2>1, <2>2, HInvOfTypes DEF HInv
  <2>3. CASE \E key \in Keys : Acquired(c, key, cost)
    BY <2>1, <2>3, AcquiredHInv
  <2> QED
    BY <2>1, <2>2, <2>3
<1>2. CASE UNCHANGED hvars
  BY <1>2, HInvOfTypes DEF HInv, hvars, vars
<1> QED
  BY <1>1, <1>2, HCommitInv, HRefundInv, HApplyFeedbackInv, HUpdateConfigInv, HTickInv DEF HNext

-----------------------------------------------------------------------------
(***************************************************************************)
(* The books of a limiter that never evicts a key.                         *)
(***************************************************************************)
\* The bucket an operation finds or makes for a key keeps the key's books.
LEMMA BucketAtBooks ==
  ASSUME HInv, BooksInv, NEW key \in Keys
  PROVE  /\ BucketAt(key) \in Bucket /\ BucketAt(key).state.algo = cfg.algorithm.kind
         /\ StateBooks(BucketAt(key).state, charged[key], cfg.algorithm, now, supply)
<1>1. BucketAt(key) \in Bucket /\ BucketAt(key).state.algo = cfg.algorithm.kind
      /\ (Tracked(key) => BucketAt(key) = buckets[key])
  BY InvByKey, BucketAtKey DEF HInv, IInv
<1>2. CASE Tracked(key)
  BY <1>1, <1>2 DEF BooksInv, Books
<1>3. CASE ~Tracked(key)
  <2>1. BucketAt(key).state = NewState(now, cfg.algorithm)
    BY <1>3 DEF BucketAt, NewBucket
  <2>2. charged[key] = NothingCharged
    BY <1>3 DEF BooksInv, Books
  <2>3. cfg.algorithm \in AlgorithmConfig /\ now \in Duration
    BY DEF HInv, IInv, TypeOK, Config
  <2> QED
    BY <1>1, <2>1, <2>2, <2>3, NewStateBooks DEF BooksInv, HInv
<1> QED
  BY <1>2, <1>3

\* The books of a key whose bucket and account a step leaves alone.
LEMMA BooksUntouchedFor ==
  ASSUME NEW k \in Keys, Books(k), buckets'[k] = buckets[k], charged'[k] = charged[k],
         UNCHANGED <<cfg, now, supply>>
  PROVE  Books(k)'
BY DEF Books, Tracked

\* A grant's charge is in the books, and within what slow start leaves of a window.
LEMMA AcquiredBooks ==
  ASSUME NeverEvicts, HInv, BooksInv, NEW c \in Callers, NEW key \in Keys, NEW cost \in Cost,
         ~Holds(c), Acquired(c, key, cost), UNCHANGED <<cfg, now, supply>>
  PROVE  /\ BooksInv'
         /\ Holds(c)' /\ ClockShortOfMax /\ cfg.algorithm.kind = "FixedWindow" =>
              charged'[permits'[c].key].units <= EffectiveAlgorithm.max_per_window
<1> DEFINE b == BucketAt(key)
           answer == TryReserve(b, EffectiveAlgorithm, cost, now)
           s == answer.bucket.state
           after == Charged(charged[key], WindowOf(s), cost)
           p == PermitFor(key, cost, s)
<1>1. /\ \E i \in 0..Len(fifo) : HasRoom(key, i) /\ Place(key, i, answer.bucket)
      /\ IF answer.reason = "Granted"
         THEN /\ permits' = [permits EXCEPT ![c] = p]
              /\ charged' = [charged EXCEPT ![key] = after]
         ELSE UNCHANGED <<permits, charged>>
  BY DEF Acquired
<1>2. buckets' = [buckets EXCEPT ![key] = answer.bucket]
  BY <1>1, PlacedWithoutEviction DEF HInv, IInv
<1>3. /\ b \in Bucket /\ b.state.algo = cfg.algorithm.kind
      /\ StateBooks(b.state, charged[key], cfg.algorithm, now, supply)
  BY BucketAtBooks
<1>4. /\ cfg.algorithm \in AlgorithmConfig /\ EffectiveAlgorithm \in AlgorithmConfig
      /\ Lowers(EffectiveAlgorithm, cfg.algorithm) /\ now \in Duration
      /\ charged \in [Keys -> Account] /\ permits \in PermitTable
      /\ buckets \in [Keys -> Bucket \cup {NoBucket}]
  BY EffectiveLowers, EffectiveAlgorithmType
     DEF HInv, IInv, TypeOK, Config, PermitTable
<1>5. p.key = key
  BY DEF PermitFor
<1> HIDE DEF b, p
<1>6. answer.bucket \in Bucket
  BY <1>3, <1>4, TryReserveEffect
<1>7. /\ answer.reason = "Granted" =>
           /\ StateBooks(s, after, cfg.algorithm, now, supply)
           /\ cfg.algorithm.kind = "FixedWindow" /\ ClockShortOfMax
                => after.units <= EffectiveAlgorithm.max_per_window
      /\ answer.reason # "Granted" =>
           StateBooks(s, charged[key], cfg.algorithm, now, supply)
  BY <1>3, <1>4, ReserveBooks DEF HInv
<1> HIDE DEF answer, after
<1>8. /\ buckets'[key] = answer.bucket /\ buckets'[key] # NoBucket
      /\ \A k \in Keys : k # key => buckets'[k] = buckets[k]
  BY <1>2, <1>4, <1>6, NoBucketIsNone
<1>9. /\ charged'[key] = IF answer.reason = "Granted" THEN after ELSE charged[key]
      /\ \A k \in Keys : k # key => charged'[k] = charged[k]
  BY <1>1, <1>4
<1>10. ASSUME NEW k \in Keys PROVE Books(k)'
  <2>1. CASE k = key
    <3>1. StateBooks(s, charged'[key], cfg.algorithm, now, supply)
      BY <1>7, <1>9
    <3> QED
      BY <1>8, <2>1, <3>1 DEF Books, Tracked
  <2>2. CASE k # key
    BY <1>8, <1>9, <2>2, BooksUntouchedFor DEF BooksInv
  <2> QED
    BY <2>1, <2>2
<1>11. BooksInv'
  BY <1>10 DEF BooksInv
<1>12. ASSUME Holds(c)', ClockShortOfMax, cfg.algorithm.kind = "FixedWindow"
       PROVE  charged'[permits'[c].key].units <= EffectiveAlgorithm.max_per_window
  <2>1. answer.reason = "Granted"
    BY <1>1, <1>12 DEF Holds
  <2>2. permits'[c] = p
    BY <1>1, <1>4, <2>1 DEF PermitTable
  <2> QED
    BY <1>5, <1>7, <1>9, <1>12, <2>1, <2>2
<1> QED
  BY <1>11, <1>12

LEMMA FinishedBooks ==
  ASSUME HInv, BooksInv, NEW c \in Callers, Holds(c), NEW b \in Bucket, NEW sent \in BOOLEAN,
         Finished(c, b, sent),
         GivesBack(buckets[permits[c].key].state, b.state, permits[c], sent,
                   charged[permits[c].key], cfg.algorithm, now, supply)
  PROVE  BooksInv'
<1> DEFINE p == permits[c]
           key == p.key
           after == IF sent THEN charged[key] ELSE Released(charged[key], p)
<1>1. /\ buckets' = [buckets EXCEPT ![key] = b]
      /\ charged' = IF sent THEN charged ELSE [charged EXCEPT ![key] = after]
      /\ UNCHANGED <<cfg, now, supply>>
  BY DEF Finished
<1>2. key \in Keys /\ Tracked(key)
  BY HeldBucketKnows DEF HInv
<1>3. charged \in [Keys -> Account] /\ buckets \in [Keys -> Bucket \cup {NoBucket}]
  BY DEF HInv, IInv, TypeOK
<1>4. StateBooks(b.state, after, cfg.algorithm, now, supply)
  BY <1>2 DEF BooksInv, Books, GivesBack
<1>5. charged'[key] = after
  BY <1>1, <1>2, <1>3
<1> HIDE DEF after, key
<1>6. /\ buckets'[key] = b /\ b # NoBucket
      /\ \A k \in Keys : k # key => buckets'[k] = buckets[k] /\ charged'[k] = charged[k]
  BY <1>1, <1>2, <1>3, NoBucketIsNone
<1>7. ASSUME NEW k \in Keys PROVE Books(k)'
  <2>1. CASE k = key
    BY <1>1, <1>4, <1>5, <1>6, <2>1 DEF Books, Tracked
  <2>2. CASE k # key
    BY <1>1, <1>6, <2>2, BooksUntouchedFor DEF BooksInv
  <2> QED
    BY <2>1, <2>2
<1> QED
  BY <1>1, <1>7 DEF BooksInv

\* Commit and refund, with what the permit's bucket makes of them.
LEMMA FinalizationBooks ==
  ASSUME HInv, BooksInv, NEW c \in Callers, NEW outcome \in Outcome,
         HCommit(c, outcome) \/ HRefund(c)
  PROVE  BooksInv'
<1> DEFINE p == permits[c]
           old == buckets[p.key]
           sent == outcome.kind # "NotSent"
           committed == BucketCommit(old, p, sent, KeyBlock(outcome), cfg.algorithm, now)
           refunded == BucketRefund(old, p, cfg.algorithm, now)
<1>1. /\ Holds(c)
      /\ HCommit(c, outcome) => Finished(c, committed, sent)
      /\ HRefund(c) => Finished(c, refunded, FALSE)
  BY FinishShape DEF HInv, HCommit, Commit, HRefund, Refund
<1>2. /\ old \in Bucket /\ old.state \in BucketState /\ cfg.algorithm \in AlgorithmConfig
      /\ now \in Duration /\ supply \in Nat /\ KeyBlock(outcome) \in Duration
      /\ sent \in BOOLEAN
  BY <1>1, HeldBucket, OutcomeUntilType DEF HInv, IInv, Bucket, BucketState
<1>3. /\ StillKnows(old.state, p, cfg.algorithm) /\ p.key \in Keys /\ p \in Permit
  BY <1>1, HeldBucketKnows, HoldsIffKey DEF HInv, IInv
<1>4. charged[p.key] \in Account /\ charged[p.key].window = p.window_start
  BY <1>3 DEF HInv, HeldAreCharged
<1>5. /\ committed \in Bucket /\ refunded \in Bucket
  BY <1>2, <1>3, FinalizeEffect
<1>6. /\ committed.state = FinalizeState(old.state, p, sent, cfg.algorithm, now)
      /\ refunded.state = RefundState(old.state, p, cfg.algorithm, now)
  <2> DEFINE cleared == ClearExpiredBlock(old, now)
             blocked == ApplyBlockedUntil(cleared, KeyBlock(outcome))
  <2>0. cleared \in Bucket /\ cleared.state = old.state
    BY <1>2, BlockEffect
  <2>1. cleared \in Bucket /\ cleared.state = old.state
        /\ blocked \in Bucket /\ blocked.state = old.state
    <3> HIDE DEF cleared
    <3> QED
      BY <1>2, <2>0, BlockEffect
  <2>2. /\ committed = [blocked EXCEPT !.state =
                          FinalizeState(blocked.state, p, sent, cfg.algorithm, now)]
        /\ refunded = [cleared EXCEPT !.state =
                         RefundState(cleared.state, p, cfg.algorithm, now)]
    BY DEF BucketCommit, BucketRefund
  <2> HIDE DEF cleared, blocked, committed, refunded, old, sent
  <2>3. committed.state = FinalizeState(blocked.state, p, sent, cfg.algorithm, now)
    BY <2>1, <2>2 DEF Bucket
  <2>4. refunded.state = RefundState(cleared.state, p, cfg.algorithm, now)
    BY <2>1, <2>2 DEF Bucket
  <2> QED
    BY <2>1, <2>3, <2>4, Zenon
<1> HIDE DEF committed, refunded, sent
<1>7. /\ GivesBack(old.state, committed.state, p, sent, charged[p.key], cfg.algorithm,
                   now, supply)
      /\ GivesBack(old.state, refunded.state, p, FALSE, charged[p.key], cfg.algorithm,
                   now, supply)
  <2>1. /\ old.state \in BucketState /\ cfg.algorithm \in AlgorithmConfig /\ p \in Permit
        /\ sent \in BOOLEAN /\ now \in Duration /\ StillKnows(old.state, p, cfg.algorithm)
        /\ supply \in Nat /\ charged[p.key] \in Account
        /\ charged[p.key].window = p.window_start
    BY <1>2, <1>3, <1>4
  <2> HIDE DEF old, p
  <2> QED
    BY <1>6, <2>1, FinalizeBooks
<1>8. CASE HCommit(c, outcome)
  <2>1. sent \in BOOLEAN /\ Finished(c, committed, sent) /\ Holds(c)
    BY <1>1, <1>2, <1>8
  <2> QED
    BY <1>5, <1>7, <2>1, FinishedBooks
<1>9. CASE HRefund(c)
  <2>1. FALSE \in BOOLEAN
    OBVIOUS
  <2> QED
    BY <1>1, <1>5, <1>7, <1>9, <2>1, FinishedBooks
<1> QED
  BY <1>8, <1>9

\* Feedback blocks a bucket, or makes one, and charges nothing.
LEMMA FeedbackBooks ==
  ASSUME NeverEvicts, HInv, BooksInv, NEW route \in Keys, NEW f \in Feedbacks,
         HApplyFeedback(route, f)
  PROVE  BooksInv'
<1> DEFINE key == ResolveBucketKey(RemappedBy(route, f.bucket_remap), route)
           until == FeedbackUntil(f)
           b == BucketAt(key)
           blocked == ApplyBlockedUntil(b, until)
<1>1. /\ FeedbackBlocksAll(until) \/ FeedbackBlocksKey(key, until)
      /\ UNCHANGED <<cfg, now, supply, charged>>
  BY DEF HApplyFeedback, ApplyFeedback
<1>2. key \in Keys /\ until \in Duration
  BY FeedbackType DEF HInv, IInv
<1> HIDE DEF key, until
<1>3. CASE UNCHANGED buckets
  BY <1>1, <1>3, BooksUntouchedFor DEF BooksInv
<1>4. CASE \E i \in 0..Len(fifo) : HasRoom(key, i) /\ Place(key, i, blocked)
  <2>1. buckets' = [buckets EXCEPT ![key] = blocked]
    BY <1>2, <1>4, PlacedWithoutEviction DEF HInv, IInv
  <2>2. /\ b \in Bucket
        /\ StateBooks(b.state, charged[key], cfg.algorithm, now, supply)
    BY <1>2, BucketAtBooks
  <2> HIDE DEF b
  <2>3. blocked \in Bucket /\ blocked.state = b.state
    BY <1>2, <2>2, BlockEffect DEF HInv, IInv, TypeOK
  <2> HIDE DEF blocked
  <2>4. /\ buckets'[key] = blocked /\ blocked # NoBucket
        /\ \A k \in Keys : k # key => buckets'[k] = buckets[k]
    BY <1>2, <2>1, <2>3, NoBucketIsNone DEF HInv, IInv, TypeOK
  <2>5. ASSUME NEW k \in Keys PROVE Books(k)'
    <3>1. CASE k = key
      BY <1>1, <2>2, <2>3, <2>4, <3>1 DEF Books, Tracked
    <3>2. CASE k # key
      BY <1>1, <2>4, <3>2, BooksUntouchedFor DEF BooksInv
    <3> QED
      BY <3>1, <3>2
  <2> QED
    BY <1>1, <2>5 DEF BooksInv
<1> QED
  BY <1>1, <1>3, <1>4 DEF FeedbackBlocksAll, FeedbackBlocksKey

LEMMA UpdateConfigBooks ==
  ASSUME HInv, BooksInv, NEW new \in Configs, HUpdateConfig(new)
  PROVE  BooksInv'
<1> DEFINE more == SatSub(FullPool(new.algorithm), FullPool(cfg.algorithm))
<1>1. /\ Reconfigured(new) /\ DisruptiveChange(cfg.algorithm, new.algorithm) = "None"
      /\ cfg.algorithm \in AlgorithmConfig /\ new.algorithm \in AlgorithmConfig
      /\ supply' = supply + more /\ UNCHANGED charged
  BY UpdateShape
<1>2. /\ cfg' = new /\ UNCHANGED now /\ now \in Duration
      /\ \A k \in Keys : buckets'[k] =
           IF Tracked(k) THEN OnUpdate(buckets[k], cfg.algorithm, new.algorithm, now)
           ELSE NoBucket
  BY <1>1 DEF Reconfigured, HInv, IInv, TypeOK
<1>3. FullPool(new.algorithm) <= supply'
  BY <1>1, FullPoolType DEF SatSub, HInv, BooksInv
<1> HIDE DEF more
<1>4. ASSUME NEW k \in Keys PROVE Books(k)'
  <2>1. CASE Tracked(k)
    <3> DEFINE b == buckets[k]
               old == cfg.algorithm
               update == new.algorithm
               after == OnUpdate(b, old, update, now)
    <3>1. b \in Bucket /\ b.state \in BucketState /\ b.state.algo = old.kind
      BY <2>1 DEF HInv, IInv, TypeOK, Tracked, BucketsRunAlgorithm, TrackedKeys, Bucket,
         BucketState
    <3>2. StateBooks(b.state, charged[k], old, now, supply) /\ charged[k] \in Account
      BY <2>1 DEF BooksInv, Books, HInv
    <3>3. buckets'[k] = after
      BY <1>2, <2>1
    <3>4. old.kind = update.kind
      BY <1>1 DEF DisruptiveChange
    <3>5. /\ old \in AlgorithmConfig /\ update \in AlgorithmConfig
          /\ DisruptiveChange(old, update) = "None" /\ supply \in Nat
      BY <1>1 DEF HInv
    <3> HIDE DEF b, old, update
    <3>6. after \in Bucket
      BY <1>2, <3>1, <3>4, <3>5, OnUpdateEffect
    <3>7. after.state = StateOnUpdate(b.state, old, update, now)
      BY <1>2, <3>1, BlockEffect DEF OnUpdate, Bucket
    <3>8. StateBooks(StateOnUpdate(b.state, old, update, now), charged[k], update, now,
                     supply + SatSub(FullPool(update), FullPool(old)))
      BY <1>2, <3>1, <3>2, <3>5, UpdateBooks
    <3> HIDE DEF after
    <3>9. buckets'[k] # NoBucket
      BY <3>3, <3>6, NoBucketIsNone
    <3>10. StateBooks(buckets'[k].state, charged'[k], new.algorithm, now, supply')
      BY <1>1, <3>3, <3>7, <3>8 DEF more, old, update
    <3> QED
      BY <1>2, <3>9, <3>10 DEF Books, Tracked
  <2>2. CASE ~Tracked(k)
    <3>1. buckets'[k] = NoBucket /\ charged[k] = NothingCharged
      BY <1>2, <2>2 DEF BooksInv, Books
    <3> QED
      BY <1>1, <3>1 DEF Books, Tracked
  <2> QED
    BY <2>1, <2>2
<1> QED
  BY <1>2, <1>3, <1>4 DEF BooksInv

LEMMA HTickBooks ==
  ASSUME HInv, BooksInv, HTick
  PROVE  BooksInv'
<1>1. /\ now \in Duration /\ now' \in Duration /\ now < now'
      /\ supply' = supply + IF cfg.algorithm.kind = "FixedWindow" THEN 0
                            ELSE cfg.algorithm.refill_per_sec * (now' - now)
      /\ UNCHANGED <<cfg, buckets, charged>>
  BY TickShape
<1>2. /\ cfg.algorithm \in AlgorithmConfig /\ supply \in Nat /\ now \in Nat /\ now' \in Nat
  BY <1>1, Widths DEF HInv, IInv, TypeOK, Config, Duration
<1>6. now < now'
  BY <1>1, Zenon
<1>3. supply <= supply'
  <2>1. CASE cfg.algorithm.kind = "FixedWindow"
    BY <1>1, <1>2, <2>1
  <2>2. CASE cfg.algorithm.kind # "FixedWindow"
    <3>1. cfg.algorithm.refill_per_sec \in U64
      BY <1>2, <2>2, AlgorithmKind
    <3>2. cfg.algorithm.refill_per_sec \in Nat
      BY <3>1, Widths DEF U64
    <3>0. ASSUME NEW t \in Nat, NEW u \in Nat, t < u PROVE u - t \in Nat
      BY <3>0
    <3>3. now' - now \in Nat
      BY <1>2, <1>6, <3>0
    <3> DEFINE earned == cfg.algorithm.refill_per_sec * (now' - now)
    <3>4. earned \in Nat
      BY <3>2, <3>3
    <3>5. supply' = supply + earned
      BY <1>1, <2>2, Zenon
    <3> HIDE DEF earned
    <3> QED
      BY <1>2, <3>4, <3>5
  <2> QED
    BY <2>1, <2>2
<1>4. FullPool(cfg.algorithm) <= supply'
  <2>1. supply' \in Nat
    BY TickShape
  <2> QED
    BY <1>2, <1>3, <2>1, FullPoolType DEF BooksInv
<1>5. ASSUME NEW k \in Keys PROVE Books(k)'
  <2>1. CASE Tracked(k)
    <3>1. /\ buckets[k].state \in BucketState
          /\ buckets[k].state.algo = cfg.algorithm.kind
          /\ charged[k] \in Account
          /\ StateBooks(buckets[k].state, charged[k], cfg.algorithm, now, supply)
      BY <2>1 DEF HInv, IInv, TypeOK, Tracked, BucketsRunAlgorithm, TrackedKeys, Bucket,
         BucketState, BooksInv, Books
    <3>2. StateBooks(buckets[k].state, charged[k], cfg.algorithm, now', supply')
      BY <1>1, <1>2, <3>1, TickBooks
    <3> QED
      BY <1>1, <2>1, <3>2 DEF Books, Tracked
  <2>2. CASE ~Tracked(k)
    BY <1>1, <2>2 DEF BooksInv, Books, Tracked
  <2> QED
    BY <2>1, <2>2
<1> QED
  BY <1>1, <1>4, <1>5 DEF BooksInv

LEMMA HInitBooks == HInit => BooksInv
<1> SUFFICES ASSUME HInit PROVE BooksInv
  OBVIOUS
<1>1. /\ supply = FullPool(cfg.algorithm) /\ cfg \in Config
      /\ \A k \in Keys : ~Tracked(k) /\ charged[k] = NothingCharged
  BY LimiterAssumption DEF HInit, Init, Tracked, NothingCharged, LimiterAssumption
<1>2. FullPool(cfg.algorithm) \in Nat
  BY <1>1, FullPoolType DEF Config
<1> QED
  BY <1>1, <1>2 DEF BooksInv, Books

LEMMA BooksStep ==
  ASSUME NeverEvicts, HInv, BooksInv, [HNext]_hvars
  PROVE  BooksInv'
<1>1. CASE UNCHANGED <<cfg, now, supply, buckets, charged>>
  BY <1>1, BooksUntouchedFor DEF BooksInv
<1>2. ASSUME NEW c \in Callers, NEW route \in Keys, NEW cost \in Costs,
             HTryAcquire(c, route, cost)
      PROVE  BooksInv'
  BY <1>1, <1>2, AcquireShape, AcquiredBooks DEF HInv
<1>3. ASSUME NEW c \in Callers, HRefund(c) PROVE BooksInv'
  <2>1. [kind |-> "NotSent", scope |-> "None", retry_after |-> 0] \in Outcome
    BY DEF Outcome
  <2> QED
    BY <1>3, <2>1, FinalizationBooks
<1>4. CASE UNCHANGED hvars
  BY <1>1, <1>4 DEF hvars, vars
<1> QED
  BY <1>2, <1>3, <1>4, FinalizationBooks, FeedbackBooks, UpdateConfigBooks, HTickBooks DEF HNext
(***************************************************************************)
(* A pool is never worth less than nothing, so what was drawn from it is   *)
(* within its entitlement; an untracked key has drawn nothing.             *)
(***************************************************************************)
LEMMA BooksBoundRate == HInv /\ BooksInv => RateBound
<1> SUFFICES ASSUME HInv, BooksInv, cfg.algorithm.kind = "TokenBucket", NEW k \in Keys
             PROVE  NanosPerSec * charged[k].units <= supply
  BY DEF RateBound
<1>1. charged[k].units \in Nat /\ supply \in Nat /\ now \in Nat
  BY Widths DEF HInv, IInv, TypeOK, Account, Duration
<1>2. CASE Tracked(k)
  <2> DEFINE s == buckets[k].state
             rate == cfg.algorithm.refill_per_sec
             worth == Worth(s, rate, now)
  <2>1. s \in TokenBucketState
    BY <1>2 DEF HInv, IInv, TypeOK, Tracked, BucketsRunAlgorithm, TrackedKeys, Bucket,
       FixedWindowState
  <2>2. s.last_update <= now /\ worth + NanosPerSec * charged[k].units <= supply
    BY <1>2, <2>1 DEF BooksInv, Books, StateBooks, PoolBooks, TokenBucketState
  <2>3. worth \in Nat
    <3>1. rate \in U64 /\ now \in Duration
      BY AlgorithmKind DEF HInv, IInv, TypeOK, Config
    <3> QED
      BY <2>1, <2>2, <3>1, WorthType
  <2> HIDE DEF worth
  <2>4. NanosPerSec * charged[k].units \in Nat
    BY <1>1, Widths
  <2> QED
    BY <1>1, <2>2, <2>3, <2>4
<1>3. CASE ~Tracked(k)
  BY <1>1, <1>3, Widths DEF BooksInv, Books, NothingCharged
<1> QED
  BY <1>2, <1>3

-----------------------------------------------------------------------------
(***************************************************************************)
(* Budgets: what a grant leaves charged.                                   *)
(***************************************************************************)
\* Only a call of try_acquire grants, and only to its caller.
LEMMA OnlyAcquireGrants ==
  ASSUME IInv, [HNext]_hvars, NEW c \in Callers, Grants(c)
  PROVE  \E route \in Keys, cost \in Costs : HTryAcquire(c, route, cost)
<1>1. ~Holds(c) /\ Holds(c)'
  BY DEF Grants
<1>2. permits'[c] # permits[c] /\ permits[c] = NoPermit
  BY <1>1 DEF Holds
<1>3. permits \in PermitTable
  BY DEF IInv, TypeOK, PermitTable
<1>4. ASSUME NEW d \in Callers, NEW route \in Keys, NEW cost \in Costs,
             HTryAcquire(d, route, cost)
      PROVE  d = c
  BY <1>2, <1>3, <1>4 DEF HTryAcquire, TryAcquire, GlobalDeny, SlowStartDeny, KeyBoundDeny,
     BucketAnswer, PermitTable
<1>5. ASSUME NEW d \in Callers, \/ \E outcome \in Outcome : HCommit(d, outcome)
                                \/ HRefund(d)
      PROVE  FALSE
  <2>1. permits' = [permits EXCEPT ![d] = NoPermit]
    BY <1>5 DEF HCommit, HRefund, Commit, Refund, Finalized
  <2> QED
    BY <1>2, <1>3, <2>1 DEF PermitTable
<1>6. ASSUME \/ \E route \in Keys, f \in Feedbacks : HApplyFeedback(route, f)
             \/ \E new \in Configs : HUpdateConfig(new)
             \/ HTick
             \/ UNCHANGED hvars
      PROVE  FALSE
  <2>1. UNCHANGED permits
    BY <1>6 DEF HApplyFeedback, ApplyFeedback, HUpdateConfig, UpdateConfig, RejectUpdate,
       Reconfigured, HTick, Tick, hvars, vars
  <2> QED
    BY <1>2, <2>1
<1> QED
  BY <1>4, <1>5, <1>6 DEF HNext

\* A grant in a window leaves no more charged than slow start lets the window give.
LEMMA GrantWithinEffective ==
  ASSUME NeverEvicts, ClockShortOfMax, HInv, BooksInv, [HNext]_hvars, NEW c \in Callers,
         Grants(c), cfg.algorithm.kind = "FixedWindow"
  PROVE  charged'[permits'[c].key].units <= EffectiveAlgorithm.max_per_window
<1>1. PICK route \in Keys, cost \in Costs : HTryAcquire(c, route, cost)
  BY OnlyAcquireGrants DEF HInv
<1>2. ~Holds(c) /\ Holds(c)'
  BY DEF Grants
<1>3. ~UNCHANGED permits
  BY <1>2 DEF Holds
<1> QED
  BY <1>1, <1>2, <1>3, AcquireShape, AcquiredBooks DEF HInv

\* The scaled limit never exceeds the straight line to the full one.
LEMMA EffectiveOnRamp ==
  ASSUME NEW max \in Nat, NEW ramp \in Duration, NEW started \in Duration,
         NEW time \in Duration, started <= time
  PROVE  Effective(max, ramp, started, time) * ramp <= max * Lesser(time - started, ramp)
<1> DEFINE elapsed == time - started
           scaled == (max * elapsed) \div ramp
<1>1. ramp \in Nat /\ elapsed \in Nat
  BY Widths DEF Duration
<1>2. Effective(max, ramp, started, time) = IF ramp = 0 \/ elapsed >= ramp THEN max ELSE scaled
  <2>1. SatSub(time, started) = elapsed
    BY Widths DEF SatSub, Duration
  <2> QED
    BY <2>1 DEF Effective
<1> HIDE DEF elapsed
<1>3. CASE ramp = 0
  <2>1. Lesser(elapsed, ramp) = 0
    BY <1>1, <1>3 DEF Lesser
  <2> QED
    BY <1>2, <1>3, <2>1 DEF elapsed
<1>4. CASE ramp # 0 /\ elapsed >= ramp
  <2>1. Lesser(elapsed, ramp) = ramp
    BY <1>1, <1>4 DEF Lesser
  <2>2. max * ramp \in Nat
    BY <1>1
  <2> QED
    BY <1>2, <1>4, <2>1, <2>2 DEF elapsed
<1>5. CASE ramp # 0 /\ elapsed < ramp
  <2>1. Lesser(elapsed, ramp) = elapsed
    BY <1>1, <1>5 DEF Lesser
  <2>2. max * elapsed \in Nat
    BY <1>1
  <2>3. scaled * ramp <= max * elapsed
    BY <1>1, <1>5, <2>2, DivBounds
  <2>4. Effective(max, ramp, started, time) = scaled
    BY <1>1, <1>2, <1>5
  <2> HIDE DEF scaled
  <2> QED
    BY <2>1, <2>3, <2>4 DEF elapsed
<1> QED
  BY <1>1, <1>3, <1>4, <1>5

\* What is charged to the key of a permit is a number.
HeldUnitsCounted == \A c \in Callers : Holds(c) => charged[permits[c].key].units \in Nat

LEMMA HInvCounts == HInv => HeldUnitsCounted
<1> SUFFICES ASSUME HInv, NEW c \in Callers, Holds(c)
             PROVE  charged[permits[c].key].units \in Nat
  BY DEF HeldUnitsCounted
<1>1. permits[c].key \in Keys
  BY HoldsIffKey DEF HInv, IInv
<1> QED
  BY <1>1 DEF HInv, Account

LEMMA GrantCounted ==
  ASSUME HInv', NEW c \in Callers, Grants(c)
  PROVE  charged'[permits'[c].key].units \in Nat
<1>1. (HInv => HeldUnitsCounted)'
  BY HInvCounts, PTL
<1> QED
  BY <1>1 DEF HeldUnitsCounted, Grants

LEMMA GrantWithinWindow ==
  ASSUME NeverEvicts, ClockShortOfMax, HInv, HInv', BooksInv, [HNext]_hvars
  PROVE  WithinWindowBudget
<1> SUFFICES ASSUME NEW c \in Callers, Grants(c), cfg.algorithm.kind = "FixedWindow"
             PROVE  charged'[permits'[c].key].units <= cfg.algorithm.max_per_window
  BY DEF WithinWindowBudget
<1>1. charged'[permits'[c].key].units <= EffectiveAlgorithm.max_per_window
  BY GrantWithinEffective
<1>2. /\ cfg.algorithm.max_per_window \in U32 /\ EffectiveAlgorithm.max_per_window \in U32
      /\ EffectiveAlgorithm.max_per_window <= cfg.algorithm.max_per_window
  BY AlgorithmKind, EffectiveAlgorithmType, EffectiveLowers
     DEF HInv, IInv, TypeOK, Config, Lowers
<1>3. charged'[permits'[c].key].units \in Nat
  BY GrantCounted
<1> QED
  BY <1>1, <1>2, <1>3, Widths DEF U32

LEMMA GrantWithinRamp ==
  ASSUME NeverEvicts, ClockShortOfMax, OnlyWindowsRamp, HInv, HInv', BooksInv, [HNext]_hvars
  PROVE  WithinRampBudget
<1> SUFFICES ASSUME NEW c \in Callers, Grants(c), cfg.slow_start # None
             PROVE  LET ramp == cfg.slow_start
                        elapsed == Lesser(now - StartedAt, ramp)
                        units == charged'[permits'[c].key].units
                        earned == supply - FullPool(cfg.algorithm)
                    IN  NanosPerSec * units * ramp
                          <= NanosPerSec * Limit(cfg.algorithm) * elapsed + earned * ramp
  BY DEF WithinRampBudget
<1> DEFINE ramp == cfg.slow_start
           elapsed == Lesser(now - StartedAt, ramp)
           units == charged'[permits'[c].key].units
           max == cfg.algorithm.max_per_window
           scaled == Ramped(max)
<1>1. cfg.algorithm.kind = "FixedWindow"
  BY DEF HInv, OnlyWindowsRamp
<1>2. /\ ramp \in Duration /\ max \in Nat /\ now \in Duration /\ StartedAt \in Duration
      /\ StartedAt <= now
  BY <1>1, ConfigType, AlgorithmKind, Widths DEF U32, HInv, IInv
<1>3. EffectiveAlgorithm.max_per_window = scaled
  <2>1. cfg.algorithm \in FixedWindowAlgorithm
    BY <1>1 DEF HInv, IInv, TypeOK, Config, AlgorithmConfig, TokenBucketAlgorithm
  <2> QED
    BY <1>1, <2>1 DEF EffectiveAlgorithm, FixedWindowAlgorithm
<1>4. units \in Nat /\ units <= scaled
  BY <1>1, <1>3, GrantCounted, GrantWithinEffective
<1>5. scaled * ramp <= max * elapsed
  BY <1>2, EffectiveOnRamp DEF Ramped
<1>6. scaled \in Nat
  BY <1>2, EffectiveBound DEF Ramped
<1>7. elapsed \in Nat /\ ramp \in Nat
  BY <1>2, Widths DEF Duration, Lesser
<1>8. Limit(cfg.algorithm) = max /\ FullPool(cfg.algorithm) = 0 /\ supply \in Nat
  BY <1>1 DEF Limit, FullPool, HInv
<1> HIDE DEF units, scaled, elapsed, ramp, max
<1>9. units * ramp <= max * elapsed
  <2>1. units * ramp <= scaled * ramp
    BY <1>4, <1>6, <1>7
  <2>2. units * ramp \in Nat /\ scaled * ramp \in Nat /\ max * elapsed \in Nat
    BY <1>2, <1>4, <1>6, <1>7
  <2> QED
    BY <1>5, <2>1, <2>2
<1>10. NanosPerSec * units * ramp <= NanosPerSec * max * elapsed
  <2>1. units * ramp \in Nat /\ max * elapsed \in Nat
    BY <1>2, <1>4, <1>7
  <2>2. NanosPerSec * (units * ramp) <= NanosPerSec * (max * elapsed)
    BY <1>9, <2>1, Widths
  <2>3. /\ NanosPerSec * units * ramp = NanosPerSec * (units * ramp)
        /\ NanosPerSec * max * elapsed = NanosPerSec * (max * elapsed)
    BY <1>2, <1>4, <1>7, Widths
  <2> QED
    BY <2>2, <2>3
<1>11. /\ supply * ramp \in Nat /\ NanosPerSec * units * ramp \in Nat
       /\ NanosPerSec * max * elapsed \in Nat
  BY <1>2, <1>4, <1>7, <1>8, Widths
<1>12. NanosPerSec * units * ramp
         <= NanosPerSec * max * elapsed + (supply - 0) * ramp
  BY <1>8, <1>10, <1>11
<1> QED
  BY <1>8, <1>12 DEF units, elapsed, ramp, max

-----------------------------------------------------------------------------
(***************************************************************************)
(* Backoffs: promises are kept.                                            *)
(***************************************************************************)
\* A step shortens no backoff still running, and makes no room where there was none.
KeepsBlock(k) ==
  /\ Tracked(k) =>
       /\ Tracked(k)'
       /\ buckets[k].blocked_until > now =>
            buckets'[k].blocked_until >= buckets[k].blocked_until
  /\ ~Tracked(k) /\ AtKeyBound => ~Tracked(k)' /\ AtKeyBound'

LEMMA BlockTypes ==
  ASSUME TypeOK, NEW k \in Keys, Tracked(k)
  PROVE  buckets[k] \in Bucket /\ buckets[k].blocked_until \in Nat
<1>1. buckets[k] \in Bucket
  BY DEF TypeOK, Tracked
<1> QED
  BY <1>1, Widths DEF Bucket, Duration

\* An old promise is carried over; a new one is kept if the step saw to it.
LEMMA PromiseStep ==
  ASSUME HInv, HInv', NEW k \in Keys, PromiseKept(k), KeepsBlock(k), now <= now', NEW until,
         \/ promised'[k] = promised[k]
         \/ /\ promised'[k] = Greater(promised[k], until)
            /\ IF Tracked(k)' THEN buckets'[k].blocked_until >= until ELSE AtKeyBound'
  PROVE  PromiseKept(k)'
<1>1. promised[k] \in Nat /\ now \in Nat /\ now' \in Nat
  BY Widths DEF HInv, IInv, TypeOK, Duration
<1>2. Tracked(k) => buckets[k].blocked_until \in Nat
  BY BlockTypes DEF HInv, IInv
<1>3. Tracked(k)' => buckets'[k].blocked_until \in Nat
  <2>1. Tracked(k)' => buckets'[k] \in Bucket
    BY DEF HInv, IInv, TypeOK, Tracked
  <2> QED
    BY <2>1, Widths DEF Bucket, Duration
<1>4. CASE promised'[k] = promised[k]
  BY <1>1, <1>2, <1>3, <1>4 DEF PromiseKept, KeepsBlock
<1>5. CASE promised'[k] # promised[k]
  BY <1>5 DEF PromiseKept, Greater
<1> QED
  BY <1>4, <1>5

\* The key bound is reached for good: no bucket is dropped, and none is made.
LEMMA BoundStays ==
  ASSUME BoundIsFixed, HInv, HInv', AtKeyBound, \A k \in Keys : Tracked(k)' <=> Tracked(k)
  PROVE  AtKeyBound'
<1>1. TrackedKeys' = TrackedKeys
  BY DEF TrackedKeys
<1>2. cfg.max_keys = cfg'.max_keys
  BY DEF BoundIsFixed, HInv
<1> QED
  BY <1>1, <1>2 DEF AtKeyBound

\* Changing one bucket, made only where there is room, keeps the others' blocks.
LEMMA BlocksKept ==
  ASSUME BoundIsFixed, HInv, HInv', NEW key \in Keys, NEW b \in Bucket, ~NeedsRoom(key),
         buckets' = [buckets EXCEPT ![key] = b], UNCHANGED now,
         Tracked(key) /\ buckets[key].blocked_until > now =>
           b.blocked_until >= buckets[key].blocked_until
  PROVE  \A k \in Keys : KeepsBlock(k)
<1>1. /\ buckets'[key] = b /\ b # NoBucket
      /\ \A k \in Keys : k # key => buckets'[k] = buckets[k]
  BY NoBucketIsNone DEF HInv, IInv, TypeOK
<1>2. ASSUME AtKeyBound PROVE AtKeyBound' /\ Tracked(key)
  <2>1. Tracked(key)
    BY <1>2 DEF NeedsRoom
  <2>2. \A k \in Keys : Tracked(k)' <=> Tracked(k)
    BY <1>1, <2>1 DEF Tracked
  <2> QED
    BY <1>2, <2>1, <2>2, BoundStays
<1>3. ASSUME NEW k \in Keys PROVE KeepsBlock(k)
  <2>1. CASE k = key
    BY <1>1, <1>2, <2>1 DEF KeepsBlock, Tracked
  <2>2. CASE k # key
    <3>1. Tracked(k) => buckets[k].blocked_until \in Nat
      BY BlockTypes DEF HInv, IInv
    <3> QED
      BY <1>1, <1>2, <2>2, <3>1 DEF KeepsBlock, Tracked
  <2> QED
    BY <2>1, <2>2
<1> QED
  BY <1>3

\* Promises are kept by a step that blocks what it is asked to block.
LEMMA PromisesStep ==
  ASSUME HInv, HInv', PromisesInv, \A k \in Keys : KeepsBlock(k), now <= now',
         global_blocked_until <= global_blocked_until', NEW who, NEW until \in Duration,
         UNCHANGED promised \/ Promise(who, until),
         who \in Keys => IF Tracked(who)' THEN buckets'[who].blocked_until >= until
                         ELSE AtKeyBound',
         who = Everyone => until <= global_blocked_until'
  PROVE  PromisesInv'
<1>1. promised \in [Keys \cup {Everyone} -> Duration]
  BY DEF HInv
<1>2. \A k \in Keys \cup {Everyone} :
        promised'[k] = promised[k] \/ (k = who /\ promised'[k] = Greater(promised[k], until))
  BY <1>1 DEF Promise
<1>3. ASSUME NEW k \in Keys PROVE PromiseKept(k)'
  BY <1>2, <1>3, PromiseStep DEF PromisesInv
<1>4. promised'[Everyone] > now' => global_blocked_until' >= promised'[Everyone]
  <2>1. /\ promised[Everyone] \in Nat /\ now \in Nat /\ now' \in Nat /\ until \in Nat
        /\ global_blocked_until \in Nat /\ global_blocked_until' \in Nat
    BY <1>1, Widths DEF HInv, IInv, TypeOK, Duration
  <2> QED
    BY <1>2, <2>1 DEF PromisesInv, Greater
<1> QED
  BY <1>3, <1>4 DEF PromisesInv

\* A grant finds no backoff running, and clears only one that has ended.
LEMMA AcquiredPromises ==
  ASSUME NeverEvicts, BoundIsFixed, HInv, HInv', PromisesInv, NEW c \in Callers,
         NEW key \in Keys, NEW cost \in Cost, ~Holds(c), Acquired(c, key, cost),
         UNCHANGED <<cfg, now, global_blocked_until, promised>>
  PROVE  /\ PromisesInv'
         /\ Holds(c)' => now >= promised[permits'[c].key] /\ now >= promised[Everyone]
<1> DEFINE b == BucketAt(key)
           answer == TryReserve(b, EffectiveAlgorithm, cost, now)
           p == PermitFor(key, cost, answer.bucket.state)
<1>1. /\ now >= global_blocked_until
      /\ \E i \in 0..Len(fifo) : HasRoom(key, i) /\ Place(key, i, answer.bucket)
      /\ IF answer.reason = "Granted"
         THEN permits' = [permits EXCEPT ![c] = p] ELSE UNCHANGED permits
  BY DEF Acquired
<1>2. ~NeedsRoom(key) /\ buckets' = [buckets EXCEPT ![key] = answer.bucket]
  BY <1>1, PlacedWithoutEviction DEF HInv, IInv
<1>3. /\ b \in Bucket /\ (Tracked(key) => b = buckets[key])
      /\ EffectiveAlgorithm \in AlgorithmConfig /\ now \in Duration
      /\ permits \in PermitTable
  BY InvByKey, BucketAtKey, EffectiveAlgorithmType
     DEF HInv, IInv, TypeOK, PermitTable
<1> HIDE DEF b
<1>4. /\ answer.bucket \in Bucket
      /\ answer.bucket.blocked_until = IF now >= b.blocked_until THEN 0 ELSE b.blocked_until
      /\ answer.reason = "Granted" => now >= b.blocked_until
  <2>1. answer.bucket \in Bucket
    BY <1>3, TryReserveEffect
  <2> QED
    BY <1>3, <2>1, TryReserveShape
<1>5. p.key = key
  BY DEF PermitFor
<1> HIDE DEF answer, p
<1>6. /\ now \in Nat /\ b.blocked_until \in Nat /\ promised[key] \in Nat
      /\ promised[Everyone] \in Nat /\ global_blocked_until \in Nat
  BY <1>3, Widths DEF HInv, IInv, TypeOK, Bucket, Duration
<1>7. \A k \in Keys : KeepsBlock(k)
  <2>1. UNCHANGED now
    OBVIOUS
  <2>2. Tracked(key) /\ buckets[key].blocked_until > now =>
          answer.bucket.blocked_until >= buckets[key].blocked_until
    BY <1>3, <1>4, <1>6
  <2>3. answer.bucket \in Bucket /\ ~NeedsRoom(key)
        /\ buckets' = [buckets EXCEPT ![key] = answer.bucket]
    BY <1>2, <1>4
  <2> QED
    BY <2>1, <2>2, <2>3, BlocksKept
<1>8. PromisesInv'
  <2>1. \A k \in Keys : PromiseKept(k)'
    BY <1>6, <1>7, PromiseStep DEF PromisesInv
  <2> QED
    BY <2>1 DEF PromisesInv
<1>9. ASSUME Holds(c)'
      PROVE  now >= promised[permits'[c].key] /\ now >= promised[Everyone]
  <2>1. answer.reason = "Granted"
    BY <1>1, <1>9 DEF Holds
  <2>2. permits'[c].key = key
    BY <1>1, <1>3, <1>5, <2>1 DEF PermitTable
  <2>3. now >= promised[key]
    BY <1>2, <1>3, <1>4, <1>6, <2>1 DEF PromisesInv, PromiseKept, NeedsRoom
  <2>4. now >= promised[Everyone]
    BY <1>1, <1>6 DEF PromisesInv
  <2> QED
    BY <2>2, <2>3, <2>4
<1> QED
  BY <1>8, <1>9

\* What a finalization makes of the block of the permit's bucket.
LEMMA FinalizedBlock ==
  ASSUME NEW b \in Bucket, NEW p, NEW sent, NEW until \in Duration, NEW a,
         NEW time \in Duration
  PROVE  LET committed == BucketCommit(b, p, sent, until, a, time)
             refunded == BucketRefund(b, p, a, time) IN
         /\ committed.blocked_until >= until
         /\ b.blocked_until > time =>
              /\ committed.blocked_until >= b.blocked_until
              /\ refunded.blocked_until >= b.blocked_until
<1> DEFINE cleared == ClearExpiredBlock(b, time)
           blocked == ApplyBlockedUntil(cleared, until)
           committed == BucketCommit(b, p, sent, until, a, time)
           refunded == BucketRefund(b, p, a, time)
<1>1. /\ cleared \in Bucket /\ blocked \in Bucket
      /\ cleared.blocked_until = IF time >= b.blocked_until THEN 0 ELSE b.blocked_until
  BY BlockEffect DEF ClearExpiredBlock, Bucket
<1>2. b.blocked_until \in Nat /\ until \in Nat /\ time \in Nat
  BY Widths DEF Bucket, Duration
<1>3. blocked.blocked_until = Greater(cleared.blocked_until, until)
  BY <1>1 DEF ApplyBlockedUntil, Bucket
<1>4. /\ committed.blocked_until = blocked.blocked_until
      /\ refunded.blocked_until = cleared.blocked_until
  BY <1>1 DEF BucketCommit, BucketRefund, Bucket
<1> HIDE DEF cleared, blocked, committed, refunded
<1>5. /\ committed.blocked_until >= until
      /\ b.blocked_until > time =>
           /\ committed.blocked_until >= b.blocked_until
           /\ refunded.blocked_until >= b.blocked_until
  BY <1>1, <1>2, <1>3, <1>4 DEF Greater
<1> QED
  BY <1>5 DEF committed, refunded

\* A permit's bucket is tracked, so the backoff its outcome carries finds it.
LEMMA CommitPromises ==
  ASSUME BoundIsFixed, HInv, HInv', PromisesInv, NEW c \in Callers, NEW outcome \in Outcome,
         HCommit(c, outcome)
  PROVE  PromisesInv'
<1> DEFINE p == permits[c]
           key == p.key
           sent == outcome.kind # "NotSent"
           b == BucketCommit(buckets[key], p, sent, KeyBlock(outcome), cfg.algorithm, now)
           until == OutcomeUntil(outcome)
           who == IF outcome.scope = "Global" THEN Everyone ELSE key
<1>1. Holds(c) /\ Finished(c, b, sent)
  BY FinishShape DEF HInv, HCommit, Commit
<1>2. /\ key \in Keys /\ Tracked(key) /\ StillKnows(buckets[key].state, p, cfg.algorithm)
      /\ buckets[key] \in Bucket /\ cfg.algorithm \in AlgorithmConfig
      /\ now \in Duration /\ until \in Duration /\ KeyBlock(outcome) \in Duration
  BY <1>1, HeldBucketKnows, HeldBucket, OutcomeUntilType DEF HInv, IInv
<1>3. b \in Bucket
  <2>1. sent \in BOOLEAN
    OBVIOUS
  <2> HIDE DEF sent
  <2> QED
    BY <1>2, <2>1, FinalizeEffect
<1>4. /\ b.blocked_until >= KeyBlock(outcome)
      /\ buckets[key].blocked_until > now => b.blocked_until >= buckets[key].blocked_until
  BY <1>2, FinalizedBlock
<1>5. /\ buckets' = [buckets EXCEPT ![key] = b] /\ UNCHANGED now
      /\ IF outcome.kind = "RateLimitedFeedback" THEN Promise(who, until)
         ELSE UNCHANGED promised
      /\ global_blocked_until' = IF outcome.scope = "Global"
                                 THEN Greater(global_blocked_until, until)
                                 ELSE global_blocked_until
  BY <1>1 DEF Finished, HCommit, Commit, OutcomeUntil
<1>6. outcome.kind = "RateLimitedFeedback" => outcome.scope \in {"Global", "Key"}
  BY DEF Outcome
<1>7. outcome.scope = "Key" => KeyBlock(outcome) = until
  BY DEF KeyBlock
<1> HIDE DEF b, until, sent, key
<1>8. ~NeedsRoom(key)
  BY <1>2 DEF NeedsRoom
<1>9. \A k \in Keys : KeepsBlock(k)
  <2>1. buckets' = [buckets EXCEPT ![key] = b] /\ UNCHANGED now
    BY <1>5
  <2>2. Tracked(key) /\ buckets[key].blocked_until > now =>
          b.blocked_until >= buckets[key].blocked_until
    BY <1>4
  <2>3. key \in Keys
    BY <1>2
  <2> QED
    BY <1>3, <1>8, <2>1, <2>2, <2>3, BlocksKept
<1>10. now' = now /\ now <= now' /\ global_blocked_until <= global_blocked_until'
       /\ (outcome.scope = "Global" => until <= global_blocked_until')
  BY <1>2, <1>5, Widths DEF HInv, IInv, TypeOK, Duration, Greater
<1>11. buckets'[key] = b /\ buckets'[key] # NoBucket
  BY <1>2, <1>3, <1>5, NoBucketIsNone DEF HInv, IInv, TypeOK
<1>12. CASE outcome.kind = "RateLimitedFeedback"
  <2>1. CASE outcome.scope = "Global"
    <3>1. Promise(Everyone, until) /\ Everyone \notin Keys
      BY <1>5, <1>12, <2>1, EveryoneAssumption
    <3> QED
      BY <1>2, <1>9, <1>10, <2>1, <3>1, PromisesStep
  <2>2. CASE outcome.scope = "Key"
    <3>1. Promise(key, until) /\ key # Everyone
      BY <1>2, <1>5, <1>12, <2>2, EveryoneAssumption
    <3>2. buckets'[key].blocked_until >= until
      BY <1>4, <1>7, <1>11, <2>2
    <3>3. key \in Keys => IF buckets'[key] # NoBucket
                          THEN buckets'[key].blocked_until >= until ELSE AtKeyBound'
      BY <1>11, <3>2
    <3>4. \A k \in Keys : PromiseKept(k)'
      <4> SUFFICES ASSUME NEW k \in Keys PROVE PromiseKept(k)'
        OBVIOUS
      <4>1. promised \in [Keys \cup {Everyone} -> Duration]
        BY DEF HInv
      <4>2. CASE k = key
        <5>1. promised'[k] = Greater(promised[k], until)
          BY <1>2, <3>1, <4>1, <4>2 DEF Promise
        <5>2. IF Tracked(k)' THEN buckets'[k].blocked_until >= until ELSE AtKeyBound'
          BY <3>3, <4>2 DEF Tracked
        <5> QED
          BY <1>9, <1>10, <5>1, <5>2, PromiseStep DEF PromisesInv
      <4>3. CASE k # key
        <5>1. promised'[k] = promised[k]
          BY <1>2, <3>1, <4>1, <4>3 DEF Promise
        <5> QED
          BY <1>9, <1>10, <5>1, PromiseStep DEF PromisesInv
      <4> QED
        BY <4>2, <4>3
    <3>5. promised'[Everyone] = promised[Everyone]
      BY <1>2, <3>1 DEF Promise, HInv
    <3>6. global_blocked_until' = global_blocked_until
      BY <1>5, <2>2
    <3> QED
      BY <1>10, <3>4, <3>5, <3>6 DEF PromisesInv
  <2> QED
    BY <1>6, <1>12, <2>1, <2>2
<1>13. CASE outcome.kind # "RateLimitedFeedback"
  <2>1. UNCHANGED promised /\ outcome.scope # "Global"
    BY <1>5, <1>13 DEF Outcome
  <2>2. \A k \in Keys : PromiseKept(k)'
    BY <1>9, <1>10, <2>1, PromiseStep DEF PromisesInv
  <2> QED
    BY <1>5, <1>10, <2>1, <2>2 DEF PromisesInv
<1> QED
  BY <1>12, <1>13

\* A step that touches no bucket shortens no backoff.
LEMMA BlocksUntouched ==
  ASSUME BoundIsFixed, HInv, HInv', UNCHANGED buckets
  PROVE  \A k \in Keys : KeepsBlock(k)
<1>1. \A k \in Keys : Tracked(k)' <=> Tracked(k)
  BY DEF Tracked
<1>2. AtKeyBound => AtKeyBound'
  BY <1>1, BoundStays
<1>3. \A k \in Keys : Tracked(k) => buckets[k].blocked_until \in Nat
  BY BlockTypes DEF HInv, IInv
<1> QED
  BY <1>1, <1>2, <1>3 DEF KeepsBlock

LEMMA PromisesUntouched ==
  ASSUME HInv, HInv', PromisesInv, \A k \in Keys : KeepsBlock(k), now <= now',
         UNCHANGED <<global_blocked_until, promised>>
  PROVE  PromisesInv'
<1>1. \A k \in Keys : PromiseKept(k)'
  BY PromiseStep DEF PromisesInv
<1>2. now \in Nat /\ now' \in Nat /\ promised[Everyone] \in Nat
  BY Widths DEF HInv, IInv, TypeOK, Duration
<1> QED
  BY <1>1, <1>2 DEF PromisesInv

LEMMA RefundPromises ==
  ASSUME BoundIsFixed, HInv, HInv', PromisesInv, NEW c \in Callers, HRefund(c)
  PROVE  PromisesInv'
<1> DEFINE p == permits[c]
           key == p.key
           b == BucketRefund(buckets[key], p, cfg.algorithm, now)
<1>1. Holds(c) /\ Finished(c, b, FALSE) /\ UNCHANGED <<global_blocked_until, promised>>
  BY FinishShape DEF HInv, HRefund, Refund
<1>2. /\ key \in Keys /\ Tracked(key) /\ StillKnows(buckets[key].state, p, cfg.algorithm)
      /\ buckets[key] \in Bucket /\ cfg.algorithm \in AlgorithmConfig
      /\ now \in Duration
  BY <1>1, HeldBucketKnows, HeldBucket DEF HInv, IInv
<1>3. b \in Bucket
  <2>1. 0 \in Duration
    BY Widths DEF Duration
  <2> QED
    BY <1>2, <2>1, FinalizeEffect
<1>4. buckets[key].blocked_until > now => b.blocked_until >= buckets[key].blocked_until
  <2>1. 0 \in Duration
    BY Widths DEF Duration
  <2> QED
    BY <1>2, <2>1, FinalizedBlock
<1>5. buckets' = [buckets EXCEPT ![key] = b] /\ UNCHANGED now
  BY <1>1 DEF Finished
<1> HIDE DEF b, key
<1>6. \A k \in Keys : KeepsBlock(k)
  <2>1. ~NeedsRoom(key) /\ key \in Keys
    BY <1>2 DEF NeedsRoom
  <2> QED
    BY <1>3, <1>4, <1>5, <2>1, BlocksKept
<1>7. now <= now'
  BY <1>2, <1>5, Widths DEF Duration
<1> QED
  BY <1>1, <1>6, <1>7, PromisesUntouched

\* Key feedback blocks the key's bucket, or the key stays without one: the bound is reached.
LEMMA BlockedPromises ==
  ASSUME NeverEvicts, BoundIsFixed, HInv, HInv', PromisesInv, NEW key \in Keys,
         NEW until \in Duration, FeedbackBlocksKey(key, until), Promise(key, until),
         UNCHANGED now
  PROVE  PromisesInv'
<1> DEFINE b == BucketAt(key)
           blocked == ApplyBlockedUntil(b, until)
<1>1. /\ UNCHANGED global_blocked_until /\ now <= now' /\ until \in Nat
      /\ global_blocked_until <= global_blocked_until' /\ key # Everyone
  BY EveryoneAssumption, Widths DEF FeedbackBlocksKey, HInv, IInv, TypeOK, Duration
<1>2. CASE NoRoom(key) /\ UNCHANGED <<buckets, fifo>>
  <2>1. ~Tracked(key) /\ AtKeyBound
    <3>1. 0 \in 0..Len(fifo)
      BY DEF HInv, IInv, TypeOK
    <3> QED
      BY <1>2, <3>1 DEF NoRoom, HasRoom, NeedsRoom
  <2>2. \A k \in Keys : KeepsBlock(k)
    BY <1>2, BlocksUntouched
  <2>3. ~Tracked(key)' /\ AtKeyBound'
    BY <2>1, <2>2 DEF KeepsBlock
  <2> QED
    BY <1>1, <2>2, <2>3, PromisesStep
<1>3. CASE \E i \in 0..Len(fifo) : HasRoom(key, i) /\ Place(key, i, blocked)
  <2>1. ~NeedsRoom(key) /\ buckets' = [buckets EXCEPT ![key] = blocked]
    BY <1>3, PlacedWithoutEviction DEF HInv, IInv
  <2>2. b \in Bucket /\ (Tracked(key) => b = buckets[key])
    BY InvByKey, BucketAtKey DEF HInv, IInv
  <2> HIDE DEF b
  <2>3. blocked \in Bucket /\ blocked.blocked_until = Greater(b.blocked_until, until)
    BY <2>2, BlockEffect DEF ApplyBlockedUntil, Bucket, HInv, IInv, TypeOK
  <2> HIDE DEF blocked
  <2>4. blocked.blocked_until >= until /\ blocked.blocked_until >= b.blocked_until
    BY <1>1, <2>2, <2>3, Widths DEF Greater, Bucket, Duration
  <2>5. \A k \in Keys : KeepsBlock(k)
    BY <2>1, <2>2, <2>3, <2>4, BlocksKept
  <2>6. Tracked(key)' /\ buckets'[key].blocked_until >= until
    BY <2>1, <2>3, <2>4, NoBucketIsNone DEF Tracked, HInv, IInv, TypeOK
  <2> QED
    BY <1>1, <2>5, <2>6, PromisesStep
<1> QED
  BY <1>2, <1>3 DEF FeedbackBlocksKey

LEMMA FeedbackPromises ==
  ASSUME NeverEvicts, BoundIsFixed, HInv, HInv', PromisesInv, NEW route \in Keys,
         NEW f \in Feedbacks, HApplyFeedback(route, f)
  PROVE  PromisesInv'
<1> DEFINE key == ResolveBucketKey(RemappedBy(route, f.bucket_remap), route)
           until == FeedbackUntil(f)
<1>1. /\ IF f.scope = "Global"
         THEN FeedbackBlocksAll(until) /\ Promise(Everyone, until)
         ELSE FeedbackBlocksKey(key, until) /\ Promise(key, until)
      /\ UNCHANGED now
  BY DEF HApplyFeedback, ApplyFeedback
<1>2. key \in Keys /\ until \in Duration
  BY FeedbackType DEF HInv, IInv
<1> HIDE DEF key, until
<1>3. CASE f.scope = "Global"
  <2>1. /\ UNCHANGED buckets /\ Promise(Everyone, until)
        /\ global_blocked_until' = Greater(global_blocked_until, until)
    BY <1>1, <1>3 DEF FeedbackBlocksAll
  <2>2. /\ now <= now' /\ until <= global_blocked_until'
        /\ global_blocked_until <= global_blocked_until'
    BY <1>1, <1>2, <2>1, Widths DEF Greater, HInv, IInv, TypeOK, Duration
  <2> QED
    BY <1>2, <2>1, <2>2, BlocksUntouched, PromisesStep, EveryoneAssumption
<1> QED
  BY <1>1, <1>2, <1>3, BlockedPromises

\* An update clears only the blocks that have ended.
LEMMA UpdatePromises ==
  ASSUME BoundIsFixed, HInv, HInv', PromisesInv, NEW new \in Configs, HUpdateConfig(new)
  PROVE  PromisesInv'
<1>1. /\ \A k \in Keys : buckets'[k] =
           IF Tracked(k) THEN OnUpdate(buckets[k], cfg.algorithm, new.algorithm, now)
           ELSE NoBucket
      /\ UNCHANGED <<now, global_blocked_until, promised>> /\ now \in Duration
  BY UpdateShape DEF Reconfigured, HInv, IInv, TypeOK
<1>2. ASSUME NEW k \in Keys, Tracked(k)
      PROVE  /\ Tracked(k)' /\ buckets[k].blocked_until \in Nat
             /\ buckets[k].blocked_until > now =>
                  buckets'[k].blocked_until = buckets[k].blocked_until
  <2> DEFINE b == buckets[k]
             after == OnUpdate(b, cfg.algorithm, new.algorithm, now)
  <2>1. b \in Bucket /\ b.state.algo = cfg.algorithm.kind /\ b.blocked_until \in Nat
    BY <1>2, BlockTypes DEF HInv, IInv, BucketsRunAlgorithm, TrackedKeys
  <2>2. buckets'[k] = after
    BY <1>1, <1>2
  <2>3. after \in Bucket
    BY <1>1, <2>1, UpdateShape, OnUpdateEffect DEF DisruptiveChange
  <2>4. b.blocked_until > now => after.blocked_until = b.blocked_until
    BY <1>1, <2>1, Widths DEF OnUpdate, ClearExpiredBlock, Bucket, Duration
  <2> HIDE DEF after
  <2> QED
    BY <2>1, <2>2, <2>3, <2>4, NoBucketIsNone DEF Tracked
<1>3. \A k \in Keys : Tracked(k)' <=> Tracked(k)
  BY <1>1, <1>2 DEF Tracked
<1>4. \A k \in Keys : KeepsBlock(k)
  BY <1>2, <1>3, BoundStays DEF KeepsBlock
<1>5. now <= now'
  BY <1>1, Widths DEF Duration
<1> QED
  BY <1>1, <1>4, <1>5, PromisesUntouched

LEMMA TickPromises ==
  ASSUME BoundIsFixed, HInv, HInv', PromisesInv, HTick
  PROVE  PromisesInv'
<1>1. UNCHANGED <<buckets, global_blocked_until, promised>> /\ now <= now'
  BY TickShape, Widths DEF Duration
<1> QED
  BY <1>1, BlocksUntouched, PromisesUntouched

LEMMA HInitPromises == HInit => PromisesInv
<1> SUFFICES ASSUME HInit PROVE PromisesInv
  OBVIOUS
<1>1. \A k \in Keys \cup {Everyone} : promised[k] = 0
  BY DEF HInit
<1>2. now \in Nat
  BY LimiterAssumption, Widths DEF LimiterAssumption, HInit, Init, Duration
<1> QED
  BY <1>1, <1>2 DEF PromisesInv, PromiseKept

LEMMA PromisesInvStep ==
  ASSUME NeverEvicts, BoundIsFixed, HInv, HInv', PromisesInv, [HNext]_hvars
  PROVE  PromisesInv'
<1>1. CASE UNCHANGED <<buckets, now, global_blocked_until, promised>>
  <2>1. now <= now'
    BY <1>1, Widths DEF HInv, IInv, TypeOK, Duration
  <2> QED
    BY <1>1, <2>1, BlocksUntouched, PromisesUntouched
<1>2. ASSUME NEW c \in Callers, NEW route \in Keys, NEW cost \in Costs,
             HTryAcquire(c, route, cost)
      PROVE  PromisesInv'
  <2>1. /\ cost \in Cost /\ ~Holds(c)
        /\ UNCHANGED <<cfg, now, global_blocked_until, promised>>
        /\ \/ UNCHANGED <<buckets, permits, charged>>
           \/ \E key \in Keys : Acquired(c, key, cost)
    BY <1>2, AcquireShape DEF HInv
  <2> QED
    BY <1>1, <2>1, AcquiredPromises
<1>3. CASE UNCHANGED hvars
  BY <1>1, <1>3 DEF hvars, vars
<1> QED
  BY <1>2, <1>3, CommitPromises, RefundPromises, FeedbackPromises, UpdatePromises, TickPromises
     DEF HNext

LEMMA GrantHonoursBackoff ==
  ASSUME NeverEvicts, BoundIsFixed, HInv, HInv', PromisesInv, [HNext]_hvars
  PROVE  HonoursBackoff
<1> SUFFICES ASSUME NEW c \in Callers, Grants(c)
             PROVE  now >= promised[permits'[c].key] /\ now >= promised[Everyone]
  BY DEF HonoursBackoff
<1>1. PICK route \in Keys, cost \in Costs : HTryAcquire(c, route, cost)
  BY OnlyAcquireGrants DEF HInv
<1>2. ~Holds(c) /\ Holds(c)' /\ ~UNCHANGED permits
  BY DEF Grants, Holds
<1>3. cost \in Cost /\ UNCHANGED <<cfg, now, global_blocked_until, promised>>
      /\ \E key \in Keys : Acquired(c, key, cost)
  BY <1>1, <1>2, AcquireShape DEF HInv
<1> QED
  BY <1>2, <1>3, AcquiredPromises

-----------------------------------------------------------------------------
(***************************************************************************)
(* Theorems of the specification with its history.                         *)
(***************************************************************************)
\* Remembering changes nothing: every behaviour with the history is one of the limiter.
THEOREM HistoryIsLimiter == HSpec => Spec
BY HistoryWatches, PTL DEF HSpec, Spec

(***************************************************************************)
(* The invariant every limiter keeps: the limiter's own, the types of the  *)
(* history, and that the open permits of a key are charged to it, all to   *)
(* one window.                                                             *)
(***************************************************************************)
THEOREM HistoryInvariance == HSpec => []HInv
<1>1. HInv /\ IInv' /\ [HNext]_hvars => HInv'
  BY HInvStep
<1> QED
  BY <1>1, HInitInv, HistoryIsLimiter, Invariance, PTL DEF HSpec

\* Charges, entitlements and promises keep their types, whatever is granted, refunded or asked.
THEOREM HistoryTyped == HSpec => []HistoryTypeOK
<1>1. HInv => HistoryTypeOK
  BY DEF HInv, IInv, HistoryTypeOK, Account
<1> QED
  BY <1>1, HistoryInvariance, PTL

(***************************************************************************)
(* Every bucket's books agree with what was charged to its key, as long as *)
(* no key is evicted: a pool is worth no more than is left of its          *)
(* entitlement and, if the clock stops short of Duration::MAX, a window's  *)
(* counters are what was granted in it.                                    *)
(***************************************************************************)
THEOREM BooksAgree ==
  ASSUME NeverEvicts
  PROVE  HSpec => []BooksInv
<1>1. HInv /\ BooksInv /\ [HNext]_hvars => BooksInv'
  BY BooksStep
<1> QED
  BY <1>1, HInitBooks, HistoryInvariance, PTL DEF HSpec

(***************************************************************************)
(* What a key has drawn from its token bucket never exceeds a full pool,   *)
(* what the refill rates earned and what capacity was added: the long-run  *)
(* rate of token_bucket.rs, through rounding, refunds and resizing.        *)
(***************************************************************************)
THEOREM LongRunRate ==
  ASSUME NeverEvicts
  PROVE  HSpec => []RateBound
<1>1. HInv /\ BooksInv => RateBound
  BY BooksBoundRate
<1> QED
  BY <1>1, BooksAgree, HistoryInvariance, PTL

(***************************************************************************)
(* No grant of a fixed window takes what its key was given in that window, *)
(* refunds taken off, beyond max_per_window: no rollover, late commit or   *)
(* changed limit lets one through.                                         *)
(***************************************************************************)
THEOREM WindowKeepsBudget ==
  ASSUME NeverEvicts, ClockShortOfMax
  PROVE  HSpec => WindowBudget
<1>1. HInv /\ HInv' /\ BooksInv /\ [HNext]_hvars => [WithinWindowBudget]_hvars
  BY GrantWithinWindow
<1> QED
  BY <1>1, BooksAgree, HistoryInvariance, PTL DEF HSpec, WindowBudget

(***************************************************************************)
(* Under slow start a window gives no more than the straight line from     *)
(* nothing at started_at to its full limit at the end of the ramp.         *)
(***************************************************************************)
THEOREM RampKeepsBudget ==
  ASSUME NeverEvicts, ClockShortOfMax, OnlyWindowsRamp
  PROVE  HSpec => RampBudget
<1>1. HInv /\ HInv' /\ BooksInv /\ [HNext]_hvars => [WithinRampBudget]_hvars
  BY GrantWithinRamp
<1> QED
  BY <1>1, BooksAgree, HistoryInvariance, PTL DEF HSpec, RampBudget

(***************************************************************************)
(* Every backoff the server announced, by outcome or by feedback, for one  *)
(* key or for all, is waited out before that key is granted anything: a    *)
(* later shorter backoff, a commit, a refund, a configuration update or a  *)
(* remap never shortens it.                                                *)
(***************************************************************************)
THEOREM BackoffIsHonoured ==
  ASSUME NeverEvicts, BoundIsFixed
  PROVE  HSpec => BackoffHonoured
<1>1. HInv /\ HInv' /\ PromisesInv /\ [HNext]_hvars => PromisesInv' /\ [HonoursBackoff]_hvars
  BY PromisesInvStep, GrantHonoursBackoff
<1> QED
  BY <1>1, HInitPromises, HistoryInvariance, PTL DEF HSpec, BackoffHonoured
=============================================================================
