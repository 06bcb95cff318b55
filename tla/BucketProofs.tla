---------------------------- MODULE BucketProofs ----------------------------
(***************************************************************************)
(* What the operations on one bucket preserve, for every width, every      *)
(* configuration and every time: the types of what they return and their   *)
(* effect on the outstanding capacity.                                     *)
(***************************************************************************)
EXTENDS Bucket, TLAPS

BucketReasons ==
  {"Granted", "BlockedUntil", "WindowExhausted", "Disabled", "Unachievable"}

Answers(states) == [state : states, reason : BucketReasons, retry_after : Duration]

\* Division rounds down and stays within any multiple that bounds its numerator.
LEMMA DivBounds ==
  ASSUME NEW a \in Nat, NEW b \in Nat \ {0}
  PROVE  /\ a \div b \in Nat
         /\ (a \div b) * b <= a
         /\ \A n \in Nat : a < b * n + b => a \div b <= n
OBVIOUS

\* Rounding a quotient up does not exceed a whole bound of the quotient.
LEMMA DivCeilBounds ==
  ASSUME NEW a \in Nat, NEW b \in Nat \ {0}, NEW n \in Nat, a <= b * n
  PROVE  DivCeil(a, b) \in 0..n
<1>1. a + b - 1 \in Nat /\ a + b - 1 < b * n + b
  OBVIOUS
<1> QED
  BY <1>1, DivBounds DEF DivCeil

\* A window start is a time no later than now.
LEMMA WindowStartType ==
  ASSUME NEW now \in Duration, NEW window \in Duration \ {0}
  PROVE  WindowStartFor(now, window) \in 0..now
<1>1. DurationMax \in Nat
  BY WidthAssumption DEF WidthAssumption
<1>2. now \in Nat /\ window \in Nat \ {0}
  BY <1>1 DEF Duration
<1>3. now \div window \in Nat /\ (now \div window) * window <= now
  BY <1>2, DivBounds
<1> DEFINE q == now \div window
<1>4. q * window \in Nat
  BY <1>2, <1>3
<1> QED
  BY <1>2, <1>3, <1>4 DEF WindowStartFor

\* A new window is a window state.
LEMMA NewFixedWindowType ==
  ASSUME NEW now \in Duration, NEW window \in Duration \ {0}
  PROVE  NewFixedWindow(now, window) \in FixedWindowState
<1>1. WindowStartFor(now, window) \in Duration
  BY WindowStartType, WidthAssumption DEF WidthAssumption, Duration
<1> QED
  BY <1>1, WidthAssumption DEF WidthAssumption, NewFixedWindow, FixedWindowState, U32

\* A window that holds reservations is not reset; no reset changes what is outstanding.
LEMMA MaybeResetWindowEffect ==
  ASSUME NEW s \in FixedWindowState, NEW now \in Duration, NEW window \in Duration \ {0}
  PROVE  LET t == MaybeResetWindow(s, now, window) IN
         /\ t \in FixedWindowState
         /\ t.reserved = s.reserved
         /\ s.reserved # 0 => t = s
<1>1. NewFixedWindow(now, window) \in FixedWindowState
  BY NewFixedWindowType
<1>2. NewFixedWindow(now, window).reserved = 0
  BY DEF NewFixedWindow
<1> QED
  BY <1>1, <1>2 DEF MaybeResetWindow

\* A grant reserves exactly its cost; a denial reserves nothing.
LEMMA FixedWindowTryReserveEffect ==
  ASSUME NEW s \in FixedWindowState, NEW max \in U32, NEW window \in Duration \ {0},
         NEW cost \in Cost, NEW now \in Duration
  PROVE  LET answer == FixedWindowTryReserve(s, max, window, cost, now) IN
         /\ answer \in Answers(FixedWindowState)
         /\ answer.reason = "Granted" => answer.state.reserved = s.reserved + cost
         /\ answer.reason # "Granted" => answer.state.reserved = s.reserved
         /\ s.reserved # 0 => answer.state.window_start = s.window_start
<1> DEFINE t == MaybeResetWindow(s, now, window)
           in_use == SatAdd(t.spent, t.reserved, U32Max)
           available == SatSub(max, in_use)
           granted == [t EXCEPT !.reserved = SatAdd(@, cost, U32Max)]
           wait == RetryAfterForWindow(t, now, window)
<1>1. /\ t \in FixedWindowState /\ t.reserved = s.reserved
      /\ s.reserved # 0 => t.window_start = s.window_start
  BY MaybeResetWindowEffect
<1> HIDE DEF t
<1>2. /\ U32Max \in Nat /\ DurationMax \in Nat /\ now \in Nat /\ window \in Nat
      /\ max \in Nat /\ max <= U32Max /\ cost \in Nat /\ cost # 0 /\ cost <= U32Max
  BY WidthAssumption DEF WidthAssumption, U32, Cost, Duration
<1>3. /\ t.spent \in Nat /\ t.reserved \in Nat /\ t.window_start \in Nat
      /\ t.window_start <= DurationMax /\ t.reserved <= U32Max
  BY <1>1, <1>2 DEF FixedWindowState, U32, Duration
<1>4. wait \in Duration
  BY <1>2, <1>3 DEF RetryAfterForWindow, WindowEnd, SatAdd, SatSub, Lesser, Duration
<1>5. cost <= available => t.reserved + cost <= U32Max
  BY <1>2, <1>3 DEF SatAdd, SatSub, Lesser
<1>6. cost <= available =>
        /\ granted \in FixedWindowState
        /\ granted.reserved = t.reserved + cost
        /\ granted.window_start = t.window_start
  BY <1>1, <1>2, <1>3, <1>5 DEF SatAdd, Lesser, FixedWindowState, U32
<1>7. available \in Int
  BY <1>2, <1>3 DEF SatAdd, SatSub, Lesser
<1>8. window \in Duration /\ DurationMax \in Duration /\ 0 \in Duration
  BY <1>2 DEF Duration
<1>9. FixedWindowTryReserve(s, max, window, cost, now) =
        IF max = 0 THEN [state |-> t, reason |-> "Disabled", retry_after |-> window]
        ELSE IF cost > max
          THEN [state |-> t, reason |-> "Unachievable", retry_after |-> DurationMax]
        ELSE IF cost > available
          THEN [state |-> t, reason |-> "WindowExhausted", retry_after |-> wait]
        ELSE [state |-> granted, reason |-> "Granted", retry_after |-> 0]
  BY DEF FixedWindowTryReserve, t
<1> HIDE DEF in_use, available, granted, wait
<1> QED
  BY <1>1, <1>2, <1>4, <1>6, <1>7, <1>8, <1>9 DEF Answers, BucketReasons

-----------------------------------------------------------------------------
\* Widths as the provers need them.
LEMMA Widths ==
  /\ U32Max \in Nat /\ U64Max \in Nat /\ DurationMax \in Nat
  /\ NanosPerSec \in Nat /\ NanosPerSec # 0
  /\ U32Max <= U64Max
BY WidthAssumption DEF WidthAssumption

\* Credits earned fit a u64.
LEMMA CreditsAddedType ==
  ASSUME NEW delta \in Nat, NEW rate \in U64
  PROVE  CreditsAdded(delta, rate) \in U64
<1>1. rate \in Nat
  BY Widths DEF U64
<1>2. delta * rate \in Nat
  BY <1>1
<1>3. (delta * rate) \div NanosPerSec \in Nat
  BY <1>2, Widths, DivBounds
<1> QED
  BY <1>3, Widths DEF CreditsAdded, Lesser, U64

\* The refill moves credits and the clock mark only.
LEMMA RefillEffect ==
  ASSUME NEW s \in TokenBucketState, NEW capacity \in U64, NEW rate \in U64,
         NEW now \in Duration
  PROVE  LET t == Refill(s, capacity, rate, now) IN
         /\ t \in TokenBucketState
         /\ t.in_flight = s.in_flight
<1> DEFINE earned == IF rate = 0 \/ capacity = 0 THEN 0
                     ELSE CreditsAdded(now - s.last_update, rate)
           credits == Lesser(SatAdd(s.credits, earned, U64Max), capacity)
<1>1. /\ s.last_update \in Nat /\ now \in Nat
      /\ s.credits \in Nat /\ capacity \in Nat /\ capacity <= U64Max
  BY Widths DEF TokenBucketState, Duration, U64
<1>2. CASE now <= s.last_update
  BY <1>2 DEF Refill
<1>3. CASE ~(now <= s.last_update)
  <2>1. now - s.last_update \in Nat
    BY <1>1, <1>3
  <2>2. earned \in Nat
    <3>1. CreditsAdded(now - s.last_update, rate) \in U64
      BY <2>1, CreditsAddedType
    <3> QED
      BY <3>1, Widths DEF U64
  <2> HIDE DEF earned
  <2>3. credits \in U64
    BY <1>1, <2>2, Widths DEF Lesser, SatAdd, U64
  <2>4. Refill(s, capacity, rate, now) = [s EXCEPT !.last_update = now, !.credits = credits]
    BY <1>3 DEF Refill, earned
  <2> HIDE DEF credits
  <2> QED
    BY <2>3, <2>4 DEF TokenBucketState
<1> QED
  BY <1>2, <1>3

\* The wait for a deficit of credits is a representable duration.
LEMMA RetryAfterForDeficitType ==
  ASSUME NEW deficit \in 0..U64Max, NEW rate \in U64 \ {0}
  PROVE  RetryAfterForDeficit(deficit, rate) \in Duration
<1> DEFINE n == deficit * NanosPerSec
<1>1. rate \in Nat \ {0}
  BY Widths DEF U64
<1>2. n \in Nat
  BY Widths
<1>3. n <= U64Max * NanosPerSec
  BY Widths
<1>4. n <= DurationMax
  BY <1>2, <1>3, WidthAssumption DEF WidthAssumption
<1> HIDE DEF n
<1>5. n <= rate * n
  BY <1>1, <1>2
<1>6. DivCeil(n, rate) \in 0..n
  BY <1>1, <1>2, <1>5, DivCeilBounds
<1> QED
  BY <1>2, <1>4, <1>6, Widths DEF RetryAfterForDeficit, n, Duration

\* A grant moves exactly its cost into flight; a denial moves nothing.
LEMMA TokenTryReserveEffect ==
  ASSUME NEW s \in TokenBucketState, NEW capacity \in U64, NEW rate \in U64,
         NEW cost \in Cost, NEW now \in Duration
  PROVE  LET answer == TokenTryReserve(s, capacity, rate, cost, now) IN
         /\ answer \in Answers(TokenBucketState)
         /\ answer.reason = "Granted" /\ s.in_flight + cost <= U64Max
              => answer.state.in_flight = s.in_flight + cost
         /\ answer.reason # "Granted" => answer.state.in_flight = s.in_flight
<1> DEFINE t == Refill(s, capacity, rate, now)
           granted == [t EXCEPT !.credits = @ - cost,
                                !.in_flight = SatAdd(@, cost, U64Max)]
           wait == RetryAfterForDeficit(cost - t.credits, rate)
<1>1. t \in TokenBucketState /\ t.in_flight = s.in_flight
  BY RefillEffect
<1> HIDE DEF t
<1>2. /\ t.credits \in Nat /\ t.in_flight \in Nat /\ t.in_flight <= U64Max
      /\ t.credits <= U64Max
      /\ capacity \in Nat /\ cost \in Nat /\ cost # 0 /\ cost <= U64Max /\ rate \in Nat
  BY <1>1, Widths DEF TokenBucketState, U64, Cost
<1> DEFINE flying == SatAdd(t.in_flight, cost, U64Max)
<1>10. t.credits >= cost => t.credits - cost \in U64
  BY <1>2, Widths DEF U64
<1>11. flying \in U64 /\ (t.in_flight + cost <= U64Max => flying = t.in_flight + cost)
  BY <1>2, Widths DEF SatAdd, Lesser, U64
<1>12. granted = [t EXCEPT !.credits = t.credits - cost, !.in_flight = flying]
  OBVIOUS
<1> HIDE DEF flying, granted
<1>3. t.credits >= cost => granted \in TokenBucketState
  BY <1>1, <1>10, <1>11, <1>12 DEF TokenBucketState
<1>4. t.in_flight + cost <= U64Max => granted.in_flight = t.in_flight + cost
  BY <1>1, <1>11, <1>12 DEF TokenBucketState
<1>5. ~(t.credits >= cost) /\ rate # 0 => wait \in Duration
  <2> SUFFICES ASSUME ~(t.credits >= cost), rate # 0 PROVE wait \in Duration
    OBVIOUS
  <2>1. cost - t.credits \in 0..U64Max
    BY <1>2, Widths
  <2> QED
    BY <2>1, RetryAfterForDeficitType
<1>6. DurationMax \in Duration /\ 0 \in Duration
  BY Widths DEF Duration
<1>7. TokenTryReserve(s, capacity, rate, cost, now) =
        IF capacity = 0 THEN [state |-> s, reason |-> "Disabled", retry_after |-> DurationMax]
        ELSE IF cost > capacity
          THEN [state |-> t, reason |-> "Unachievable", retry_after |-> DurationMax]
        ELSE IF t.credits >= cost
          THEN [state |-> granted, reason |-> "Granted", retry_after |-> 0]
        ELSE IF rate = 0
          THEN [state |-> t, reason |-> "Unachievable", retry_after |-> DurationMax]
        ELSE [state |-> t, reason |-> "WindowExhausted", retry_after |-> wait]
  BY DEF TokenTryReserve, t, granted
<1> HIDE DEF wait
<1> QED
  BY <1>1, <1>2, <1>3, <1>4, <1>5, <1>6, <1>7 DEF Answers, BucketReasons

\* A refund or commit takes what the permit held out of flight.
LEMMA TokenFinalizeEffect ==
  ASSUME NEW s \in TokenBucketState, NEW capacity \in U64, NEW rate \in U64,
         NEW cost \in Cost, NEW now \in Duration
  PROVE  LET refunded == TokenRefund(s, capacity, cost, now, rate)
             committed == TokenCommit(s, cost) IN
         /\ refunded \in TokenBucketState
         /\ committed \in TokenBucketState
         /\ cost <= s.in_flight =>
              /\ refunded.in_flight = s.in_flight - cost
              /\ committed.in_flight = s.in_flight - cost
<1> DEFINE t == Refill(s, capacity, rate, now)
           credits == Lesser((t.credits + cost) % (U64Max + 1), capacity)
<1>1. t \in TokenBucketState /\ t.in_flight = s.in_flight
  BY RefillEffect
<1>2. /\ s.in_flight \in Nat /\ s.in_flight <= U64Max /\ capacity \in Nat
      /\ capacity <= U64Max /\ cost \in Nat
  BY Widths DEF TokenBucketState, U64, Cost
<1>3. TokenRefund(s, capacity, cost, now, rate) =
        [t EXCEPT !.in_flight = SatSub(@, cost), !.credits = credits]
  BY DEF TokenRefund
<1> HIDE DEF t
<1>4. t.credits + cost \in Nat
  BY <1>1, <1>2, Widths DEF TokenBucketState, U64
<1>5. (t.credits + cost) % (U64Max + 1) \in Nat
  BY <1>4, Widths
<1>6. credits \in U64
  BY <1>2, <1>5, Widths DEF Lesser, U64
<1> HIDE DEF credits
<1> DEFINE flying == SatSub(s.in_flight, cost)
<1>7. flying \in U64 /\ (cost <= s.in_flight => flying = s.in_flight - cost)
  BY <1>2, Widths DEF SatSub, U64
<1>8. /\ TokenRefund(s, capacity, cost, now, rate) =
           [t EXCEPT !.in_flight = flying, !.credits = credits]
      /\ TokenCommit(s, cost) = [s EXCEPT !.in_flight = flying]
  BY <1>1, <1>3 DEF TokenCommit
<1> HIDE DEF flying
<1>9. [t EXCEPT !.in_flight = flying, !.credits = credits] \in TokenBucketState
  BY <1>1, <1>6, <1>7 DEF TokenBucketState
<1>10. [s EXCEPT !.in_flight = flying] \in TokenBucketState
  BY <1>7 DEF TokenBucketState
<1>11. /\ [t EXCEPT !.in_flight = flying, !.credits = credits].in_flight = flying
       /\ [s EXCEPT !.in_flight = flying].in_flight = flying
  BY <1>1 DEF TokenBucketState
<1> QED
  BY <1>7, <1>8, <1>9, <1>10, <1>11

\* A new pool, and a resized one, hold credits of the right width.
LEMMA TokenResizeEffect ==
  ASSUME NEW s \in TokenBucketState, NEW old \in U64, NEW new \in U64
  PROVE  LET t == ApplyCapacityChange(s, old, new) IN
         t \in TokenBucketState /\ t.in_flight = s.in_flight
<1>1. s.credits \in Nat /\ old \in Nat /\ new \in Nat /\ new <= U64Max
  BY Widths DEF TokenBucketState, U64
<1>2. Lesser(SatAdd(s.credits, SatSub(new, old), U64Max), new) \in U64
  BY <1>1, Widths DEF Lesser, SatAdd, SatSub, U64
<1> QED
  BY <1>2 DEF ApplyCapacityChange, TokenBucketState

-----------------------------------------------------------------------------
BucketState == FixedWindowState \cup TokenBucketState

\* The tag of a state tells which of the two records it is.
LEMMA StateKind ==
  ASSUME NEW s \in BucketState
  PROVE  /\ s.algo = "FixedWindow" => s \in FixedWindowState /\ Outstanding(s) = s.reserved
         /\ s.algo # "FixedWindow" => s \in TokenBucketState /\ s.algo = "TokenBucket"
                                      /\ Outstanding(s) = s.in_flight
         /\ Outstanding(s) \in Nat
<1>1. CASE s \in FixedWindowState
  BY <1>1, Widths DEF FixedWindowState, Outstanding, U32
<1>2. CASE s \in TokenBucketState
  BY <1>2, Widths DEF TokenBucketState, Outstanding, U64
<1> QED
  BY <1>1, <1>2 DEF BucketState

\* The tag of a configuration tells which of the two records it is.
LEMMA AlgorithmKind ==
  ASSUME NEW a \in AlgorithmConfig
  PROVE  /\ a.kind = "FixedWindow" =>
              a.max_per_window \in U32 /\ a.window \in Duration \ {0}
         /\ a.kind # "FixedWindow" =>
              a.kind = "TokenBucket" /\ a.capacity \in U64 /\ a.refill_per_sec \in U64
BY DEF AlgorithmConfig, FixedWindowAlgorithm, TokenBucketAlgorithm

\* A new state has the algorithm it was made for and nothing outstanding.
LEMMA NewStateEffect ==
  ASSUME NEW now \in Duration, NEW a \in AlgorithmConfig
  PROVE  LET s == NewState(now, a) IN
         /\ s \in BucketState
         /\ s.algo = a.kind
         /\ Outstanding(s) = 0
<1>1. CASE a.kind = "FixedWindow"
  <2>1. NewFixedWindow(now, a.window) \in FixedWindowState
    BY <1>1, AlgorithmKind, NewFixedWindowType
  <2> QED
    BY <1>1, <2>1 DEF NewState, NewFixedWindow, BucketState, Outstanding
<1>2. CASE a.kind # "FixedWindow"
  <2>1. NewTokenBucket(now, a.capacity) \in TokenBucketState
    BY <1>2, AlgorithmKind, Widths DEF NewTokenBucket, TokenBucketState, U64
  <2> QED
    BY <1>2, <2>1, AlgorithmKind DEF NewState, NewTokenBucket, BucketState, Outstanding
<1> QED
  BY <1>1, <1>2

\* try_reserve on either state: a grant adds its cost to what is outstanding.
LEMMA StateTryReserveEffect ==
  ASSUME NEW s \in BucketState, NEW a \in AlgorithmConfig, NEW cost \in Cost,
         NEW now \in Duration
  PROVE  LET answer == StateTryReserve(s, a, cost, now) IN
         /\ answer \in Answers(BucketState)
         /\ answer.state.algo = s.algo
         /\ answer.reason = "Granted" /\ Outstanding(s) + cost <= U64Max
              => Outstanding(answer.state) = Outstanding(s) + cost
         /\ answer.reason # "Granted" => Outstanding(answer.state) = Outstanding(s)
         /\ s.algo = "FixedWindow" /\ Outstanding(s) # 0
              => answer.state.window_start = s.window_start
<1>1. CASE s.algo # a.kind
  <2>1. StateTryReserve(s, a, cost, now) =
          [state |-> s, reason |-> "Disabled", retry_after |-> NanosPerSec]
    BY <1>1 DEF StateTryReserve
  <2>2. NanosPerSec \in Duration
    <3>1. U64Max >= 1 /\ U64Max * NanosPerSec < DurationMax
      BY WidthAssumption DEF WidthAssumption
    <3>2. NanosPerSec <= U64Max * NanosPerSec
      BY <3>1, Widths
    <3> QED
      BY <3>1, <3>2, Widths DEF Duration
  <2> QED
    BY <2>1, <2>2 DEF Answers, BucketReasons
<1>2. CASE s.algo = a.kind /\ s.algo = "FixedWindow"
  <2> DEFINE answer == FixedWindowTryReserve(s, a.max_per_window, a.window, cost, now)
  <2>1. s \in FixedWindowState /\ Outstanding(s) = s.reserved
    BY <1>2, StateKind
  <2>2. a.max_per_window \in U32 /\ a.window \in Duration \ {0}
    BY <1>2, AlgorithmKind
  <2>3. /\ answer \in Answers(FixedWindowState)
        /\ answer.reason = "Granted" => answer.state.reserved = s.reserved + cost
        /\ answer.reason # "Granted" => answer.state.reserved = s.reserved
        /\ s.reserved # 0 => answer.state.window_start = s.window_start
    BY <2>1, <2>2, FixedWindowTryReserveEffect
  <2>4. StateTryReserve(s, a, cost, now) = answer
    BY <1>2 DEF StateTryReserve
  <2> HIDE DEF answer
  <2>5. /\ answer.state \in FixedWindowState
        /\ answer \in Answers(BucketState)
    BY <2>3 DEF Answers, BucketState
  <2>6. answer.state.algo = "FixedWindow" /\ Outstanding(answer.state) = answer.state.reserved
    BY <2>5 DEF FixedWindowState, Outstanding
  <2> QED
    BY <1>2, <2>1, <2>3, <2>4, <2>5, <2>6
<1>3. CASE s.algo = a.kind /\ s.algo # "FixedWindow"
  <2> DEFINE answer == TokenTryReserve(s, a.capacity, a.refill_per_sec, cost, now)
  <2>1. s \in TokenBucketState /\ Outstanding(s) = s.in_flight /\ s.algo = "TokenBucket"
    BY <1>3, StateKind
  <2>2. a.capacity \in U64 /\ a.refill_per_sec \in U64
    BY <1>3, AlgorithmKind
  <2>3. /\ answer \in Answers(TokenBucketState)
        /\ answer.reason = "Granted" /\ s.in_flight + cost <= U64Max
              => answer.state.in_flight = s.in_flight + cost
        /\ answer.reason # "Granted" => answer.state.in_flight = s.in_flight
    BY <2>1, <2>2, TokenTryReserveEffect
  <2>4. StateTryReserve(s, a, cost, now) = answer
    BY <1>3 DEF StateTryReserve
  <2> HIDE DEF answer
  <2>5. /\ answer.state \in TokenBucketState
        /\ answer \in Answers(BucketState)
    BY <2>3 DEF Answers, BucketState
  <2>6. answer.state.algo = "TokenBucket" /\ Outstanding(answer.state) = answer.state.in_flight
    BY <2>5 DEF TokenBucketState, Outstanding
  <2> QED
    BY <1>3, <2>1, <2>3, <2>4, <2>5, <2>6
<1> QED
  BY <1>1, <1>2, <1>3

\* Clearing and extending a block leave the accounting alone.
LEMMA BlockEffect ==
  ASSUME NEW b \in Bucket, NEW now \in Duration, NEW until \in Duration
  PROVE  /\ ClearExpiredBlock(b, now) \in Bucket
         /\ ClearExpiredBlock(b, now).state = b.state
         /\ ApplyBlockedUntil(b, until) \in Bucket
         /\ ApplyBlockedUntil(b, until).state = b.state
BY Widths DEF ClearExpiredBlock, ApplyBlockedUntil, Bucket, Duration, Greater

(***************************************************************************)
(* try_reserve on any bucket: a grant raises what is outstanding by its    *)
(* cost, a denial by nothing, and a window with permits out does not move. *)
(***************************************************************************)
LEMMA TryReserveEffect ==
  ASSUME NEW b \in Bucket, NEW a \in AlgorithmConfig, NEW cost \in Cost,
         NEW now \in Duration
  PROVE  LET answer == TryReserve(b, a, cost, now) IN
         /\ answer.bucket \in Bucket
         /\ answer.reason \in BucketReasons
         /\ answer.retry_after \in Duration
         /\ answer.bucket.state.algo = b.state.algo
         /\ answer.reason = "Granted" /\ Outstanding(b.state) + cost <= U64Max
              => Outstanding(answer.bucket.state) = Outstanding(b.state) + cost
         /\ answer.reason # "Granted"
              => Outstanding(answer.bucket.state) = Outstanding(b.state)
         /\ b.state.algo = "FixedWindow" /\ Outstanding(b.state) # 0
              => answer.bucket.state.window_start = b.state.window_start
<1> DEFINE cleared == ClearExpiredBlock(b, now)
           inner == StateTryReserve(b.state, a, cost, now)
           after == [cleared EXCEPT !.state = inner.state]
<1>1. cleared \in Bucket /\ cleared.state = b.state
  BY BlockEffect
<1>2. b.state \in BucketState
  BY DEF Bucket, BucketState
<1>3. /\ inner \in Answers(BucketState)
      /\ inner.state.algo = b.state.algo
      /\ inner.reason = "Granted" /\ Outstanding(b.state) + cost <= U64Max
              => Outstanding(inner.state) = Outstanding(b.state) + cost
      /\ inner.reason # "Granted" => Outstanding(inner.state) = Outstanding(b.state)
      /\ b.state.algo = "FixedWindow" /\ Outstanding(b.state) # 0
              => inner.state.window_start = b.state.window_start
  BY <1>2, StateTryReserveEffect
<1>4. TryReserve(b, a, cost, now) =
        IF now < cleared.blocked_until
        THEN [bucket |-> cleared, reason |-> "BlockedUntil",
              retry_after |-> cleared.blocked_until - now]
        ELSE [bucket |-> after, reason |-> inner.reason, retry_after |-> inner.retry_after]
  BY <1>1 DEF TryReserve
<1> HIDE DEF cleared, inner
<1>5. after \in Bucket /\ after.state = inner.state
  BY <1>1, <1>3 DEF Bucket, BucketState, Answers
<1>6. now < cleared.blocked_until => cleared.blocked_until - now \in Duration
  BY <1>1, Widths DEF Bucket, Duration
<1> HIDE DEF after
<1>7. CASE now < cleared.blocked_until
  BY <1>1, <1>4, <1>6, <1>7 DEF BucketReasons
<1>8. CASE ~(now < cleared.blocked_until)
  BY <1>3, <1>4, <1>5, <1>8 DEF Answers
<1> QED
  BY <1>7, <1>8

\* A bucket answers with its state, unless it is blocked: then it changes nothing.
LEMMA TryReserveShape ==
  ASSUME NEW b \in Bucket, NEW a \in AlgorithmConfig, NEW cost \in Cost,
         NEW time \in Duration
  PROVE  LET answer == TryReserve(b, a, cost, time)
             of_state == StateTryReserve(b.state, a, cost, time) IN
         /\ \/ /\ time < b.blocked_until
               /\ answer.reason = "BlockedUntil" /\ answer.bucket.state = b.state
               /\ answer.retry_after = b.blocked_until - time
            \/ /\ time >= b.blocked_until
               /\ answer.reason = of_state.reason /\ answer.bucket.state = of_state.state
               /\ answer.retry_after = of_state.retry_after
         /\ answer.bucket.blocked_until = IF time >= b.blocked_until THEN 0 ELSE b.blocked_until
<1> DEFINE cleared == ClearExpiredBlock(b, time)
           of_state == StateTryReserve(b.state, a, cost, time)
           answer == TryReserve(b, a, cost, time)
<1>1. /\ cleared \in Bucket /\ cleared.state = b.state
      /\ cleared.blocked_until = IF time >= b.blocked_until THEN 0 ELSE b.blocked_until
  BY BlockEffect DEF ClearExpiredBlock, Bucket
<1>2. time \in Nat /\ b.blocked_until \in Nat
  BY Widths DEF Duration, Bucket
<1>3. answer =
        IF time < cleared.blocked_until
        THEN [bucket |-> cleared, reason |-> "BlockedUntil",
              retry_after |-> cleared.blocked_until - time]
        ELSE [bucket |-> [cleared EXCEPT !.state = of_state.state],
              reason |-> of_state.reason, retry_after |-> of_state.retry_after]
  BY <1>1 DEF TryReserve
<1> HIDE DEF cleared, of_state, answer
<1>4. /\ [cleared EXCEPT !.state = of_state.state].state = of_state.state
      /\ [cleared EXCEPT !.state = of_state.state].blocked_until = cleared.blocked_until
  BY <1>1 DEF Bucket
<1>5. /\ \/ /\ time < b.blocked_until
            /\ answer.reason = "BlockedUntil" /\ answer.bucket.state = b.state
            /\ answer.retry_after = b.blocked_until - time
         \/ /\ time >= b.blocked_until
            /\ answer.reason = of_state.reason /\ answer.bucket.state = of_state.state
            /\ answer.retry_after = of_state.retry_after
      /\ answer.bucket.blocked_until = IF time >= b.blocked_until THEN 0 ELSE b.blocked_until
  BY <1>1, <1>2, <1>3, <1>4
<1> QED
  BY <1>5 DEF answer, of_state

-----------------------------------------------------------------------------
(***************************************************************************)
(* Finalizing a permit that its state still knows gives back exactly what  *)
(* the permit held and leaves window and algorithm alone.                  *)
(***************************************************************************)
StillKnows(s, p, a) ==
  /\ p.cost \in Cost
  /\ p.algo = s.algo /\ a.kind = s.algo
  /\ p.cost <= Outstanding(s)
  /\ s.algo = "FixedWindow" => p.window_start = s.window_start

Finalizes(s, p, after) ==
  /\ after \in BucketState
  /\ after.algo = s.algo
  /\ Outstanding(after) = Outstanding(s) - p.cost
  /\ s.algo = "FixedWindow" => after.window_start = s.window_start

\* Finalizing in a window gives back the reservation, whatever was sent.
LEMMA FixedWindowFinalizeEffect ==
  ASSUME NEW s \in FixedWindowState, NEW cost \in Cost, NEW sent \in BOOLEAN,
         cost <= s.reserved
  PROVE  /\ FixedWindowRefund(s, cost) \in FixedWindowState
         /\ FixedWindowRefund(s, cost).reserved = s.reserved - cost
         /\ FixedWindowRefund(s, cost).window_start = s.window_start
         /\ FixedWindowCommit(s, cost, sent) \in FixedWindowState
         /\ FixedWindowCommit(s, cost, sent).reserved = s.reserved - cost
         /\ FixedWindowCommit(s, cost, sent).window_start = s.window_start
<1> DEFINE left == SatSub(s.reserved, cost)
           total == SatAdd(s.spent, cost, U32Max)
           spent == IF sent THEN total ELSE SatSub(total, cost)
<1>1. /\ s.reserved \in Nat /\ s.reserved <= U32Max /\ s.spent \in Nat /\ cost \in Nat
  BY Widths DEF FixedWindowState, U32, Cost
<1>2. left \in U32 /\ left = s.reserved - cost
  BY <1>1, Widths DEF SatSub, U32
<1>3. total \in U32
  BY <1>1, Widths DEF SatAdd, Lesser, U32
<1>4. spent \in U32
  BY <1>1, <1>3, Widths DEF SatSub, U32
<1>5. /\ FixedWindowRefund(s, cost) = [s EXCEPT !.reserved = left]
      /\ FixedWindowCommit(s, cost, sent) = [s EXCEPT !.reserved = left, !.spent = spent]
  BY DEF FixedWindowRefund, FixedWindowCommit
<1> HIDE DEF left, total, spent
<1> QED
  BY <1>2, <1>4, <1>5 DEF FixedWindowState

\* Commit and refund of a known permit, on either state.
LEMMA FinalizeStateEffect ==
  ASSUME NEW s \in BucketState, NEW a \in AlgorithmConfig, NEW p, NEW sent \in BOOLEAN,
         NEW now \in Duration, StillKnows(s, p, a)
  PROVE  /\ Finalizes(s, p, FinalizeState(s, p, sent, a, now))
         /\ Finalizes(s, p, RefundState(s, p, a, now))
<1>1. CASE s.algo = "FixedWindow"
  <2>1. s \in FixedWindowState /\ Outstanding(s) = s.reserved
    BY <1>1, StateKind
  <2>2. p.cost \in Cost /\ p.cost <= s.reserved /\ s.reserved # 0
    BY <2>1, Widths DEF StillKnows, Cost, FixedWindowState, U32
  <2>3. a.window \in Duration \ {0}
    BY <1>1, AlgorithmKind DEF StillKnows
  <2>4. MaybeResetWindow(s, now, a.window) = s
    BY <2>1, <2>2, <2>3, MaybeResetWindowEffect
  <2>5. /\ FinalizeState(s, p, sent, a, now) = FixedWindowCommit(s, p.cost, sent)
        /\ RefundState(s, p, a, now) = FixedWindowRefund(s, p.cost)
    BY <1>1, <2>4 DEF FinalizeState, RefundState, StillKnows
  <2>6. \A t \in FixedWindowState :
          t \in BucketState /\ t.algo = "FixedWindow" /\ Outstanding(t) = t.reserved
    BY DEF BucketState, FixedWindowState, Outstanding
  <2> QED
    BY <1>1, <2>1, <2>2, <2>5, <2>6, FixedWindowFinalizeEffect DEF Finalizes
<1>2. CASE s.algo # "FixedWindow"
  <2>1. s \in TokenBucketState /\ Outstanding(s) = s.in_flight /\ s.algo = "TokenBucket"
    BY <1>2, StateKind
  <2>2. p.cost \in Cost /\ p.cost <= s.in_flight
    BY <2>1 DEF StillKnows
  <2>3. a.capacity \in U64 /\ a.refill_per_sec \in U64
    BY <1>2, AlgorithmKind DEF StillKnows
  <2> DEFINE refunded == TokenRefund(s, a.capacity, p.cost, now, a.refill_per_sec)
             committed == TokenCommit(s, p.cost)
  <2>4. /\ FinalizeState(s, p, sent, a, now) = IF sent THEN committed ELSE refunded
        /\ RefundState(s, p, a, now) = refunded
    BY <1>2 DEF FinalizeState, RefundState, StillKnows
  <2>5. /\ refunded \in TokenBucketState /\ refunded.in_flight = s.in_flight - p.cost
        /\ committed \in TokenBucketState /\ committed.in_flight = s.in_flight - p.cost
    BY <2>1, <2>2, <2>3, TokenFinalizeEffect
  <2> HIDE DEF refunded, committed
  <2>6. \A t \in TokenBucketState :
          t \in BucketState /\ t.algo = "TokenBucket" /\ Outstanding(t) = t.in_flight
    BY DEF BucketState, TokenBucketState, Outstanding
  <2> QED
    BY <1>2, <2>1, <2>4, <2>5, <2>6 DEF Finalizes
<1> QED
  BY <1>1, <1>2

\* The same for the bucket, whose blocked_until plays no part.
LEMMA FinalizeEffect ==
  ASSUME NEW b \in Bucket, NEW a \in AlgorithmConfig, NEW p, NEW sent \in BOOLEAN,
         NEW now \in Duration, NEW until \in Duration, StillKnows(b.state, p, a)
  PROVE  /\ BucketRefund(b, p, a, now) \in Bucket
         /\ Finalizes(b.state, p, BucketRefund(b, p, a, now).state)
         /\ BucketCommit(b, p, sent, until, a, now) \in Bucket
         /\ Finalizes(b.state, p, BucketCommit(b, p, sent, until, a, now).state)
<1> DEFINE cleared == ClearExpiredBlock(b, now)
           blocked == ApplyBlockedUntil(cleared, until)
           refunded == RefundState(b.state, p, a, now)
           finalized == FinalizeState(b.state, p, sent, a, now)
<1>1. /\ cleared \in Bucket /\ cleared.state = b.state
      /\ blocked \in Bucket /\ blocked.state = b.state
  BY BlockEffect
<1>2. b.state \in BucketState
  BY DEF Bucket, BucketState
<1>3. Finalizes(b.state, p, refunded) /\ Finalizes(b.state, p, finalized)
  BY <1>2, FinalizeStateEffect
<1>4. /\ BucketRefund(b, p, a, now) = [cleared EXCEPT !.state = refunded]
      /\ BucketCommit(b, p, sent, until, a, now) = [blocked EXCEPT !.state = finalized]
  BY <1>1 DEF BucketRefund, BucketCommit
<1>5. refunded \in BucketState /\ finalized \in BucketState
  BY <1>3 DEF Finalizes
<1> HIDE DEF cleared, blocked, refunded, finalized
<1>6. /\ [cleared EXCEPT !.state = refunded] \in Bucket
      /\ [cleared EXCEPT !.state = refunded].state = refunded
      /\ [blocked EXCEPT !.state = finalized] \in Bucket
      /\ [blocked EXCEPT !.state = finalized].state = finalized
  BY <1>1, <1>5 DEF Bucket, BucketState
<1> QED
  BY <1>3, <1>4, <1>6

(***************************************************************************)
(* A configuration change gives every bucket the new algorithm.  What is   *)
(* outstanding survives it, and the window too if anything is, unless the  *)
(* algorithm changes, when only an idle bucket keeps its books.            *)
(***************************************************************************)
LEMMA OnUpdateEffect ==
  ASSUME NEW b \in Bucket, NEW old \in AlgorithmConfig, NEW new \in AlgorithmConfig,
         NEW now \in Duration, b.state.algo = old.kind,
         old.kind # new.kind => Outstanding(b.state) = 0
  PROVE  LET after == OnUpdate(b, old, new, now) IN
         /\ after \in Bucket
         /\ after.state.algo = new.kind
         /\ Outstanding(after.state) = Outstanding(b.state)
         /\ Outstanding(b.state) # 0 /\ b.state.algo = "FixedWindow"
              => after.state.window_start = b.state.window_start
<1> DEFINE s == b.state
           cleared == ClearExpiredBlock(b, now)
           t == StateOnUpdate(s, old, new, now)
<1>1. cleared \in Bucket /\ cleared.state = s
  BY BlockEffect
<1>2. s \in BucketState
  BY DEF Bucket, BucketState
<1> HIDE DEF s
<1>3. /\ t \in BucketState /\ t.algo = new.kind /\ Outstanding(t) = Outstanding(s)
      /\ Outstanding(s) # 0 /\ s.algo = "FixedWindow" => t.window_start = s.window_start
  <2>1. CASE old.kind = "FixedWindow" /\ new.kind = "FixedWindow"
    <3>1. s \in FixedWindowState /\ Outstanding(s) = s.reserved /\ s.algo = "FixedWindow"
      BY <1>2, <2>1, StateKind DEF s
    <3>2. NewFixedWindow(now, new.window) \in FixedWindowState
      BY <2>1, AlgorithmKind, NewFixedWindowType
    <3>3. /\ NewFixedWindow(now, new.window) \in BucketState
          /\ NewFixedWindow(now, new.window).algo = "FixedWindow"
          /\ Outstanding(NewFixedWindow(now, new.window)) = 0
      BY <3>2 DEF NewFixedWindow, BucketState, Outstanding
    <3>4. t = IF old.window # new.window /\ s.reserved = 0
              THEN NewFixedWindow(now, new.window) ELSE s
      BY <2>1, <3>1 DEF StateOnUpdate
    <3> HIDE DEF t
    <3> QED
      BY <1>2, <2>1, <3>1, <3>3, <3>4
  <2>2. CASE old.kind = "TokenBucket" /\ new.kind = "TokenBucket"
    <3>1. s \in TokenBucketState /\ Outstanding(s) = s.in_flight /\ s.algo = "TokenBucket"
      BY <1>2, <2>2, StateKind DEF s
    <3>2. old.capacity \in U64 /\ old.refill_per_sec \in U64 /\ new.capacity \in U64
      BY <2>2, AlgorithmKind
    <3> DEFINE r == Refill(s, old.capacity, old.refill_per_sec, now)
    <3>3. r \in TokenBucketState /\ r.in_flight = s.in_flight
      BY <3>1, <3>2, RefillEffect
    <3>4. t = ApplyCapacityChange(r, old.capacity, new.capacity)
      BY <2>2, <3>1 DEF StateOnUpdate
    <3> HIDE DEF r, t
    <3>5. t \in TokenBucketState /\ t.in_flight = s.in_flight
      BY <3>2, <3>3, <3>4, TokenResizeEffect
    <3> QED
      BY <2>2, <3>1, <3>5 DEF TokenBucketState, BucketState, Outstanding
  <2>3. CASE old.kind # new.kind
    <3>1. t = NewState(now, new)
      BY <2>3 DEF StateOnUpdate, s
    <3>2. Outstanding(s) = 0
      BY <2>3 DEF s
    <3> HIDE DEF t
    <3> QED
      BY <3>1, <3>2, NewStateEffect
  <2> QED
    BY <2>1, <2>2, <2>3, AlgorithmKind
<1>4. OnUpdate(b, old, new, now) = [cleared EXCEPT !.state = t]
  BY <1>1 DEF OnUpdate, s
<1> HIDE DEF cleared, t
<1>5. /\ [cleared EXCEPT !.state = t] \in Bucket
      /\ [cleared EXCEPT !.state = t].state = t
  BY <1>1, <1>3 DEF Bucket, BucketState
<1> QED
  BY <1>3, <1>4, <1>5 DEF s

\* A bucket made for a new key.
LEMMA NewBucketEffect ==
  ASSUME NEW now \in Duration, NEW a \in AlgorithmConfig
  PROVE  LET b == NewBucket(now, a) IN
         /\ b \in Bucket
         /\ b.state.algo = a.kind
         /\ Outstanding(b.state) = 0
<1>1. /\ NewState(now, a) \in BucketState
      /\ NewState(now, a).algo = a.kind
      /\ Outstanding(NewState(now, a)) = 0
  BY NewStateEffect
<1> QED
  BY <1>1, Widths DEF NewBucket, Bucket, BucketState, Duration

\* No bucket looks like the absence of one.
LEMMA NoBucketIsNone == NoBucket \notin Bucket
BY DEF NoBucket, Bucket, FixedWindowState, TokenBucketState

-----------------------------------------------------------------------------
(***************************************************************************)
(* What a window has given away, spent or still reserved.                  *)
(***************************************************************************)
Used(s) == s.spent + s.reserved

\* A quotient is the largest number of times the divisor fits.
LEMMA DivAbove ==
  ASSUME NEW a \in Nat, NEW b \in Nat \ {0}
  PROVE  a < (a \div b) * b + b
OBVIOUS

\* The start of the window that `now` falls in is less than a window ago.
LEMMA WindowStartRecent ==
  ASSUME NEW now \in Duration, NEW window \in Duration \ {0}
  PROVE  now < WindowStartFor(now, window) + window
<1>1. now \in Nat /\ window \in Nat \ {0}
  BY Widths DEF Duration
<1> QED
  BY <1>1, DivAbove DEF WindowStartFor

(***************************************************************************)
(* Either a window stays, or nothing was reserved in it and a later one    *)
(* begins empty.  At Duration::MAX the window would be replaced by itself. *)
(***************************************************************************)
LEMMA MaybeResetWindowUse ==
  ASSUME NEW s \in FixedWindowState, NEW now \in Duration, NEW window \in Duration \ {0},
         now < DurationMax
  PROVE  LET t == MaybeResetWindow(s, now, window) IN
         /\ t \in FixedWindowState
         /\ \/ /\ t = s
               /\ s.reserved # 0 \/ now < s.window_start + window
            \/ /\ t.spent = 0 /\ t.reserved = 0 /\ s.reserved = 0
               /\ t.window_start = WindowStartFor(now, window)
               /\ s.window_start < t.window_start /\ t.window_start <= now
               /\ s.window_start + window <= now
<1> DEFINE start == WindowStartFor(now, window)
<1>1. /\ now \in Nat /\ window \in Nat /\ s.window_start \in Nat /\ DurationMax \in Nat
      /\ s.window_start <= DurationMax /\ now <= DurationMax
  BY Widths DEF Duration, FixedWindowState
<1>2. start \in Nat /\ start <= now /\ now < start + window
  BY <1>1, WindowStartType, WindowStartRecent
<1>3. MaybeResetWindow(s, now, window) \in FixedWindowState
  BY MaybeResetWindowEffect
<1>4. now >= WindowEnd(s, window) <=> now >= s.window_start + window
  BY <1>1 DEF WindowEnd, SatAdd, Lesser
<1>5. /\ NewFixedWindow(now, window).window_start = start
      /\ NewFixedWindow(now, window).spent = 0
      /\ NewFixedWindow(now, window).reserved = 0
  BY DEF NewFixedWindow
<1> HIDE DEF start
<1> QED
  BY <1>1, <1>2, <1>3, <1>4, <1>5 DEF MaybeResetWindow, start

\* A grant fits the maximum and adds its cost; a denial only advances the window.
LEMMA FixedWindowTryReserveUse ==
  ASSUME NEW s \in FixedWindowState, NEW max \in U32, NEW window \in Duration \ {0},
         NEW cost \in Cost, NEW now \in Duration
  PROVE  LET answer == FixedWindowTryReserve(s, max, window, cost, now)
             t == MaybeResetWindow(s, now, window)
         IN
         /\ answer.reason = "Granted" =>
              /\ Used(t) + cost <= max
              /\ answer.state.spent = t.spent
              /\ answer.state.reserved = t.reserved + cost
              /\ answer.state.window_start = t.window_start
         /\ answer.reason # "Granted" => answer.state = t
<1> DEFINE t == MaybeResetWindow(s, now, window)
           in_use == SatAdd(t.spent, t.reserved, U32Max)
           available == SatSub(max, in_use)
           granted == [t EXCEPT !.reserved = SatAdd(@, cost, U32Max)]
           wait == RetryAfterForWindow(t, now, window)
<1>1. t \in FixedWindowState
  BY MaybeResetWindowEffect
<1> HIDE DEF t
<1>2. /\ U32Max \in Nat /\ max \in Nat /\ max <= U32Max
      /\ cost \in Nat /\ cost # 0 /\ t.spent \in Nat /\ t.reserved \in Nat
  BY <1>1, Widths DEF U32, Cost, FixedWindowState
<1>3. cost <= available => Used(t) + cost <= max
  BY <1>2 DEF SatAdd, SatSub, Lesser, Used
<1>4. cost <= available => SatAdd(t.reserved, cost, U32Max) = t.reserved + cost
  BY <1>2, <1>3 DEF SatAdd, Lesser, Used
<1>5. cost <= available =>
        /\ granted.spent = t.spent /\ granted.reserved = t.reserved + cost
        /\ granted.window_start = t.window_start
  BY <1>1, <1>4 DEF FixedWindowState
<1>6. available \in Int
  BY <1>2 DEF SatAdd, SatSub, Lesser
<1>7. FixedWindowTryReserve(s, max, window, cost, now) =
        IF max = 0 THEN [state |-> t, reason |-> "Disabled", retry_after |-> window]
        ELSE IF cost > max
          THEN [state |-> t, reason |-> "Unachievable", retry_after |-> DurationMax]
        ELSE IF cost > available
          THEN [state |-> t, reason |-> "WindowExhausted", retry_after |-> wait]
        ELSE [state |-> granted, reason |-> "Granted", retry_after |-> 0]
  BY DEF FixedWindowTryReserve, t
<1> HIDE DEF in_use, available, granted, wait
<1> QED
  BY <1>2, <1>3, <1>5, <1>6, <1>7 DEF t

\* What was sent stays used, what was not comes back, as long as no count overflows.
LEMMA FixedWindowFinalizeUse ==
  ASSUME NEW s \in FixedWindowState, NEW cost \in Cost, cost <= s.reserved,
         Used(s) <= U32Max
  PROVE  /\ Used(FixedWindowCommit(s, cost, TRUE)) = Used(s)
         /\ Used(FixedWindowCommit(s, cost, FALSE)) = Used(s) - cost
         /\ Used(FixedWindowRefund(s, cost)) = Used(s) - cost
<1>1. s.reserved \in Nat /\ s.spent \in Nat /\ cost \in Nat /\ U32Max \in Nat
  BY Widths DEF FixedWindowState, U32, Cost
<1>2. /\ SatSub(s.reserved, cost) = s.reserved - cost
      /\ SatAdd(s.spent, cost, U32Max) = s.spent + cost
      /\ SatSub(s.spent + cost, cost) = s.spent
  BY <1>1 DEF SatSub, SatAdd, Lesser, Used
<1> DEFINE sent == FixedWindowCommit(s, cost, TRUE)
           unsent == FixedWindowCommit(s, cost, FALSE)
           refunded == FixedWindowRefund(s, cost)
<1>3. /\ sent.spent = s.spent + cost /\ sent.reserved = s.reserved - cost
      /\ unsent.spent = s.spent /\ unsent.reserved = s.reserved - cost
      /\ refunded.spent = s.spent /\ refunded.reserved = s.reserved - cost
  BY <1>2 DEF FixedWindowCommit, FixedWindowRefund, FixedWindowState
<1> HIDE DEF sent, unsent, refunded
<1>4. /\ Used(sent) = Used(s) /\ Used(unsent) = Used(s) - cost
      /\ Used(refunded) = Used(s) - cost
  BY <1>1, <1>3 DEF Used
<1> QED
  BY <1>4 DEF sent, unsent, refunded

-----------------------------------------------------------------------------
(***************************************************************************)
(* What a pool is worth, in credits times NanosPerSec: the credits it has  *)
(* and what `rate` earns from its last update to `now`.                    *)
(***************************************************************************)
Worth(s, rate, now) == NanosPerSec * s.credits + rate * (now - s.last_update)

\* A refill at that rate or a lower one creates no worth, and its rounding may lose some.
LEMMA RefillWorth ==
  ASSUME NEW s \in TokenBucketState, NEW capacity \in U64, NEW r \in U64, NEW rate \in U64,
         r <= rate, NEW now \in Duration, s.last_update <= now
  PROVE  LET t == Refill(s, capacity, r, now) IN
         /\ t.last_update = now
         /\ NanosPerSec * t.credits <= Worth(s, rate, now)
         /\ t.credits <= capacity \/ t = s
<1> DEFINE delta == now - s.last_update
           earned == IF r = 0 \/ capacity = 0 THEN 0 ELSE CreditsAdded(delta, r)
           credits == Lesser(SatAdd(s.credits, earned, U64Max), capacity)
<1>1. /\ s.last_update \in Nat /\ now \in Nat /\ delta \in Nat /\ r \in Nat /\ rate \in Nat
      /\ s.credits \in Nat /\ capacity \in Nat /\ NanosPerSec \in Nat \ {0} /\ U64Max \in Nat
  BY Widths DEF TokenBucketState, Duration, U64
<1> HIDE DEF delta
<1>2. earned \in Nat /\ NanosPerSec * earned <= delta * rate
  <2>1. delta * r \in Nat /\ delta * r <= delta * rate
    BY <1>1
  <2> DEFINE q == (delta * r) \div NanosPerSec
  <2>2. q \in Nat /\ q * NanosPerSec <= delta * r
    BY <1>1, <2>1, DivBounds
  <2>3. earned = 0 \/ earned = Lesser(q, U64Max)
    BY DEF CreditsAdded
  <2> HIDE DEF q, earned
  <2>4. earned \in Nat /\ earned <= q
    BY <1>1, <2>2, <2>3 DEF Lesser
  <2>5. NanosPerSec * earned <= q * NanosPerSec
    BY <1>1, <2>2, <2>4
  <2>6. NanosPerSec * earned \in Nat /\ q * NanosPerSec \in Nat /\ delta * rate \in Nat
    BY <1>1, <2>2, <2>4
  <2> QED
    BY <2>1, <2>2, <2>4, <2>5, <2>6
<1> HIDE DEF earned
<1>3. credits \in Nat /\ credits <= s.credits + earned /\ credits <= capacity
  BY <1>1, <1>2 DEF Lesser, SatAdd
<1>4. Refill(s, capacity, r, now) =
        IF now <= s.last_update THEN s
        ELSE [s EXCEPT !.last_update = now, !.credits = credits]
  BY DEF Refill, earned, delta
<1> HIDE DEF credits
<1>5. NanosPerSec * credits <= NanosPerSec * (s.credits + earned)
  BY <1>1, <1>2, <1>3
<1>6. NanosPerSec * (s.credits + earned) = NanosPerSec * s.credits + NanosPerSec * earned
  BY <1>1, <1>2
<1>7. /\ NanosPerSec * credits \in Nat /\ NanosPerSec * s.credits \in Nat
      /\ NanosPerSec * earned \in Nat /\ delta * rate \in Nat
  BY <1>1, <1>2, <1>3
<1>8. Worth(s, rate, now) = NanosPerSec * s.credits + delta * rate
  BY <1>1 DEF Worth, delta
<1>9. CASE now <= s.last_update
  BY <1>1, <1>4, <1>7, <1>8, <1>9
<1>10. CASE ~(now <= s.last_update)
  <2>1. /\ Refill(s, capacity, r, now).last_update = now
        /\ Refill(s, capacity, r, now).credits = credits
    BY <1>4, <1>10 DEF TokenBucketState
  <2> QED
    BY <1>2, <1>3, <1>5, <1>6, <1>7, <1>8, <2>1
<1> QED
  BY <1>9, <1>10

\* Worth of a pool that is up to date.
LEMMA WorthNow ==
  ASSUME NEW s \in TokenBucketState, NEW rate \in U64, NEW now \in Duration,
         s.last_update = now
  PROVE  Worth(s, rate, now) = NanosPerSec * s.credits /\ Worth(s, rate, now) \in Nat
BY Widths DEF Worth, TokenBucketState, U64, Duration

LEMMA WorthType ==
  ASSUME NEW s \in TokenBucketState, NEW rate \in U64, NEW now \in Duration,
         s.last_update <= now
  PROVE  Worth(s, rate, now) \in Nat /\ NanosPerSec * s.credits <= Worth(s, rate, now)
<1>1. s.credits \in Nat /\ rate \in Nat /\ now - s.last_update \in Nat
  BY Widths DEF TokenBucketState, U64, Duration
<1>2. NanosPerSec * s.credits \in Nat /\ rate * (now - s.last_update) \in Nat
  BY <1>1, Widths
<1> QED
  BY <1>2 DEF Worth

\* A grant takes its cost from the pool's worth; a denial adds nothing to it.
LEMMA TokenTryReserveWorth ==
  ASSUME NEW s \in TokenBucketState, NEW capacity \in U64, NEW r \in U64, NEW rate \in U64,
         r <= rate, NEW cost \in Cost, NEW now \in Duration, s.last_update <= now
  PROVE  LET answer == TokenTryReserve(s, capacity, r, cost, now) IN
         /\ answer.state.last_update <= now
         /\ answer.reason = "Granted" =>
              Worth(answer.state, rate, now) + NanosPerSec * cost <= Worth(s, rate, now)
         /\ answer.reason # "Granted" => Worth(answer.state, rate, now) <= Worth(s, rate, now)
<1> DEFINE t == Refill(s, capacity, r, now)
           granted == [t EXCEPT !.credits = @ - cost,
                                !.in_flight = SatAdd(@, cost, U64Max)]
           wait == RetryAfterForDeficit(cost - t.credits, r)
           answer == TokenTryReserve(s, capacity, r, cost, now)
<1>1. t \in TokenBucketState /\ t.last_update = now
      /\ NanosPerSec * t.credits <= Worth(s, rate, now)
  BY RefillEffect, RefillWorth
<1>2. answer =
        IF capacity = 0 THEN [state |-> s, reason |-> "Disabled", retry_after |-> DurationMax]
        ELSE IF cost > capacity
          THEN [state |-> t, reason |-> "Unachievable", retry_after |-> DurationMax]
        ELSE IF t.credits >= cost
          THEN [state |-> granted, reason |-> "Granted", retry_after |-> 0]
        ELSE IF r = 0
          THEN [state |-> t, reason |-> "Unachievable", retry_after |-> DurationMax]
        ELSE [state |-> t, reason |-> "WindowExhausted", retry_after |-> wait]
  BY DEF TokenTryReserve, t, granted
<1> HIDE DEF t, wait, answer
<1>3. t.credits \in Nat /\ cost \in Nat /\ now \in Nat /\ rate \in Nat /\ NanosPerSec \in Nat
  BY <1>1, Widths DEF TokenBucketState, U64, Cost, Duration
<1>4. granted.credits = t.credits - cost /\ granted.last_update = now
  BY <1>1 DEF TokenBucketState
<1>5. Worth(granted, rate, now) + NanosPerSec * cost = NanosPerSec * t.credits
  <2>1. Worth(granted, rate, now) = NanosPerSec * (t.credits - cost)
    BY <1>3, <1>4 DEF Worth
  <2>2. NanosPerSec * (t.credits - cost) = NanosPerSec * t.credits - NanosPerSec * cost
    BY <1>3
  <2>3. NanosPerSec * t.credits \in Nat /\ NanosPerSec * cost \in Nat
    BY <1>3
  <2> QED
    BY <2>1, <2>2, <2>3
<1>6. Worth(t, rate, now) <= Worth(s, rate, now)
  BY <1>1, WorthNow
<1>7. Worth(s, rate, now) \in Nat /\ s.last_update \in Nat
  BY WorthType, Widths DEF TokenBucketState, Duration
<1> HIDE DEF granted
<1>8. \/ answer.reason = "Granted" /\ answer.state = granted
      \/ answer.reason # "Granted" /\ answer.state \in {s, t}
  BY <1>2
<1>9. /\ answer.state.last_update <= now
      /\ answer.reason = "Granted" =>
           Worth(answer.state, rate, now) + NanosPerSec * cost <= Worth(s, rate, now)
      /\ answer.reason # "Granted" => Worth(answer.state, rate, now) <= Worth(s, rate, now)
  <2>1. CASE answer.reason = "Granted" /\ answer.state = granted
    BY <1>1, <1>3, <1>4, <1>5, <2>1
  <2>2. CASE answer.reason # "Granted" /\ answer.state \in {s, t}
    BY <1>1, <1>3, <1>6, <1>7, <2>2
  <2> QED
    BY <1>8, <2>1, <2>2
<1> QED
  BY <1>9 DEF answer

\* A commit leaves the worth, a refund returns at most the cost; the wrap only lowers it.
LEMMA TokenFinalizeWorth ==
  ASSUME NEW s \in TokenBucketState, NEW capacity \in U64, NEW rate \in U64,
         NEW cost \in Cost, NEW now \in Duration, s.last_update <= now
  PROVE  LET refunded == TokenRefund(s, capacity, cost, now, rate)
             committed == TokenCommit(s, cost) IN
         /\ committed.last_update <= now /\ Worth(committed, rate, now) = Worth(s, rate, now)
         /\ refunded.last_update <= now
         /\ Worth(refunded, rate, now) <= Worth(s, rate, now) + NanosPerSec * cost
<1> DEFINE t == Refill(s, capacity, rate, now)
           credits == Lesser((t.credits + cost) % (U64Max + 1), capacity)
           refunded == TokenRefund(s, capacity, cost, now, rate)
           committed == TokenCommit(s, cost)
<1>1. rate \in Nat /\ capacity \in Nat /\ cost \in Nat /\ now \in Nat /\ NanosPerSec \in Nat
  BY Widths DEF U64, Cost, Duration
<1>2. /\ t \in TokenBucketState /\ t.last_update = now
      /\ NanosPerSec * t.credits <= Worth(s, rate, now)
  BY <1>1, RefillEffect, RefillWorth
<1>3. refunded = [t EXCEPT !.in_flight = SatSub(@, cost), !.credits = credits]
  BY DEF TokenRefund
<1>4. committed.last_update = s.last_update /\ committed.credits = s.credits
  BY DEF TokenCommit, TokenBucketState
<1> HIDE DEF t
<1>5. t.credits \in Nat /\ t.credits + cost \in Nat
  BY <1>1, <1>2, Widths DEF TokenBucketState, U64
<1>6. credits \in Nat /\ credits <= t.credits + cost
  <2>1. \A n \in Nat : n % (U64Max + 1) \in Nat /\ n % (U64Max + 1) <= n
    BY Widths
  <2> QED
    BY <1>1, <1>5, <2>1 DEF Lesser
<1>7. refunded.last_update = now /\ refunded.credits = credits
  BY <1>2, <1>3 DEF TokenBucketState
<1> HIDE DEF credits, refunded, committed
<1>8. Worth(refunded, rate, now) = NanosPerSec * credits
  BY <1>1, <1>6, <1>7 DEF Worth
<1>9. NanosPerSec * credits <= NanosPerSec * (t.credits + cost)
  BY <1>1, <1>5, <1>6
<1>10. NanosPerSec * (t.credits + cost) = NanosPerSec * t.credits + NanosPerSec * cost
  BY <1>1, <1>5
<1>11. /\ NanosPerSec * t.credits \in Nat /\ NanosPerSec * cost \in Nat
       /\ NanosPerSec * credits \in Nat
  BY <1>1, <1>5, <1>6
<1>12. Worth(s, rate, now) \in Nat
  BY WorthType
<1>13. Worth(refunded, rate, now) <= Worth(s, rate, now) + NanosPerSec * cost
  BY <1>2, <1>8, <1>9, <1>10, <1>11, <1>12
<1>14. Worth(committed, rate, now) = Worth(s, rate, now)
  BY <1>4 DEF Worth
<1> QED
  BY <1>1, <1>4, <1>7, <1>13, <1>14 DEF refunded, committed

\* A resized pool has what it had, and what it was enlarged by.
LEMMA TokenResizeWorth ==
  ASSUME NEW s \in TokenBucketState, NEW old \in U64, NEW new \in U64, NEW rate \in U64,
         NEW now \in Duration, s.last_update <= now
  PROVE  LET t == ApplyCapacityChange(Refill(s, old, rate, now), old, new) IN
         /\ t \in TokenBucketState
         /\ t.last_update = now
         /\ NanosPerSec * t.credits <= Worth(s, rate, now) + NanosPerSec * SatSub(new, old)
<1> DEFINE r == Refill(s, old, rate, now)
           more == SatSub(new, old)
           credits == Lesser(SatAdd(r.credits, more, U64Max), new)
           t == ApplyCapacityChange(r, old, new)
<1>1. rate \in Nat /\ old \in Nat /\ new \in Nat /\ NanosPerSec \in Nat /\ U64Max \in Nat
  BY Widths DEF U64
<1>2. /\ r \in TokenBucketState /\ r.last_update = now
      /\ NanosPerSec * r.credits <= Worth(s, rate, now)
  BY <1>1, RefillEffect, RefillWorth
<1> HIDE DEF r
<1>3. t \in TokenBucketState
  BY <1>2, TokenResizeEffect
<1>4. t.last_update = now /\ t.credits = credits
  BY <1>2 DEF ApplyCapacityChange, TokenBucketState
<1>5. r.credits \in Nat /\ more \in Nat
  BY <1>1, <1>2, Widths DEF TokenBucketState, U64, SatSub
<1> HIDE DEF more, t
<1>6. credits \in Nat /\ credits <= r.credits + more
  BY <1>1, <1>5 DEF Lesser, SatAdd
<1> HIDE DEF credits
<1>7. NanosPerSec * credits <= NanosPerSec * (r.credits + more)
  BY <1>1, <1>5, <1>6
<1>8. NanosPerSec * (r.credits + more) = NanosPerSec * r.credits + NanosPerSec * more
  BY <1>1, <1>5
<1>9. /\ NanosPerSec * r.credits \in Nat /\ NanosPerSec * more \in Nat
      /\ NanosPerSec * credits \in Nat /\ Worth(s, rate, now) \in Nat
  BY <1>1, <1>5, <1>6, WorthType
<1>10. NanosPerSec * t.credits <= Worth(s, rate, now) + NanosPerSec * more
  BY <1>2, <1>4, <1>7, <1>8, <1>9
<1> QED
  BY <1>3, <1>4, <1>10 DEF t, r, more

\* A quotient rounded down is below n exactly when the quotient is.
LEMMA DivBelow ==
  ASSUME NEW a \in Nat, NEW b \in Nat \ {0}, NEW n \in Nat
  PROVE  a \div b < n <=> a < n * b
<1> DEFINE q == a \div b
<1>1. q \in Nat /\ q * b <= a /\ a < (q + 1) * b
  OBVIOUS
<1> HIDE DEF q
<1>2. ASSUME q < n PROVE a < n * b
  <2>1. (q + 1) * b <= n * b
    BY <1>1, <1>2
  <2>2. (q + 1) * b \in Nat /\ n * b \in Nat
    BY <1>1
  <2> QED
    BY <1>1, <2>1, <2>2
<1>3. ASSUME n <= q PROVE n * b <= a
  <2>1. n * b <= q * b
    BY <1>1, <1>3
  <2>2. n * b \in Nat /\ q * b \in Nat
    BY <1>1
  <2> QED
    BY <1>1, <2>1, <2>2
<1>4. n * b \in Nat
  OBVIOUS
<1>5. q < n <=> a < n * b
  BY <1>1, <1>2, <1>3, <1>4
<1> QED
  BY <1>5 DEF q

-----------------------------------------------------------------------------
(***************************************************************************)
(* Pools are credited for the past only.                                   *)
(***************************************************************************)
\* A pool is never credited for time to come.
InTime(s, time) == s.algo = "TokenBucket" => s.last_update <= time

LEMMA RefillUntil ==
  ASSUME NEW s \in TokenBucketState, NEW capacity, NEW rate, NEW time \in Duration,
         s.last_update <= time
  PROVE  Refill(s, capacity, rate, time).last_update = time
BY Widths DEF Refill, TokenBucketState, Duration

LEMMA ReserveInTime ==
  ASSUME NEW b \in Bucket, NEW a \in AlgorithmConfig, NEW cost \in Cost,
         NEW time \in Duration, InTime(b.state, time)
  PROVE  InTime(TryReserve(b, a, cost, time).bucket.state, time)
<1> DEFINE s == b.state
           after == StateTryReserve(s, a, cost, time).state
<1>1. s \in BucketState /\ time \in Nat
  BY Widths DEF Bucket, BucketState, Duration
<1>2. InTime(after, time)
  <2>1. CASE s.algo # "TokenBucket"
    BY <1>1, <2>1, StateTryReserveEffect DEF InTime
  <2>2. CASE s.algo = "TokenBucket" /\ a.kind # "TokenBucket"
    BY <2>2 DEF StateTryReserve, InTime
  <2>3. CASE s.algo = "TokenBucket" /\ a.kind = "TokenBucket"
    <3> DEFINE t == Refill(s, a.capacity, a.refill_per_sec, time)
    <3>1. /\ s \in TokenBucketState /\ a.capacity \in U64 /\ a.refill_per_sec \in U64
          /\ s.last_update <= time
      BY <1>1, <2>3, StateKind, AlgorithmKind DEF InTime
    <3>2. t \in TokenBucketState /\ t.last_update = time
      BY <3>1, RefillEffect, RefillUntil
    <3>3. after = TokenTryReserve(s, a.capacity, a.refill_per_sec, cost, time).state
      BY <2>3 DEF StateTryReserve
    <3>4. \/ after = s \/ after = t
          \/ after = [t EXCEPT !.credits = @ - cost, !.in_flight = SatAdd(@, cost, U64Max)]
      BY <3>3 DEF TokenTryReserve
    <3> HIDE DEF t, after
    <3>5. CASE after = s
      BY <3>1, <3>5 DEF InTime
    <3>6. CASE after # s
      <4>1. after.last_update = time
        BY <3>2, <3>4, <3>6 DEF TokenBucketState
      <4> QED
        BY <1>1, <4>1 DEF InTime
    <3> QED
      BY <3>5, <3>6
  <2> QED
    BY <2>1, <2>2, <2>3
<1> HIDE DEF after
<1>3. \/ TryReserve(b, a, cost, time).bucket.state = s
      \/ TryReserve(b, a, cost, time).bucket.state = after
  BY TryReserveShape DEF after
<1> QED
  BY <1>2, <1>3

LEMMA FinalizeInTime ==
  ASSUME NEW s \in BucketState, NEW a \in AlgorithmConfig, NEW p, NEW sent \in BOOLEAN,
         NEW time \in Duration, StillKnows(s, p, a), InTime(s, time)
  PROVE  /\ InTime(FinalizeState(s, p, sent, a, time), time)
         /\ InTime(RefundState(s, p, a, time), time)
<1>1. CASE s.algo # "TokenBucket"
  <2>1. /\ Finalizes(s, p, FinalizeState(s, p, sent, a, time))
        /\ Finalizes(s, p, RefundState(s, p, a, time))
    BY FinalizeStateEffect
  <2>2. \A after : Finalizes(s, p, after) => InTime(after, time)
    BY <1>1 DEF Finalizes, InTime
  <2> QED
    BY <2>1, <2>2
<1>2. CASE s.algo = "TokenBucket"
  <2> DEFINE t == Refill(s, a.capacity, a.refill_per_sec, time)
             refunded == TokenRefund(s, a.capacity, p.cost, time, a.refill_per_sec)
             committed == TokenCommit(s, p.cost)
  <2>1. /\ s \in TokenBucketState /\ a.capacity \in U64 /\ a.refill_per_sec \in U64
        /\ s.last_update <= time /\ a.kind = "TokenBucket" /\ p.algo = "TokenBucket"
    BY <1>2, StateKind, AlgorithmKind DEF InTime, StillKnows
  <2>2. t \in TokenBucketState /\ t.last_update = time
    BY <2>1, RefillEffect, RefillUntil
  <2>3. refunded.last_update = t.last_update
    BY <2>2 DEF TokenRefund, TokenBucketState
  <2>4. committed.last_update = s.last_update
    BY <2>1 DEF TokenCommit, TokenBucketState
  <2> HIDE DEF t, refunded, committed
  <2>5. time \in Nat
    BY Widths DEF Duration
  <2>6. InTime(refunded, time) /\ InTime(committed, time)
    BY <2>1, <2>2, <2>3, <2>4, <2>5 DEF InTime
  <2>7. /\ RefundState(s, p, a, time) = refunded
        /\ FinalizeState(s, p, sent, a, time) = IF sent THEN committed ELSE refunded
    BY <1>2, <2>1 DEF RefundState, FinalizeState, refunded, committed
  <2> QED
    BY <2>6, <2>7
<1> QED
  BY <1>1, <1>2

LEMMA NewInTime ==
  ASSUME NEW a, NEW time \in Duration
  PROVE  InTime(NewState(time, a), time)
BY Widths DEF InTime, NewState, NewFixedWindow, NewTokenBucket, Duration

LEMMA UpdateInTime ==
  ASSUME NEW s \in BucketState, NEW old \in AlgorithmConfig, NEW new \in AlgorithmConfig,
         NEW time \in Duration, InTime(s, time)
  PROVE  InTime(StateOnUpdate(s, old, new, time), time)
<1>1. CASE s.algo = "TokenBucket" /\ old.kind = "TokenBucket" /\ new.kind = "TokenBucket"
  <2> DEFINE t == Refill(s, old.capacity, old.refill_per_sec, time)
  <2>1. /\ s \in TokenBucketState /\ old.capacity \in U64 /\ old.refill_per_sec \in U64
        /\ s.last_update <= time
    BY <1>1, StateKind, AlgorithmKind DEF InTime
  <2>2. t \in TokenBucketState /\ t.last_update = time
    BY <2>1, RefillEffect, RefillUntil
  <2>3. StateOnUpdate(s, old, new, time) = ApplyCapacityChange(t, old.capacity, new.capacity)
    BY <1>1 DEF StateOnUpdate
  <2> HIDE DEF t
  <2>4. ApplyCapacityChange(t, old.capacity, new.capacity).last_update = time
    BY <2>2 DEF ApplyCapacityChange, TokenBucketState
  <2>5. time <= time
    BY Widths DEF Duration
  <2> QED
    BY <2>3, <2>4, <2>5 DEF InTime
<1>2. CASE ~(s.algo = "TokenBucket" /\ old.kind = "TokenBucket" /\ new.kind = "TokenBucket")
  <2>1. CASE StateOnUpdate(s, old, new, time) = NewState(time, new)
    BY <2>1, NewInTime
  <2>2. CASE StateOnUpdate(s, old, new, time) # NewState(time, new)
    BY <1>2, <2>2 DEF StateOnUpdate, NewFixedWindow, InTime
  <2> QED
    BY <2>1, <2>2
<1> QED
  BY <1>1, <1>2
=============================================================================
