-------------------------- MODULE ClientServerProofs --------------------------
(***************************************************************************)
(* The limiter and the server it is tested against, for every number of    *)
(* callers and keys and every delay, loss and expiry: types, backoffs that *)
(* are heeded, the server's load, and who can be turned away.              *)
(***************************************************************************)
EXTENDS ClientServer, RateLimiterProofs

(***************************************************************************)
(* The composition runs the limiter unchanged, so what holds of every      *)
(* limiter holds of this one; configurations and server limits never       *)
(* change, and both sides run the same algorithm.                          *)
(***************************************************************************)
CInv ==
  /\ IInv
  /\ CTypeOK
  /\ cfg \in Configs
  /\ algo.kind = cfg.algorithm.kind
  /\ ClockShortOfMax => now < DurationMax

LEMMA NoServerKeyIsNone == NoServerKey \notin ServerKeyState
BY LimiterAssumption, Widths DEF LimiterAssumption, NoServerKey, ServerKeyState, Duration

LEMMA FlightTypes ==
  /\ NoFlight \in Flight
  /\ Accepted \in ServerDecision
  /\ \A w \in Duration : Rejected(w) \in ServerDecision
<1>1. 0 \in Duration
  BY Widths DEF Duration
<1>2. Accepted \in ServerDecision /\ \A w \in Duration : Rejected(w) \in ServerDecision
  BY <1>1 DEF Accepted, Rejected, ServerDecision
<1> QED
  BY <1>1, <1>2 DEF NoFlight, Flight, Stages

LEMMA ServerAlgoType ==
  ASSUME CInv
  PROVE  /\ algo \in AlgorithmConfig /\ cfg.algorithm \in AlgorithmConfig
         /\ now \in Duration
         /\ algo.kind = "FixedWindow" =>
              /\ algo.max_per_window \in U32 /\ algo.window \in Duration \ {0}
              /\ cfg.algorithm.max_per_window \in U32 /\ cfg.algorithm.window \in Duration \ {0}
         /\ algo.kind # "FixedWindow" =>
              /\ algo.kind = "TokenBucket"
              /\ algo.capacity \in U64 /\ algo.refill_per_sec \in U64
              /\ cfg.algorithm.capacity \in U64 /\ cfg.algorithm.refill_per_sec \in U64
<1>1. algo \in AlgorithmConfig
  BY ClientServerAssumption DEF CInv, CTypeOK, ClientServerAssumption
<1>2. cfg.algorithm \in AlgorithmConfig /\ now \in Duration
  BY DEF CInv, IInv, TypeOK, Config
<1> QED
  BY <1>1, <1>2, AlgorithmKind DEF CInv

\* The server's window is where the limiter's would be, a whole window or more ahead.
LEMMA AdvancedType ==
  ASSUME NEW st \in ServerKeyState, NEW a \in AlgorithmConfig, NEW t \in Duration
  PROVE  /\ Advanced(st, a, t) \in ServerKeyState
         /\ Advanced(st, a, t).blocked_until = st.blocked_until
<1>1. CASE a.kind = "FixedWindow"
  <2>1. a.window \in Duration \ {0}
    BY <1>1, AlgorithmKind
  <2>2. WindowOf(t, a.window) \in Duration
    <3>1. WindowStartFor(t, a.window) \in 0..t
      BY <2>1, WindowStartType
    <3> QED
      BY <3>1, Widths DEF WindowOf, WindowStartFor, Duration
  <2>3. 0 \in U32
    BY Widths DEF U32
  <2> QED
    BY <1>1, <2>2, <2>3 DEF Advanced, AdvanceWindow, ServerKeyState
<1>2. CASE a.kind # "FixedWindow"
  <2>1. a.capacity \in U64 /\ a.refill_per_sec \in U64
    BY <1>2, AlgorithmKind
  <2> DEFINE added == Lesser(((t - st.last_update) * a.refill_per_sec) \div NanosPerSec, U64Max)
             credits == Lesser(SatAdd(st.credits, added, U64Max), a.capacity)
  <2>2. st.credits \in U64 /\ st.last_update \in Duration
    BY DEF ServerKeyState
  <2>3. ASSUME t > st.last_update PROVE credits \in U64
    <3>1. t - st.last_update \in Nat
      BY <2>2, <2>3, Widths DEF Duration
    <3>2. added \in U64
      <4> DEFINE delta == t - st.last_update
      <4>1. delta \in Nat
        BY <3>1
      <4> HIDE DEF delta
      <4>2. CreditsAdded(delta, a.refill_per_sec) \in U64
        BY <2>1, <4>1, CreditsAddedType
      <4> QED
        BY <4>2 DEF CreditsAdded, delta
    <3> HIDE DEF added
    <3> QED
      BY <2>1, <2>2, <3>2, Widths DEF U64, SatAdd, Lesser
  <2> HIDE DEF credits
  <2>4. Advanced(st, a, t) = IF t > st.last_update
                             THEN [st EXCEPT !.credits = credits, !.last_update = t] ELSE st
    BY <1>2 DEF Advanced, RefillKey, credits
  <2> QED
    BY <2>3, <2>4 DEF ServerKeyState
<1> QED
  BY <1>1, <1>2

LEMMA NewServerKeyType ==
  ASSUME NEW a \in AlgorithmConfig, NEW t \in Duration
  PROVE  NewServerKey(a, t) \in ServerKeyState
<1>1. 0 \in U32 /\ 0 \in U64 /\ 0 \in Duration
  BY Widths DEF U32, U64, Duration
<1>2. CASE a.kind = "FixedWindow"
  <2>1. a.window \in Duration \ {0}
    BY <1>2, AlgorithmKind
  <2>2. WindowOf(t, a.window) \in Duration
    <3>1. WindowStartFor(t, a.window) \in 0..t
      BY <2>1, WindowStartType
    <3> QED
      BY <3>1, Widths DEF WindowOf, WindowStartFor, Duration
  <2> QED
    BY <1>1, <1>2, <2>2 DEF NewServerKey, ServerKeyState
<1>3. CASE a.kind # "FixedWindow"
  <2>1. a.capacity \in U64
    BY <1>3, AlgorithmKind
  <2> QED
    BY <1>1, <1>3, <2>1 DEF NewServerKey, ServerKeyState
<1> QED
  BY <1>2, <1>3

\* A wait the server announces is over by the time its block ends.
LEMMA DecideType ==
  ASSUME NEW st \in ServerKeyState, NEW a \in AlgorithmConfig, NEW cost \in Cost,
         NEW t \in Duration
  PROVE  Decide(st, a, cost, t) \in ServerDecision
<1> DEFINE adv == Advanced(st, a, t)
<1>1. adv \in ServerKeyState
  BY AdvancedType
<1>2. DurationMax \in Duration /\ Rejected(DurationMax) \in ServerDecision
  BY Widths, FlightTypes DEF Duration
<1>3. ASSUME t < st.blocked_until PROVE Rejected(st.blocked_until - t) \in ServerDecision
  <2>1. st.blocked_until - t \in Duration
    BY <1>3, Widths DEF ServerKeyState, Duration
  <2> QED
    BY <2>1, FlightTypes
<1>4. ASSUME a.kind = "FixedWindow" PROVE WindowDecision(adv, a, cost, t) \in ServerDecision
  <2>1. a.window \in Duration /\ adv.window_start \in Duration
    BY <1>1, <1>4, AlgorithmKind DEF ServerKeyState
  <2> HIDE DEF adv
  <2> DEFINE wait == SatSub(SatAdd(adv.window_start, a.window, DurationMax), t)
  <2>2. wait \in Duration
    BY <2>1, Widths DEF SatSub, SatAdd, Lesser, Duration
  <2>3. Rejected(wait) \in ServerDecision
    BY <2>2, FlightTypes
  <2> HIDE DEF wait
  <2>4. WindowDecision(adv, a, cost, t) \in {Rejected(DurationMax), Rejected(wait), Accepted}
    BY DEF WindowDecision, wait
  <2> QED
    BY <1>2, <2>3, <2>4, FlightTypes
<1>5. ASSUME a.kind # "FixedWindow" PROVE PoolDecision(adv, a, cost) \in ServerDecision
  <2>1. a.refill_per_sec \in U64 /\ adv.credits \in U64
    BY <1>1, <1>5, AlgorithmKind DEF ServerKeyState
  <2> HIDE DEF adv
  <2> DEFINE wait == DivCeil((cost - adv.credits) * NanosPerSec, a.refill_per_sec)
  <2>2. ASSUME ~(adv.credits >= cost), a.refill_per_sec # 0
        PROVE  Rejected(wait) \in ServerDecision
    <3>1. cost - adv.credits \in 0..U64Max
      BY <2>1, <2>2, Widths DEF U64, Cost
    <3>2. RetryAfterForDeficit(cost - adv.credits, a.refill_per_sec) \in Duration
      BY <2>1, <2>2, <3>1, RetryAfterForDeficitType
    <3> QED
      BY <3>2, FlightTypes DEF RetryAfterForDeficit
  <2> HIDE DEF wait
  <2>3. \/ PoolDecision(adv, a, cost) \in {Rejected(DurationMax), Accepted}
        \/ /\ ~(adv.credits >= cost) /\ a.refill_per_sec # 0
           /\ PoolDecision(adv, a, cost) = Rejected(wait)
    BY DEF PoolDecision, wait
  <2> QED
    BY <1>2, <2>2, <2>3, FlightTypes
<1> QED
  BY <1>3, <1>4, <1>5 DEF Decide

LEMMA ApplyOutcomeType ==
  ASSUME NEW st \in ServerKeyState, NEW a \in AlgorithmConfig, NEW cost \in Cost,
         NEW t \in Duration, NEW decision \in ServerDecision
  PROVE  ApplyOutcome(st, a, cost, decision, t) \in ServerKeyState
<1> DEFINE adv == Advanced(st, a, t)
           until == SatAdd(t, decision.retry_after, DurationMax)
           counted == IF a.kind = "FixedWindow"
                      THEN [adv EXCEPT !.spent = SatAdd(@, cost, U32Max)]
                      ELSE [adv EXCEPT !.credits = SatSub(@, cost)]
<1>1. adv \in ServerKeyState
  BY AdvancedType
<1>2. until \in Duration
  BY Widths DEF ServerDecision, SatAdd, Lesser, Duration
<1>3. SatAdd(adv.spent, cost, U32Max) \in U32 /\ SatSub(adv.credits, cost) \in U64
  <2>1. adv.spent \in U32 /\ adv.credits \in U64
    BY <1>1 DEF ServerKeyState
  <2> HIDE DEF adv
  <2> QED
    BY <2>1, Widths DEF SatAdd, SatSub, Lesser, U32, U64, Cost
<1> HIDE DEF adv, until
<1>4. counted \in ServerKeyState /\ counted.blocked_until \in Duration
  BY <1>1, <1>3 DEF ServerKeyState
<1>5. Greater(counted.blocked_until, until) \in Duration
  BY <1>2, <1>4 DEF Greater
<1>6. ApplyOutcome(st, a, cost, decision, t) =
        IF decision.ok THEN counted
        ELSE [counted EXCEPT !.blocked_until = Greater(@, until)]
  BY DEF ApplyOutcome, adv, until
<1> HIDE DEF counted
<1> QED
  BY <1>4, <1>5, <1>6 DEF ServerKeyState

-----------------------------------------------------------------------------
(***************************************************************************)
(* Types.                                                                  *)
(***************************************************************************)
\* Where c's request arrives, and what the server makes of it.
KeyOf(c) == permits[c].key

VerdictOn(c) == Decide(ServerKeyAt(KeyOf(c)), algo, permits[c].cost, now)

StateAfter(c) == ApplyOutcome(ServerKeyAt(KeyOf(c)), algo, permits[c].cost, VerdictOn(c), now)

LEMMA InFlightPermit ==
  ASSUME CInv, NEW c \in Callers, flights[c].stage # "none"
  PROVE  /\ Holds(c) /\ permits[c] \in Permit /\ permits[c].cost \in Cost
         /\ KeyOf(c) \in Keys /\ Tracked(KeyOf(c))
         /\ ServerKeyAt(KeyOf(c)) \in ServerKeyState
         /\ flights[c] \in Flight
<1>1. Holds(c) /\ flights[c] \in Flight
  BY DEF CInv, CTypeOK
<1>2. permits[c] \in Permit
  BY <1>1, HoldsIffKey DEF CInv, IInv
<1>3. Tracked(KeyOf(c))
  BY <1>1 DEF CInv, IInv, PermitsFinalizable, KeyOf
<1>4. ServerKeyAt(KeyOf(c)) \in ServerKeyState
  <2>1. NewServerKey(algo, now) \in ServerKeyState
    BY ServerAlgoType, NewServerKeyType
  <2>2. KeyOf(c) \in Keys
    BY <1>2 DEF Permit, KeyOf
  <2> QED
    BY <2>1, <2>2 DEF ServerKeyAt, CInv, CTypeOK
<1> QED
  BY <1>1, <1>2, <1>3, <1>4 DEF Permit, KeyOf

LEMMA ArrivalTypes ==
  ASSUME CInv, NEW c \in Callers, flights[c].stage # "none"
  PROVE  /\ VerdictOn(c) \in ServerDecision
         /\ StateAfter(c) \in ServerKeyState
<1>1. VerdictOn(c) \in ServerDecision
  BY InFlightPermit, ServerAlgoType, DecideType DEF VerdictOn
<1> QED
  BY <1>1, InFlightPermit, ServerAlgoType, ApplyOutcomeType DEF StateAfter

\* Whatever a flight is finalized with, the limiter takes it.
LEMMA OutcomesAreLimiters ==
  /\ [kind |-> "SentNoConfirm", scope |-> "None", retry_after |-> 0] \in Outcome
  /\ [kind |-> "NotSent", scope |-> "None", retry_after |-> 0] \in Outcome
  /\ \A d \in ServerDecision : OutcomeOf(d) \in Outcome
<1>1. \A d \in ServerDecision : d.retry_after \in Backoffs
  BY ClientServerAssumption DEF ClientServerAssumption, ServerDecision
<1> QED
  BY <1>1 DEF Outcome, OutcomeOf

\* What a flight's end is to the limiter: the permit is refunded or committed.
FlightEnds(c) ==
  /\ flights[c].stage # "none"
  /\ Refund(c) \/ \E outcome \in Outcome : Commit(c, outcome)
  /\ flights' = [flights EXCEPT ![c] = NoFlight]
  /\ UNCHANGED <<algo, server, straggled>>

\* What happens to a flight between its start and its end.
FlightMoves(c) ==
  /\ UNCHANGED vars
  /\ Transmit(c) \/ Lose(c) \/ Arrive(c)

LEMMA StepShapes ==
  ASSUME CInv, [CNext]_cvars
  PROVE  \/ \E c \in Callers, route \in Keys, cost \in Costs, d \in Deadlines :
              Acquire(c, route, cost, d)
         \/ \E c \in Callers : FlightMoves(c)
         \/ \E c \in Callers :
              FlightEnds(c) /\ (FailToSend(c) \/ Answer(c) \/ Expire(c))
         \/ CTick
         \/ UNCHANGED cvars
<1>1. ASSUME NEW c \in Callers, Transmit(c) \/ Lose(c) \/ Arrive(c)
      PROVE  FlightMoves(c)
  BY <1>1 DEF FlightMoves, Transmit, Lose, Arrive, Moves
<1>2. ASSUME NEW c \in Callers, FailToSend(c) PROVE FlightEnds(c)
  BY <1>2, OutcomesAreLimiters DEF FailToSend, FlightFinalize, FlightEnds
<1>3. ASSUME NEW c \in Callers, Answer(c) PROVE FlightEnds(c)
  <2>1. OutcomeOf(flights[c].decision) \in Outcome
    BY OutcomesAreLimiters DEF CInv, CTypeOK, Flight
  <2> QED
    BY <1>3, <2>1 DEF Answer, FlightFinalize, FlightEnds
<1>4. ASSUME NEW c \in Callers, Expire(c) PROVE FlightEnds(c)
  BY <1>4, OutcomesAreLimiters DEF Expire, FlightExpire, FlightEnds
<1> QED
  BY <1>1, <1>2, <1>3, <1>4 DEF CNext

LEMMA LimiterInv ==
  ASSUME CInv, [CNext]_cvars
  PROVE  IInv' /\ cfg' = cfg /\ algo' = algo
<1>1. IInv
  BY DEF CInv
<1>2. ASSUME NEW c \in Callers, NEW route \in Keys, NEW cost \in Costs, NEW d \in Deadlines,
             Acquire(c, route, cost, d)
      PROVE  IInv' /\ cfg' = cfg /\ algo' = algo
  BY <1>1, <1>2, TryAcquireInv DEF Acquire, TryAcquire
<1>3. ASSUME UNCHANGED vars
      PROVE  IInv' /\ cfg' = cfg
  BY <1>1, <1>3, TickInv DEF vars
<1>4. ASSUME NEW c \in Callers, FlightMoves(c)
      PROVE  IInv' /\ cfg' = cfg /\ algo' = algo
  BY <1>3, <1>4 DEF FlightMoves, Transmit, Lose, Arrive, Moves
<1>5. ASSUME NEW c \in Callers, FlightEnds(c)
      PROVE  IInv' /\ cfg' = cfg /\ algo' = algo
  BY <1>1, <1>5, RefundInv, CommitInv DEF FlightEnds, Refund, Commit, Finalized
<1>6. ASSUME CTick PROVE IInv' /\ cfg' = cfg /\ algo' = algo
  BY <1>1, <1>6, TickInv DEF CTick, Tick
<1>7. ASSUME UNCHANGED cvars PROVE IInv' /\ cfg' = cfg /\ algo' = algo
  BY <1>3, <1>7 DEF cvars
<1> QED
  BY <1>2, <1>4, <1>5, <1>6, <1>7, StepShapes

\* What only the composition adds to the limiter's types.
CompositionTypes ==
  /\ server \in [Keys -> ServerKeyState \cup {NoServerKey}]
  /\ flights \in [Callers -> Flight]
  /\ heard \in [Keys -> Duration]
  /\ straggled \subseteq Keys /\ returned \subseteq Keys
  /\ \A c \in Callers : Holds(c) <=> flights[c].stage # "none"

LEMMA AcquireTypes ==
  ASSUME CInv, IInv', NEW c \in Callers, NEW route \in Keys, NEW cost \in Costs,
         NEW d \in Deadlines, Acquire(c, route, cost, d)
  PROVE  CompositionTypes'
<1>1. flights[c].stage = "none" /\ ~Holds(c)
  BY DEF Acquire, TryAcquire
<1>2. \A e \in Callers : e # c => permits'[e] = permits[e]
  BY DEF Acquire, TryAcquire, GlobalDeny, SlowStartDeny, KeyBoundDeny, BucketAnswer, CInv,
         IInv, TypeOK
<1>3. ASSUME Holds(c)'
      PROVE  /\ heard[permits'[c].key] \in Duration
             /\ [NoFlight EXCEPT !.stage = "attached", !.deadline = d, !.issued_at = now,
                                 !.known_block = heard[permits'[c].key]] \in Flight
  <2>1. permits'[c] \in Permit
    BY <1>3 DEF Holds, IInv, TypeOK
  <2>2. heard[permits'[c].key] \in Duration
    BY <2>1 DEF Permit, CInv, CTypeOK
  <2>3. d \in Duration
    BY ClientServerAssumption, LimiterAssumption, Widths
    DEF ClientServerAssumption, LimiterAssumption, Duration
  <2> QED
    BY <2>2, <2>3, FlightTypes, ServerAlgoType DEF Flight, NoFlight, Stages
<1>4. flights' \in [Callers -> Flight]
  BY <1>3 DEF Acquire, CInv, CTypeOK
<1>5. \A e \in Callers : Holds(e)' <=> flights'[e].stage # "none"
  <2> SUFFICES ASSUME NEW e \in Callers PROVE Holds(e)' <=> flights'[e].stage # "none"
    OBVIOUS
  <2>1. CASE e # c
    BY <1>2, <2>1 DEF Acquire, Holds, CInv, CTypeOK
  <2>2. CASE e = c /\ Holds(c)'
    BY <2>2, FlightTypes DEF Acquire, CInv, CTypeOK, NoFlight
  <2>3. CASE e = c /\ ~Holds(c)'
    BY <1>1, <2>3 DEF Acquire
  <2> QED
    BY <2>1, <2>2, <2>3
<1> QED
  BY <1>4, <1>5 DEF CompositionTypes, Acquire, history, CInv, CTypeOK

LEMMA MoveTypes ==
  ASSUME CInv, NEW c \in Callers, FlightMoves(c)
  PROVE  CompositionTypes'
<1>1. flights \in [Callers -> Flight] /\ server \in [Keys -> ServerKeyState \cup {NoServerKey}]
  BY DEF CInv, CTypeOK
<1>2. permits' = permits
  BY DEF FlightMoves, vars
<1>3. ASSUME NEW stage \in Stages, stage # "none", flights[c].stage # "none",
             flights' = [flights EXCEPT ![c].stage = stage],
             UNCHANGED <<server, heard, straggled, returned>>
      PROVE  CompositionTypes'
  BY <1>1, <1>2, <1>3 DEF CompositionTypes, CInv, CTypeOK, Flight, Holds
<1>4. CASE Transmit(c)
  BY <1>3, <1>4 DEF Transmit, Moves, Stages, history
<1>5. CASE Lose(c)
  BY <1>3, <1>5 DEF Lose, Moves, Stages, history
<1>6. CASE Arrive(c)
  <2>1. flights[c].stage = "travelling"
    BY <1>6 DEF Arrive
  <2>2. VerdictOn(c) \in ServerDecision /\ StateAfter(c) \in ServerKeyState
    BY <2>1, ArrivalTypes
  <2>3. KeyOf(c) \in Keys
    BY <2>1, InFlightPermit
  <2> DEFINE until == IF VerdictOn(c).ok THEN 0 ELSE StateAfter(c).blocked_until
  <2>4. until \in Duration
    BY <2>2, Widths DEF ServerKeyState, Duration
  <2>5. /\ flights' = [flights EXCEPT ![c].stage = "answering", ![c].decision = VerdictOn(c),
                                      ![c].new_block = until]
        /\ server' = [server EXCEPT ![KeyOf(c)] = StateAfter(c)]
        /\ straggled' \in {straggled \cup {KeyOf(c)}, straggled \ {KeyOf(c)}}
        /\ UNCHANGED <<heard, returned>>
    BY <1>6 DEF Arrive, VerdictOn, StateAfter, KeyOf
  <2> HIDE DEF until
  <2>6. /\ flights' \in [Callers -> Flight]
        /\ \A e \in Callers : flights'[e].stage # "none" <=> flights[e].stage # "none"
    <3>1. flights[c] \in Flight /\ "answering" \in Stages
      BY <1>1 DEF Stages
    <3>2. [flights[c] EXCEPT !.stage = "answering", !.decision = VerdictOn(c),
                             !.new_block = until] \in Flight
      BY <2>2, <2>4, <3>1 DEF Flight
    <3>3. flights' = [flights EXCEPT ![c] =
                       [flights[c] EXCEPT !.stage = "answering", !.decision = VerdictOn(c),
                                          !.new_block = until]]
      BY <1>1, <2>5
    <3>4. flights' \in [Callers -> Flight]
      BY <1>1, <3>2, <3>3
    <3>5. flights'[c].stage = "answering" /\ \A e \in Callers : e # c => flights'[e] = flights[e]
      BY <1>1, <3>1, <3>3 DEF Flight
    <3> QED
      BY <2>1, <3>4, <3>5
  <2>7. server' \in [Keys -> ServerKeyState \cup {NoServerKey}] /\ straggled' \subseteq Keys
    BY <1>1, <2>2, <2>3, <2>5 DEF CInv, CTypeOK
  <2> QED
    BY <1>2, <2>5, <2>6, <2>7 DEF CompositionTypes, CInv, CTypeOK, Holds
<1> QED
  BY <1>4, <1>5, <1>6 DEF FlightMoves

LEMMA EndTypes ==
  ASSUME CInv, NEW c \in Callers, FlightEnds(c), FailToSend(c) \/ Answer(c) \/ Expire(c)
  PROVE  CompositionTypes'
<1>1. KeyOf(c) \in Keys /\ flights[c] \in Flight
  BY InFlightPermit DEF FlightEnds
<1>2. heard' \in [Keys -> Duration]
  <2>1. CASE Answer(c)
    <3>1. Greater(heard[KeyOf(c)], flights[c].new_block) \in Duration
      BY <1>1 DEF Greater, Flight, CInv, CTypeOK
    <3> QED
      BY <2>1, <3>1 DEF Answer, KeyOf, CInv, CTypeOK
  <2>2. CASE FailToSend(c) \/ Expire(c)
    BY <2>2 DEF FailToSend, Expire, CInv, CTypeOK
  <2> QED
    BY <2>1, <2>2
<1>3. returned' \subseteq Keys
  BY <1>1 DEF FailToSend, Answer, Expire, NoteRefund, KeyOf, CInv, CTypeOK
<1>4. permits' = [permits EXCEPT ![c] = NoPermit]
  BY DEF FlightEnds, Refund, Commit, Finalized
<1>5. flights' \in [Callers -> Flight] /\ NoFlight.stage = "none"
  BY FlightTypes DEF FlightEnds, CInv, CTypeOK, NoFlight
<1>6. \A e \in Callers : Holds(e)' <=> flights'[e].stage # "none"
  BY <1>4, <1>5 DEF FlightEnds, Holds, CInv, CTypeOK, IInv, TypeOK
<1> QED
  BY <1>2, <1>3, <1>5, <1>6 DEF CompositionTypes, FlightEnds, CInv, CTypeOK

LEMMA CInvStep ==
  ASSUME CInv, [CNext]_cvars
  PROVE  CInv'
<1>1. IInv' /\ cfg' = cfg /\ algo' = algo
  BY LimiterInv
<1>2. CompositionTypes'
  <2>1. ASSUME UNCHANGED <<permits, server, flights, heard, straggled, returned>>
        PROVE  CompositionTypes'
    BY <2>1 DEF CompositionTypes, CInv, CTypeOK, Holds
  <2>2. CASE CTick
    BY <2>1, <2>2 DEF CTick, Tick, history
  <2>3. CASE UNCHANGED cvars
    BY <2>1, <2>3 DEF cvars, vars
  <2> QED
    BY <1>1, <2>2, <2>3, StepShapes, AcquireTypes, MoveTypes, EndTypes
<1>3. now' = now \/ now' <= MaxTime
  <2>1. CASE CTick
    <3>1. now' \in (now + 1)..MaxTime /\ now \in Int /\ MaxTime \in Int
      BY <2>1, LimiterAssumption, Widths
      DEF CTick, Tick, LimiterAssumption, CInv, IInv, TypeOK, Duration
    <3> QED
      BY <3>1
  <2>2. ASSUME NEW c \in Callers, FlightEnds(c) PROVE now' = now
    BY <2>2 DEF FlightEnds, Refund, Commit, Finalized
  <2> QED
    BY <2>1, <2>2, StepShapes DEF Acquire, TryAcquire, FlightMoves, vars, cvars
<1>4. ClockShortOfMax => now' < DurationMax
  <2>1. now' \in Nat /\ MaxTime \in Nat /\ DurationMax \in Nat
    BY <1>1, LimiterAssumption, Widths DEF LimiterAssumption, IInv, TypeOK, Duration
  <2> QED
    BY <1>3, <2>1 DEF ClockShortOfMax, CInv
<1> QED
  BY <1>1, <1>2, <1>4 DEF CInv, CTypeOK, CompositionTypes, IInv

LEMMA CInitInv == CInit => CInv
<1> SUFFICES ASSUME CInit PROVE CInv
  OBVIOUS
<1>1. IInv /\ cfg \in Configs
  BY InitInv DEF CInit, Init
<1>2. CompositionTypes
  BY Widths, FlightTypes DEF CInit, Init, CompositionTypes, NoFlight, Holds, Duration
<1>3. ClockShortOfMax => now < DurationMax
  BY DEF CInit, Init, ClockShortOfMax
<1> QED
  BY <1>1, <1>2, <1>3 DEF CInit, CInv, CTypeOK, CompositionTypes, IInv

THEOREM CompositionInvariance == CSpec => []CInv
<1>1. CInv /\ [CNext]_cvars => CInv'
  BY CInvStep
<1> QED
  BY <1>1, CInitInv, PTL DEF CSpec

\* CTypeOK: every flight, server key and history variable has its type, and a
\* permit is open exactly as long as its LimiterInFlight.
THEOREM CompositionTyped == CSpec => []CTypeOK
<1>1. CInv => CTypeOK
  BY DEF CInv
<1> QED
  BY <1>1, CompositionInvariance, PTL

\* The composition's steps are the limiter's: what is proved of every limiter
\* holds of this one.
THEOREM ComposesLimiter == CSpec => Spec
<1>1. ASSUME CInv, [CNext]_cvars PROVE [Next]_vars
  <2>1. ASSUME NEW c \in Callers, NEW route \in Keys, NEW cost \in Costs, NEW d \in Deadlines,
               Acquire(c, route, cost, d)
        PROVE  Next
    BY <2>1 DEF Acquire, Next
  <2>2. ASSUME NEW c \in Callers, FlightEnds(c) PROVE Next
    BY <2>2 DEF FlightEnds, Next
  <2>3. CASE CTick
    BY <2>3 DEF CTick, Next
  <2>4. ASSUME NEW c \in Callers, FlightMoves(c) PROVE UNCHANGED vars
    BY <2>4 DEF FlightMoves
  <2>5. CASE UNCHANGED cvars
    BY <2>5 DEF cvars
  <2> QED
    BY <1>1, <2>1, <2>2, <2>3, <2>4, <2>5, StepShapes
<1>2. CInit => Init
  BY DEF CInit
<1>3. CInv /\ [CNext]_cvars => [Next]_vars
  BY <1>1
<1> QED
  BY <1>2, <1>3, CompositionInvariance, PTL DEF CSpec, Spec

-----------------------------------------------------------------------------
(***************************************************************************)
(* What the limiter's calls do to a caller's key.                          *)
(***************************************************************************)
AnswerAt(key, cost) == TryReserve(BucketAt(key), EffectiveAlgorithm, cost, now)

\* The bucket of `key` answered c; a permit it granted is attached to a flight.
Acquires(c, key, cost) ==
  /\ buckets' = [buckets EXCEPT ![key] = AnswerAt(key, cost).bucket]
  /\ \/ /\ AnswerAt(key, cost).reason # "Granted"
        /\ UNCHANGED <<permits, flights>>
     \/ /\ AnswerAt(key, cost).reason = "Granted"
        /\ permits' = [permits EXCEPT ![c] =
                         PermitFor(key, cost, AnswerAt(key, cost).bucket.state)]
        /\ \E d \in Duration :
             flights' = [flights EXCEPT ![c] =
                          [NoFlight EXCEPT !.stage = "attached", !.deadline = d,
                                           !.issued_at = now, !.known_block = heard[key]]]

LEMMA AcquireShape ==
  ASSUME NeverEvicts, CInv, NEW c \in Callers, NEW route \in Keys, NEW cost \in Costs,
         NEW d \in Deadlines, Acquire(c, route, cost, d)
  PROVE  /\ cost \in Cost /\ ~Holds(c) /\ flights[c].stage = "none"
         /\ UNCHANGED <<cfg, now, algo, server, heard, straggled, returned>>
         /\ \/ UNCHANGED <<buckets, permits, flights>>
            \/ \E key \in Keys : Acquires(c, key, cost)
<1> DEFINE key == ResolveBucketKey(route_map, route)
           answer == AnswerAt(key, cost)
           p == PermitFor(key, cost, answer.bucket.state)
<1>1. /\ ~Holds(c) /\ flights[c].stage = "none"
      /\ \/ GlobalDeny \/ SlowStartDeny(cost) \/ KeyBoundDeny(key, cost)
         \/ BucketAnswer(c, key, cost)
      /\ UNCHANGED <<cfg, now, algo, server, heard, straggled, returned>>
      /\ flights' = IF Holds(c)'
                    THEN [flights EXCEPT ![c] =
                           [NoFlight EXCEPT !.stage = "attached", !.deadline = d,
                                            !.issued_at = now,
                                            !.known_block = heard[permits'[c].key]]]
                    ELSE flights
  BY DEF Acquire, TryAcquire, history
<1>2. /\ cost \in Cost /\ key \in Keys /\ permits \in PermitTable
      /\ d \in Duration /\ TypeOK /\ cfg \in Configs
  BY LimiterAssumption, ClientServerAssumption, Widths
  DEF LimiterAssumption, ClientServerAssumption, CInv, IInv, TypeOK, ResolveBucketKey,
      PermitTable, Duration
<1> HIDE DEF key
<1>3. CASE GlobalDeny \/ SlowStartDeny(cost) \/ KeyBoundDeny(key, cost)
  <2>1. UNCHANGED <<buckets, permits>>
    BY <1>3 DEF GlobalDeny, SlowStartDeny, KeyBoundDeny
  <2>2. ~Holds(c)'
    BY <1>1, <2>1 DEF Holds
  <2> QED
    BY <1>1, <1>2, <2>1, <2>2
<1>4. CASE BucketAnswer(c, key, cost)
  <2>1. /\ \E i \in 0..Len(fifo) : HasRoom(key, i) /\ Place(key, i, answer.bucket)
        /\ permits' = IF answer.reason = "Granted" THEN [permits EXCEPT ![c] = p] ELSE permits
    BY <1>4 DEF BucketAnswer, AnswerAt
  <2>2. p.key = key
    BY DEF PermitFor
  <2> HIDE DEF p, answer
  <2>3. buckets' = [buckets EXCEPT ![key] = answer.bucket]
    BY <1>2, <2>1, PlacedWithoutEviction
  <2>4. CASE answer.reason = "Granted"
    <3>1. permits'[c] = p /\ permits' = [permits EXCEPT ![c] = p]
      BY <1>2, <2>1, <2>4 DEF PermitTable
    <3>2. Holds(c)'
      BY <1>2, <2>2, <3>1, NoPermitIsNone DEF Holds
    <3>3. flights' = [flights EXCEPT ![c] =
                       [NoFlight EXCEPT !.stage = "attached", !.deadline = d,
                                        !.issued_at = now, !.known_block = heard[key]]]
      BY <1>1, <2>2, <3>1, <3>2
    <3>4. Acquires(c, key, cost)
      BY <1>2, <2>3, <2>4, <3>1, <3>3 DEF Acquires, answer, p
    <3> QED
      BY <1>1, <1>2, <3>4
  <2>5. CASE answer.reason # "Granted"
    <3>1. UNCHANGED permits /\ ~Holds(c)'
      BY <1>1, <2>1, <2>5 DEF Holds
    <3>2. Acquires(c, key, cost)
      BY <1>1, <2>3, <2>5, <3>1 DEF Acquires, answer
    <3> QED
      BY <1>1, <1>2, <3>2
  <2> QED
    BY <2>4, <2>5
<1> QED
  BY <1>1, <1>3, <1>4

\* The permit of a request that was never sent is refunded, and the refund noted.
Refunds(c) ==
  /\ flights[c].stage = "attached"
  /\ buckets' = [buckets EXCEPT ![KeyOf(c)] = BucketRefund(@, permits[c], cfg.algorithm, now)]
  /\ NoteRefund(c)
  /\ heard' = heard

\* The permit is committed as sent, with the backoff `until` if the server announced one.
Commits(c, until) ==
  /\ buckets' = [buckets EXCEPT ![KeyOf(c)] =
                   BucketCommit(@, permits[c], TRUE, until, cfg.algorithm, now)]
  /\ returned' = returned
  /\ \/ heard' = heard
     \/ /\ flights[c].stage = "answering" /\ ~flights[c].decision.ok
        /\ heard' = [heard EXCEPT ![KeyOf(c)] = Greater(@, flights[c].new_block)]
        /\ until = SatAdd(now, flights[c].decision.retry_after, DurationMax)

LEMMA FinalizedBuckets ==
  ASSUME CInv, NEW c \in Callers, NEW b, Holds(c), Finalized(c, b)
  PROVE  buckets' = [buckets EXCEPT ![KeyOf(c)] = b]
BY HeldBucketKnows DEF CInv, Finalized, KeyOf

LEMMA EndShape ==
  ASSUME CInv, NEW c \in Callers, FlightEnds(c), FailToSend(c) \/ Answer(c) \/ Expire(c)
  PROVE  /\ UNCHANGED <<cfg, now, algo, server, straggled>>
         /\ permits' = [permits EXCEPT ![c] = NoPermit]
         /\ flights' = [flights EXCEPT ![c] = NoFlight]
         /\ Refunds(c) \/ \E until \in Duration : Commits(c, until)
<1>1. Holds(c)
  BY InFlightPermit DEF FlightEnds
<1>2. /\ UNCHANGED <<cfg, now, algo, server, straggled>>
      /\ permits' = [permits EXCEPT ![c] = NoPermit]
      /\ flights' = [flights EXCEPT ![c] = NoFlight]
  BY DEF FlightEnds, Refund, Commit, Finalized
<1>3. ASSUME flights[c].stage = "attached", Refund(c), NoteRefund(c), UNCHANGED heard
      PROVE  Refunds(c)
  <2>1. Finalized(c, BucketRefund(buckets[KeyOf(c)], permits[c], cfg.algorithm, now))
    BY <1>3 DEF Refund, KeyOf
  <2> QED
    BY <1>1, <1>3, <2>1, FinalizedBuckets DEF Refunds
<1>4. ASSUME NEW outcome \in Outcome, Commit(c, outcome), outcome.kind # "NotSent"
      PROVE  buckets' = [buckets EXCEPT ![KeyOf(c)] =
                           BucketCommit(@, permits[c], TRUE, KeyBlock(outcome),
                                        cfg.algorithm, now)]
  <2>1. Finalized(c, BucketCommit(buckets[KeyOf(c)], permits[c], outcome.kind # "NotSent",
                                  KeyBlock(outcome), cfg.algorithm, now))
    BY <1>4 DEF Commit, KeyOf, KeyBlock, OutcomeUntil
  <2>2. (outcome.kind # "NotSent") = TRUE
    BY <1>4
  <2>3. Finalized(c, BucketCommit(buckets[KeyOf(c)], permits[c], TRUE,
                                  KeyBlock(outcome), cfg.algorithm, now))
    BY <2>1, <2>2, Zenon
  <2> QED
    BY <1>1, <2>3, FinalizedBuckets
<1>5. \A outcome \in Outcome : KeyBlock(outcome) \in Duration
  BY OutcomeUntilType DEF CInv, IInv
<1>6. CASE FailToSend(c)
  BY <1>2, <1>3, <1>6 DEF FailToSend, FlightFinalize
<1>7. CASE Expire(c)
  <2> DEFINE outcome == [kind |-> "SentNoConfirm", scope |-> "None", retry_after |-> 0]
  <2>1. outcome \in Outcome /\ outcome.kind # "NotSent"
    BY OutcomesAreLimiters
  <2>2. CASE FlightExpire(c, "CommitSentNoConfirm") /\ UNCHANGED returned
    <3>1. Commit(c, outcome)
      BY <2>2 DEF FlightExpire
    <3>2. Commits(c, KeyBlock(outcome))
      BY <1>4, <1>7, <2>1, <2>2, <3>1 DEF Commits, Expire
    <3> QED
      BY <1>2, <1>5, <2>1, <3>2
  <2>3. CASE flights[c].stage = "attached" /\ FlightExpire(c, "Refund") /\ NoteRefund(c)
    BY <1>2, <1>3, <1>7, <2>3 DEF FlightExpire, Expire
  <2> QED
    BY <1>7, <2>2, <2>3 DEF Expire
<1>8. CASE Answer(c)
  <2> DEFINE decision == flights[c].decision
             outcome == OutcomeOf(decision)
  <2>1. /\ outcome \in Outcome /\ outcome.kind # "NotSent"
        /\ ~decision.ok => outcome.scope = "Key" /\ outcome.retry_after = decision.retry_after
    BY InFlightPermit, OutcomesAreLimiters DEF FlightEnds, Flight, OutcomeOf
  <2>2. Commit(c, outcome) /\ flights[c].stage = "answering" /\ returned' = returned
    BY <1>8, <2>1 DEF Answer, FlightFinalize
  <2>3. heard' = IF decision.ok THEN heard
                 ELSE [heard EXCEPT ![KeyOf(c)] = Greater(@, flights[c].new_block)]
    BY <1>8 DEF Answer, KeyOf
  <2>4. ~decision.ok => KeyBlock(outcome) = SatAdd(now, decision.retry_after, DurationMax)
    BY <2>1 DEF KeyBlock, OutcomeUntil
  <2> HIDE DEF outcome
  <2>5. Commits(c, KeyBlock(outcome))
    BY <1>4, <2>1, <2>2, <2>3, <2>4 DEF Commits
  <2> QED
    BY <1>2, <1>5, <2>1, <2>5
<1> QED
  BY <1>6, <1>7, <1>8

\* What a finalization leaves of the bucket: the block is kept, or extended.
LEMMA EndedBucket ==
  ASSUME CInv, NEW c \in Callers, flights[c].stage # "none", NEW until \in Duration
  PROVE  LET p == permits[c]
             b == buckets[KeyOf(c)]
             committed == BucketCommit(b, p, TRUE, until, cfg.algorithm, now)
             refunded == BucketRefund(b, p, cfg.algorithm, now)
         IN  /\ KeyOf(c) \in Keys /\ Tracked(KeyOf(c)) /\ b \in Bucket /\ b.state \in BucketState
             /\ StillKnows(b.state, p, cfg.algorithm)
             /\ committed \in Bucket /\ refunded \in Bucket
             /\ committed.state = FinalizeState(b.state, p, TRUE, cfg.algorithm, now)
             /\ refunded.state = RefundState(b.state, p, cfg.algorithm, now)
             /\ committed.blocked_until >= until
             /\ now < b.blocked_until =>
                  /\ committed.blocked_until >= b.blocked_until
                  /\ refunded.blocked_until >= b.blocked_until
<1> DEFINE p == permits[c]
           b == buckets[KeyOf(c)]
           a == cfg.algorithm
           cleared == ClearExpiredBlock(b, now)
           blocked == ApplyBlockedUntil(cleared, until)
           committed == BucketCommit(b, p, TRUE, until, a, now)
           refunded == BucketRefund(b, p, a, now)
<1>1. /\ KeyOf(c) \in Keys /\ Tracked(KeyOf(c)) /\ StillKnows(b.state, p, a)
      /\ b \in Bucket /\ a \in AlgorithmConfig /\ now \in Duration
  BY InFlightPermit, HeldBucketKnows, HeldBucket DEF CInv, KeyOf
<1>2. b.state \in BucketState
  BY <1>1 DEF Bucket, BucketState
<1> HIDE DEF a, b, p
<1>3. committed \in Bucket /\ refunded \in Bucket
  BY <1>1, FinalizeEffect
<1>4. /\ cleared \in Bucket /\ blocked \in Bucket
      /\ cleared.state = b.state /\ blocked.state = b.state
      /\ cleared.blocked_until = IF now >= b.blocked_until THEN 0 ELSE b.blocked_until
      /\ blocked.blocked_until = Greater(cleared.blocked_until, until)
  BY <1>1, BlockEffect DEF ClearExpiredBlock, ApplyBlockedUntil, Bucket
<1>5. /\ committed.state = FinalizeState(b.state, p, TRUE, a, now)
      /\ committed.blocked_until = blocked.blocked_until
      /\ refunded.state = RefundState(b.state, p, a, now)
      /\ refunded.blocked_until = cleared.blocked_until
  BY <1>4 DEF BucketCommit, BucketRefund, Bucket
<1>6. b.blocked_until \in Nat /\ until \in Nat /\ now \in Nat
  BY <1>1, Widths DEF Bucket, Duration
<1> HIDE DEF cleared, blocked, committed, refunded
<1>7. /\ committed.blocked_until >= until
      /\ now < b.blocked_until =>
           /\ committed.blocked_until >= b.blocked_until
           /\ refunded.blocked_until >= b.blocked_until
  BY <1>4, <1>5, <1>6 DEF Greater
<1> QED
  BY <1>1, <1>2, <1>3, <1>5, <1>7 DEF committed, refunded, a, b, p

-----------------------------------------------------------------------------
(***************************************************************************)
(* Backoffs are heeded.  Whatever block of a key the limiter has been told *)
(* of is over, or its bucket still knows it; so a permit is only issued    *)
(* when every block known then is over.                                    *)
(***************************************************************************)
Heeds(k) ==
  now >= heard[k] \/ (Tracked(k) /\ buckets[k].blocked_until >= heard[k])

\* The block a rejection stands for is over once the announced wait is, counted
\* from any time since.
FlightHeeds(c) ==
  LET f == flights[c] IN
  /\ f.known_block <= now
  /\ f.stage = "answering" /\ ~f.decision.ok =>
       f.new_block <= SatAdd(now, f.decision.retry_after, DurationMax)

HeedInv ==
  /\ \A k \in Keys : Heeds(k)
  /\ \A c \in Callers : FlightHeeds(c)

LEMMA HeedTypes ==
  ASSUME CInv
  PROVE  /\ now \in Nat /\ DurationMax \in Nat /\ now <= DurationMax
         /\ heard \in [Keys -> Nat]
         /\ buckets \in [Keys -> Bucket \cup {NoBucket}]
         /\ \A k \in Keys : buckets[k].blocked_until \in Nat
         /\ \A c \in Callers :
              /\ flights[c].known_block \in Nat /\ flights[c].new_block \in Nat
              /\ flights[c].decision.retry_after \in Nat
<1>1. now \in Nat /\ DurationMax \in Nat /\ now <= DurationMax /\ Duration \subseteq Nat
  BY Widths DEF CInv, IInv, TypeOK, Duration
<1>2. heard \in [Keys -> Nat]
  BY <1>1 DEF CInv, CTypeOK
<1>3. buckets \in [Keys -> Bucket \cup {NoBucket}]
  BY DEF CInv, IInv, TypeOK
<1>4. ASSUME NEW k \in Keys PROVE buckets[k].blocked_until \in Nat
  <2>1. NoBucket.blocked_until = 0
    BY DEF NoBucket
  <2>2. \A b \in Bucket : b.blocked_until \in Duration
    BY DEF Bucket
  <2>3. buckets[k] \in Bucket \/ buckets[k] = NoBucket
    BY <1>3
  <2>4. CASE buckets[k] \in Bucket
    BY <1>1, <2>2, <2>4
  <2>5. CASE buckets[k] = NoBucket
    BY <2>1, <2>5
  <2> QED
    BY <2>3, <2>4, <2>5
<1>5. \A c \in Callers : flights[c] \in Flight
  BY DEF CInv, CTypeOK
<1> QED
  BY <1>1, <1>2, <1>3, <1>4, <1>5 DEF Flight, ServerDecision

LEMMA AnsweredBucket ==
  ASSUME CInv, NEW key \in Keys, NEW cost \in Cost
  PROVE  LET answer == AnswerAt(key, cost)
             b == BucketAt(key) IN
         /\ b \in Bucket /\ b.state \in BucketState /\ b.state.algo = cfg.algorithm.kind
         /\ EffectiveAlgorithm \in AlgorithmConfig
         /\ Tracked(key) => b = buckets[key]
         /\ ~Tracked(key) => b = NewBucket(now, cfg.algorithm)
         /\ answer.bucket \in Bucket /\ answer.bucket # NoBucket
         /\ answer.bucket.state \in BucketState
         /\ answer.bucket.blocked_until = IF now >= b.blocked_until THEN 0 ELSE b.blocked_until
         /\ answer.reason = "Granted" => now >= b.blocked_until
         /\ \/ answer.reason # "Granted" /\ answer.bucket.state = b.state
            \/ LET of_state == StateTryReserve(b.state, EffectiveAlgorithm, cost, now) IN
               answer.reason = of_state.reason /\ answer.bucket.state = of_state.state
<1> DEFINE answer == AnswerAt(key, cost)
           b == BucketAt(key)
           of_state == StateTryReserve(b.state, EffectiveAlgorithm, cost, now)
<1>1. /\ b \in Bucket /\ b.state.algo = cfg.algorithm.kind
      /\ Tracked(key) => b = buckets[key]
      /\ EffectiveAlgorithm \in AlgorithmConfig
      /\ now \in Duration
  BY BucketAtKey, InvByKey, EffectiveAlgorithmType DEF CInv, IInv, TypeOK
<1>2. ~Tracked(key) => b = NewBucket(now, cfg.algorithm)
  BY DEF BucketAt
<1>3. answer = TryReserve(b, EffectiveAlgorithm, cost, now)
  BY DEF AnswerAt
<1> HIDE DEF b, answer, of_state
<1>4. answer.bucket \in Bucket
  BY <1>1, <1>3, TryReserveEffect
<1>5. /\ \/ /\ now < b.blocked_until
            /\ answer.reason = "BlockedUntil" /\ answer.bucket.state = b.state
         \/ /\ now >= b.blocked_until
            /\ answer.reason = of_state.reason /\ answer.bucket.state = of_state.state
      /\ answer.bucket.blocked_until = IF now >= b.blocked_until THEN 0 ELSE b.blocked_until
  BY <1>1, <1>3, TryReserveShape DEF of_state
<1>6. now \in Nat /\ b.blocked_until \in Nat
  BY <1>1, Widths DEF Bucket, Duration
<1>7. b.state \in BucketState /\ answer.bucket.state \in BucketState /\ answer.bucket # NoBucket
  BY <1>1, <1>4, NoBucketIsNone DEF Bucket, BucketState
<1> QED
  BY <1>1, <1>2, <1>4, <1>5, <1>6, <1>7 DEF answer, b, of_state

LEMMA AcquireHeeds ==
  ASSUME NeverEvicts, CInv, HeedInv, NEW c \in Callers, NEW route \in Keys,
         NEW cost \in Costs, NEW d \in Deadlines, Acquire(c, route, cost, d)
  PROVE  HeedInv'
<1>1. now' = now /\ heard' = heard /\ cost \in Cost
  BY AcquireShape
<1>2. CASE UNCHANGED <<buckets, permits, flights>>
  BY <1>1, <1>2 DEF HeedInv, Heeds, FlightHeeds, Tracked
<1>3. ASSUME NEW key \in Keys, Acquires(c, key, cost) PROVE HeedInv'
  <2> DEFINE answer == AnswerAt(key, cost)
             b == BucketAt(key)
  <2>1. /\ b \in Bucket
        /\ Tracked(key) => b = buckets[key]
        /\ answer.bucket # NoBucket
        /\ answer.bucket.blocked_until = IF now >= b.blocked_until THEN 0 ELSE b.blocked_until
        /\ answer.reason = "Granted" => now >= b.blocked_until
    BY <1>1, AnsweredBucket
  <2>2. b.blocked_until \in Nat
    BY <2>1, Widths DEF Bucket, Duration
  <2>3. Heeds(key)
    BY DEF HeedInv
  <2>4. buckets' = [buckets EXCEPT ![key] = answer.bucket]
    BY <1>3 DEF Acquires
  <2>5. buckets \in [Keys -> Bucket \cup {NoBucket}] /\ now \in Nat /\ heard \in [Keys -> Nat]
    BY HeedTypes
  <2> HIDE DEF answer, b
  <2>6. Heeds(key)'
    BY <1>1, <2>1, <2>2, <2>3, <2>4, <2>5 DEF Heeds, Tracked
  <2>7. \A k \in Keys : k # key => Heeds(k)'
    BY <1>1, <2>4, <2>5 DEF HeedInv, Heeds, Tracked
  <2>8. \A e \in Callers : FlightHeeds(e)'
    <3>1. CASE UNCHANGED flights
      BY <1>1, <3>1 DEF HeedInv, FlightHeeds
    <3>2. CASE ~ UNCHANGED flights
      <4>1. answer.reason = "Granted"
        BY <1>3, <3>2 DEF Acquires, answer
      <4>2. heard[key] <= now
        BY <2>1, <2>2, <2>3, <2>5, <4>1 DEF Heeds
      <4>3. PICK dl \in Duration :
              flights' = [flights EXCEPT ![c] =
                           [NoFlight EXCEPT !.stage = "attached", !.deadline = dl,
                                            !.issued_at = now, !.known_block = heard[key]]]
        BY <1>3, <3>2 DEF Acquires
      <4>5. flights \in [Callers -> Flight]
        BY DEF CInv, CTypeOK
      <4>6. flights'[c].stage = "attached" /\ flights'[c].known_block = heard[key]
        BY <4>3, <4>5 DEF NoFlight
      <4>7. FlightHeeds(c)'
        BY <1>1, <4>2, <4>6 DEF FlightHeeds
      <4>8. \A e \in Callers : e # c => flights'[e] = flights[e]
        BY <4>3, <4>5
      <4>9. \A e \in Callers : e # c => FlightHeeds(e)'
        BY <1>1, <4>8 DEF HeedInv, FlightHeeds
      <4> QED
        BY <4>7, <4>9
    <3> QED
      BY <3>1, <3>2
  <2> QED
    BY <2>6, <2>7, <2>8 DEF HeedInv
<1> QED
  BY <1>2, <1>3, AcquireShape

\* The block a server that turned the request away sets is no longer than announced.
LEMMA NewBlockAnnounced ==
  ASSUME NEW st \in ServerKeyState, NEW a \in AlgorithmConfig, NEW cost \in Cost,
         NEW t \in Duration
  PROVE  LET decision == Decide(st, a, cost, t) IN
         ~decision.ok =>
           ApplyOutcome(st, a, cost, decision, t).blocked_until
             <= SatAdd(t, decision.retry_after, DurationMax)
<1> DEFINE decision == Decide(st, a, cost, t)
           adv == Advanced(st, a, t)
           counted == IF a.kind = "FixedWindow"
                      THEN [adv EXCEPT !.spent = SatAdd(@, cost, U32Max)]
                      ELSE [adv EXCEPT !.credits = SatSub(@, cost)]
           until == SatAdd(t, decision.retry_after, DurationMax)
<1>1. decision \in ServerDecision /\ adv \in ServerKeyState /\ adv.blocked_until = st.blocked_until
  BY DecideType, AdvancedType
<1>2. /\ st.blocked_until \in Nat /\ st.blocked_until <= DurationMax
      /\ t \in Nat /\ t <= DurationMax /\ DurationMax \in Nat
  BY Widths DEF ServerKeyState, Duration
<1>3. decision.retry_after \in Nat
  BY <1>1, Widths DEF ServerDecision, Duration
<1>4. t < st.blocked_until => decision.retry_after = st.blocked_until - t
  BY DEF Decide, Rejected
<1>5. ApplyOutcome(st, a, cost, decision, t) =
        IF decision.ok THEN counted ELSE [counted EXCEPT !.blocked_until = Greater(@, until)]
  BY DEF ApplyOutcome
<1> HIDE DEF adv
<1>7. counted.blocked_until = st.blocked_until
  BY <1>1 DEF ServerKeyState
<1>8. "blocked_until" \in DOMAIN counted
  BY <1>1 DEF ServerKeyState
<1> HIDE DEF counted, decision
<1>9. ~decision.ok =>
        ApplyOutcome(st, a, cost, decision, t).blocked_until = Greater(st.blocked_until, until)
  BY <1>5, <1>7, <1>8
<1> QED
  BY <1>2, <1>3, <1>4, <1>9 DEF Greater, SatAdd, Lesser, decision

LEMMA MoveHeeds ==
  ASSUME CInv, HeedInv, NEW c \in Callers, FlightMoves(c)
  PROVE  HeedInv'
<1>1. UNCHANGED <<now, buckets, heard>>
  BY DEF FlightMoves, vars, Transmit, Lose, Arrive, Moves, history
<1>2. \A k \in Keys : Heeds(k)'
  BY <1>1 DEF HeedInv, Heeds, Tracked
<1>3. flights \in [Callers -> Flight]
  BY DEF CInv, CTypeOK
<1>4. \A e \in Callers : FlightHeeds(e)'
  <2>1. ASSUME NEW stage \in {"travelling", "lost"},
               flights' = [flights EXCEPT ![c].stage = stage]
        PROVE  \A e \in Callers : FlightHeeds(e)'
    BY <1>1, <1>3, <2>1 DEF HeedInv, FlightHeeds, Flight
  <2>2. CASE Transmit(c)
    BY <2>1, <2>2 DEF Transmit, Moves
  <2>3. CASE Lose(c)
    BY <2>1, <2>3 DEF Lose, Moves
  <2>4. CASE Arrive(c)
    <3> DEFINE until == IF VerdictOn(c).ok THEN 0 ELSE StateAfter(c).blocked_until
    <3>1. flights[c].stage = "travelling"
      BY <2>4 DEF Arrive
    <3>2. /\ ServerKeyAt(KeyOf(c)) \in ServerKeyState /\ permits[c].cost \in Cost
          /\ algo \in AlgorithmConfig /\ now \in Duration
      BY <3>1, InFlightPermit, ServerAlgoType
    <3>3. ~VerdictOn(c).ok => until <= SatAdd(now, VerdictOn(c).retry_after, DurationMax)
      BY <3>2, NewBlockAnnounced DEF VerdictOn, StateAfter
    <3>4. flights' = [flights EXCEPT ![c].stage = "answering", ![c].decision = VerdictOn(c),
                                     ![c].new_block = until]
      BY <2>4 DEF Arrive, VerdictOn, StateAfter, KeyOf
    <3> HIDE DEF until
    <3>5. /\ flights'[c].known_block = flights[c].known_block
          /\ flights'[c].decision = VerdictOn(c) /\ flights'[c].new_block = until
      BY <1>3, <3>4 DEF Flight
    <3>6. FlightHeeds(c)'
      BY <1>1, <3>3, <3>5 DEF HeedInv, FlightHeeds
    <3>7. \A e \in Callers : e # c => flights'[e] = flights[e]
      BY <1>3, <3>4
    <3>8. \A e \in Callers : e # c => FlightHeeds(e)'
      BY <1>1, <3>7 DEF HeedInv, FlightHeeds
    <3> QED
      BY <3>6, <3>8
  <2> QED
    BY <2>2, <2>3, <2>4 DEF FlightMoves
<1> QED
  BY <1>2, <1>4 DEF HeedInv

LEMMA EndHeeds ==
  ASSUME CInv, HeedInv, NEW c \in Callers, FlightEnds(c),
         FailToSend(c) \/ Answer(c) \/ Expire(c)
  PROVE  HeedInv'
<1>0. KeyOf(c) \in Keys
  BY InFlightPermit DEF FlightEnds
<1> SUFFICES ASSUME NEW key \in Keys, key = KeyOf(c) PROVE HeedInv'
  BY <1>0
<1> DEFINE b == buckets[key]
<1>1. /\ now' = now /\ flights' = [flights EXCEPT ![c] = NoFlight]
      /\ Refunds(c) \/ \E until \in Duration : Commits(c, until)
  BY EndShape
<1>2. flights[c].stage # "none"
  BY DEF FlightEnds
<1>3. /\ key \in Keys /\ b # NoBucket /\ b.blocked_until \in Nat
      /\ now \in Nat /\ heard \in [Keys -> Nat] /\ flights[c].new_block \in Nat
      /\ buckets \in [Keys -> Bucket \cup {NoBucket}]
  BY <1>2, InFlightPermit, HeedTypes DEF Tracked
<1>4. Heeds(key) /\ FlightHeeds(c)
  BY <1>3 DEF HeedInv
<1>5. ASSUME NEW after \in Bucket, buckets' = [buckets EXCEPT ![key] = after],
             now < b.blocked_until => after.blocked_until >= b.blocked_until,
             heard' = heard \/ /\ heard' = [heard EXCEPT ![key] = Greater(@, flights[c].new_block)]
                               /\ after.blocked_until >= flights[c].new_block
      PROVE  \A k \in Keys : Heeds(k)'
  <2>1. after # NoBucket /\ after.blocked_until \in Nat
    BY <1>5, NoBucketIsNone, Widths DEF Bucket, Duration
  <2>2. \A k \in Keys : k # key => heard'[k] = heard[k] /\ buckets'[k] = buckets[k]
    BY <1>3, <1>5
  <2>3. \A k \in Keys : k # key => Heeds(k)'
    BY <1>1, <2>2 DEF HeedInv, Heeds, Tracked
  <2>4. buckets'[key] = after
    BY <1>3, <1>5
  <2>5. now < heard[key] => after.blocked_until >= heard[key]
    BY <1>3, <1>4, <1>5, <2>1 DEF Heeds
  <2>6. heard'[key] = heard[key] \/ /\ heard'[key] = Greater(heard[key], flights[c].new_block)
                                    /\ after.blocked_until >= flights[c].new_block
    BY <1>3, <1>5
  <2>7. now >= heard'[key] \/ after.blocked_until >= heard'[key]
    BY <1>3, <2>1, <2>5, <2>6 DEF Greater
  <2>8. Heeds(key)'
    BY <1>1, <2>1, <2>4, <2>7 DEF Heeds, Tracked
  <2> QED
    BY <2>3, <2>8
<1>6. \A k \in Keys : Heeds(k)'
  <2>1. CASE Refunds(c)
    <3> DEFINE after == BucketRefund(b, permits[c], cfg.algorithm, now)
    <3>1. after \in Bucket /\ (now < b.blocked_until => after.blocked_until >= b.blocked_until)
      <4>1. 0 \in Duration
        BY Widths DEF Duration
      <4> QED
        BY <1>2, <4>1, EndedBucket
    <3>2. buckets' = [buckets EXCEPT ![key] = after] /\ heard' = heard
      BY <2>1 DEF Refunds
    <3> HIDE DEF after, b
    <3> QED
      BY <1>5, <3>1, <3>2
  <2>2. ASSUME NEW until \in Duration, Commits(c, until) PROVE \A k \in Keys : Heeds(k)'
    <3> DEFINE after == BucketCommit(b, permits[c], TRUE, until, cfg.algorithm, now)
    <3>1. /\ after \in Bucket /\ after.blocked_until >= until
          /\ now < b.blocked_until => after.blocked_until >= b.blocked_until
      BY <1>2, EndedBucket
    <3>2. /\ buckets' = [buckets EXCEPT ![key] = after]
          /\ \/ heard' = heard
             \/ /\ heard' = [heard EXCEPT ![key] = Greater(@, flights[c].new_block)]
                /\ until >= flights[c].new_block
      <4>1. until = SatAdd(now, flights[c].decision.retry_after, DurationMax)
            /\ flights[c].stage = "answering" /\ ~flights[c].decision.ok
              => until >= flights[c].new_block
        <5>1. until \in Nat /\ flights[c].new_block \in Nat
          BY <1>3, Widths DEF Duration
        <5> QED
          BY <1>4, <5>1 DEF FlightHeeds
      <4> QED
        BY <2>2, <4>1 DEF Commits
    <3> HIDE DEF after, b
    <3>3. after.blocked_until \in Nat /\ until \in Nat
      BY <3>1, Widths DEF Bucket, Duration
    <3>4. heard' = heard \/ /\ heard' = [heard EXCEPT ![key] = Greater(@, flights[c].new_block)]
                            /\ after.blocked_until >= flights[c].new_block
      BY <1>3, <3>1, <3>2, <3>3
    <3> QED
      BY <1>5, <3>1, <3>2, <3>4
  <2> QED
    BY <1>1, <2>1, <2>2
<1>7. \A e \in Callers : FlightHeeds(e)'
  <2>1. flights \in [Callers -> Flight]
    BY DEF CInv, CTypeOK
  <2>2. \A e \in Callers : flights'[e] = IF e = c THEN NoFlight ELSE flights[e]
    BY <1>1, <2>1
  <2>3. NoFlight.known_block = 0 /\ NoFlight.stage = "none"
    BY DEF NoFlight
  <2>4. FlightHeeds(c)'
    BY <1>1, <1>3, <2>2, <2>3 DEF FlightHeeds
  <2>5. \A e \in Callers : e # c => FlightHeeds(e)'
    BY <1>1, <2>2 DEF HeedInv, FlightHeeds
  <2> QED
    BY <2>4, <2>5
<1> QED
  BY <1>6, <1>7 DEF HeedInv

LEMMA TickHeeds ==
  ASSUME CInv, CInv', HeedInv, CTick
  PROVE  HeedInv'
<1>1. now < now' /\ UNCHANGED <<buckets, heard, flights>>
  <2>1. now' \in (now + 1)..MaxTime /\ UNCHANGED <<buckets, heard, flights>>
    BY DEF CTick, Tick, history
  <2>2. now \in Int /\ MaxTime \in Int
    BY LimiterAssumption, Widths DEF LimiterAssumption, CInv, IInv, TypeOK, Duration
  <2> QED
    BY <2>1, <2>2
<1>2. now \in Nat /\ now' \in Nat
  <2>1. (CInv => now \in Nat)'
    BY HeedTypes, PTL
  <2> QED
    BY <2>1, HeedTypes
<1>3. \A k \in Keys : Heeds(k)'
  BY <1>1, <1>2, HeedTypes DEF HeedInv, Heeds, Tracked
<1>4. \A c \in Callers : FlightHeeds(c)'
  <2> SUFFICES ASSUME NEW c \in Callers PROVE FlightHeeds(c)'
    OBVIOUS
  <2>1. FlightHeeds(c)
    BY DEF HeedInv
  <2>2. /\ flights[c].known_block \in Nat /\ flights[c].new_block \in Nat
        /\ flights[c].decision.retry_after \in Nat /\ DurationMax \in Nat
    BY HeedTypes
  <2>3. flights'[c].known_block <= now'
    BY <1>1, <1>2, <2>1, <2>2 DEF FlightHeeds
  <2> DEFINE wait == flights[c].decision.retry_after
  <2>4. SatAdd(now, wait, DurationMax) <= SatAdd(now', wait, DurationMax)
        /\ SatAdd(now, wait, DurationMax) \in Nat /\ SatAdd(now', wait, DurationMax) \in Nat
    <3> HIDE DEF wait
    <3> DEFINE later == now'
    <3>1. later \in Nat /\ now < later /\ wait \in Nat
      BY <1>1, <1>2, <2>2 DEF wait
    <3> HIDE DEF later
    <3>2. SatAdd(now, wait, DurationMax) <= SatAdd(later, wait, DurationMax)
          /\ SatAdd(now, wait, DurationMax) \in Nat /\ SatAdd(later, wait, DurationMax) \in Nat
      BY <1>2, <2>2, <3>1 DEF SatAdd, Lesser
    <3> QED
      BY <3>2 DEF later
  <2>5. flights'[c].stage = "answering" /\ ~flights'[c].decision.ok =>
          flights'[c].new_block <= SatAdd(now', flights'[c].decision.retry_after, DurationMax)
    BY <1>1, <2>1, <2>2, <2>4 DEF FlightHeeds
  <2> QED
    BY <2>3, <2>5 DEF FlightHeeds
<1> QED
  BY <1>3, <1>4 DEF HeedInv

LEMMA HeedStep ==
  ASSUME NeverEvicts, CInv, CInv', HeedInv, [CNext]_cvars
  PROVE  HeedInv'
<1>1. CASE UNCHANGED cvars
  BY <1>1 DEF cvars, vars, HeedInv, Heeds, FlightHeeds, Tracked
<1> QED
  BY <1>1, StepShapes, AcquireHeeds, MoveHeeds, EndHeeds, TickHeeds

LEMMA HeedInit == CInit => HeedInv
<1> SUFFICES ASSUME CInit PROVE HeedInv
  OBVIOUS
<1>1. now \in Nat
  BY CInitInv, HeedTypes
<1>2. NoFlight.known_block = 0 /\ NoFlight.stage = "none"
  BY DEF NoFlight
<1> QED
  BY <1>1, <1>2 DEF CInit, HeedInv, Heeds, FlightHeeds

\* BlocksAreHeeded, unless buckets are evicted: a request is turned away by a
\* block only if its permit was issued before the limiter was told of it.
THEOREM BackoffsAreHeeded ==
  ASSUME NeverEvicts
  PROVE  CSpec => BlocksAreHeeded
<1>1. ASSUME CInv, HeedInv, [CNext]_cvars
      PROVE  \A c \in Callers :
               (TurnsAway(c) /\ server[permits[c].key] # NoServerKey) =>
                 LET until == server[permits[c].key].blocked_until IN
                 now < until => flights[c].known_block < until
  <2> SUFFICES ASSUME NEW c \in Callers, TurnsAway(c), server[permits[c].key] # NoServerKey,
                      now < server[permits[c].key].blocked_until
               PROVE  flights[c].known_block < server[permits[c].key].blocked_until
    OBVIOUS
  <2>1. flights[c].known_block <= now
    BY <1>1 DEF HeedInv, FlightHeeds
  <2>2. flights[c].known_block \in Nat /\ now \in Nat
    BY <1>1, HeedTypes
  <2>3. server[permits[c].key].blocked_until \in Nat
    <3>1. permits[c].key \in Keys
      BY <1>1, InFlightPermit DEF TurnsAway, KeyOf
    <3>2. server[permits[c].key] \in ServerKeyState
      BY <1>1, <3>1 DEF CInv, CTypeOK
    <3> QED
      BY <3>2, Widths DEF ServerKeyState, Duration
  <2> QED
    BY <2>1, <2>2, <2>3
<1>2. CInv /\ CInv' /\ HeedInv /\ [CNext]_cvars => HeedInv'
  BY HeedStep
<1>3. CInv /\ HeedInv /\ [CNext]_cvars =>
        \A c \in Callers :
          (TurnsAway(c) /\ server[permits[c].key] # NoServerKey) =>
            LET until == server[permits[c].key].blocked_until IN
            now < until => flights[c].known_block < until
  BY <1>1
<1> QED
  BY <1>2, <1>3, HeedInit, CompositionInvariance, PTL DEF CSpec, BlocksAreHeeded

-----------------------------------------------------------------------------
(***************************************************************************)
(* Requests that may still reach the server, as a table of their permits.  *)
(***************************************************************************)
Coming ==
  [c \in Callers |-> IF flights[c].stage \in {"attached", "travelling"}
                     THEN permits[c] ELSE NoPermit]

\* Units on their way to a key.
Due(k) == Cardinality(UnitsOf(Coming, k))

LEMMA DueTypes ==
  ASSUME CInv
  PROVE  /\ Coming \in PermitTable
         /\ \A k : Due(k) \in Nat
         /\ \A k \in Keys : Tracked(k) => Due(k) <= Outstanding(buckets[k].state)
<1>1. permits \in PermitTable
  BY DEF CInv, IInv, TypeOK, PermitTable
<1>2. Coming \in PermitTable
  BY <1>1 DEF Coming, PermitTable
<1>3. \A k : Due(k) \in Nat
  BY UnitsFit DEF Due
<1>4. ASSUME NEW k \in Keys, Tracked(k) PROVE Due(k) <= Outstanding(buckets[k].state)
  <2>1. UnitsOf(Coming, k) \subseteq UnitsOf(permits, k)
    BY NoPermitIsNone DEF UnitsOf, Coming
  <2>2. Cardinality(UnitsOf(Coming, k)) <= Cardinality(UnitsOf(permits, k))
    BY <2>1, UnitsFit, FS_Subset
  <2>3. Outstanding(buckets[k].state) = Cardinality(UnitsOf(permits, k))
    BY <1>4, InvByKey DEF CInv, IInv, KeyOK
  <2> QED
    BY <2>2, <2>3 DEF Due
<1> QED
  BY <1>2, <1>3, <1>4

\* A permit joins those on their way.
LEMMA DueGrows ==
  ASSUME CInv, NEW c \in Callers, flights[c].stage = "none", NEW p \in Permit,
         Coming' = [Coming EXCEPT ![c] = p]
  PROVE  /\ Due(p.key)' = Due(p.key) + p.cost
         /\ \A k \in Keys : k # p.key => Due(k)' = Due(k)
<1>1. Coming \in PermitTable /\ Coming[c] = NoPermit
  BY DueTypes DEF Coming
<1> DEFINE before == Coming
           after == Coming'
<1>2. before \in PermitTable /\ before[c] = NoPermit /\ after = [before EXCEPT ![c] = p]
  BY <1>1
<1>3. /\ \A k : Due(k) = Cardinality(UnitsOf(before, k))
      /\ Due(p.key)' = Cardinality(UnitsOf(after, p.key))
      /\ \A k : Due(k)' = Cardinality(UnitsOf(after, k))
  BY DEF Due
<1> HIDE DEF before, after
<1>4. /\ Cardinality(UnitsOf(after, p.key)) = Cardinality(UnitsOf(before, p.key)) + p.cost
      /\ \A k \in Keys : k # p.key => UnitsOf(after, k) = UnitsOf(before, k)
  BY <1>2, UnitsOfGrant
<1> QED
  BY <1>3, <1>4

\* The units c's request brings to its key as long as it may still arrive.
Brings(c) == Coming[c].cost

\* A request arrived, is lost or is given up.
LEMMA DueShrinks ==
  ASSUME CInv, NEW c \in Callers, Coming' = [Coming EXCEPT ![c] = NoPermit]
  PROVE  /\ Brings(c) \in Nat /\ Brings(c) <= Due(KeyOf(c))
         /\ \A k \in Keys : Due(k)' = IF k = KeyOf(c) THEN Due(k) - Brings(c) ELSE Due(k)
         /\ flights[c].stage \in {"attached", "travelling"} => Brings(c) = permits[c].cost
         /\ flights[c].stage \notin {"attached", "travelling"} => Brings(c) = 0
<1>1. Coming \in PermitTable /\ \A k : Due(k) \in Nat
  BY DueTypes
<1>2. /\ flights[c].stage \in {"attached", "travelling"} => Coming[c] = permits[c]
      /\ flights[c].stage \notin {"attached", "travelling"} => Coming[c] = NoPermit
  BY DEF Coming
<1> DEFINE before == Coming
           after == Coming'
<1>3. before \in PermitTable /\ after = [before EXCEPT ![c] = NoPermit]
  BY <1>1
<1>4. /\ \A k : Due(k) = Cardinality(UnitsOf(before, k))
      /\ \A k : Due(k)' = Cardinality(UnitsOf(after, k))
      /\ Brings(c) = before[c].cost
  BY DEF Due, Brings
<1>5. /\ flights[c].stage \in {"attached", "travelling"} => Brings(c) = permits[c].cost
      /\ flights[c].stage \notin {"attached", "travelling"} => Brings(c) = 0
  BY <1>2, NoPermitIsNone DEF Brings
<1>6. CASE Coming[c] = NoPermit
  <2>1. after = before
    BY <1>3, <1>6 DEF PermitTable
  <2>2. Brings(c) = 0
    BY <1>6, NoPermitIsNone DEF Brings
  <2> QED
    BY <1>1, <1>4, <1>5, <2>1, <2>2
<1>7. CASE Coming[c] # NoPermit
  <2>1. before[c] # NoPermit /\ before[c].key = KeyOf(c)
    BY <1>2, <1>7 DEF KeyOf
  <2> HIDE DEF before, after
  <2>2. /\ before[c] \in Permit
        /\ before[c].cost <= Cardinality(UnitsOf(before, before[c].key))
        /\ Cardinality(UnitsOf(after, before[c].key))
             = Cardinality(UnitsOf(before, before[c].key)) - before[c].cost
        /\ \A k \in Keys : k # before[c].key => UnitsOf(after, k) = UnitsOf(before, k)
    BY <1>3, <2>1, UnitsOfFinalization
  <2>3. before[c].cost \in Nat
    BY <2>2, Widths DEF Permit, Cost
  <2> QED
    BY <1>4, <1>5, <2>1, <2>2, <2>3
<1> QED
  BY <1>6, <1>7

-----------------------------------------------------------------------------
(***************************************************************************)
(* Windows are aligned to multiples of their length, so two windows of the *)
(* same length are the same or a whole length apart.                       *)
(***************************************************************************)
Aligned(t, w) == \E n \in Nat : t = n * w

LEMMA AlignedApart ==
  ASSUME NEW w \in Nat \ {0}, NEW a \in Nat, NEW b \in Nat, Aligned(a, w), Aligned(b, w), a < b
  PROVE  a + w <= b
<1>1. PICK m \in Nat : a = m * w
  BY DEF Aligned
<1>2. PICK n \in Nat : b = n * w
  BY DEF Aligned
<1>3. ASSUME n <= m PROVE FALSE
  <2>1. n * w <= m * w
    BY <1>3
  <2> QED
    BY <1>1, <1>2, <2>1
<1>4. m + 1 <= n
  BY <1>3
<1>5. (m + 1) * w <= n * w
  BY <1>4
<1>6. (m + 1) * w = m * w + w
  OBVIOUS
<1> QED
  BY <1>1, <1>2, <1>5, <1>6

LEMMA WindowStartAligned ==
  ASSUME NEW w \in Duration \ {0}, NEW t \in Duration
  PROVE  /\ Aligned(WindowStartFor(t, w), w)
         /\ WindowStartFor(t, w) \in 0..t
         /\ WindowOf(t, w) = WindowStartFor(t, w)
         /\ \A a \in Nat : Aligned(a, w) /\ a <= t => a <= WindowStartFor(t, w)
<1>1. t \in Nat /\ w \in Nat \ {0}
  BY Widths DEF Duration
<1>2. WindowOf(t, w) = WindowStartFor(t, w) /\ WindowStartFor(t, w) \in 0..t
  BY WindowStartType DEF WindowOf, WindowStartFor
<1>3. t \div w \in Nat
  BY <1>1, DivBounds
<1>4. Aligned(WindowStartFor(t, w), w)
  BY <1>3 DEF Aligned, WindowStartFor
<1>5. ASSUME NEW a \in Nat, Aligned(a, w), a <= t PROVE a <= WindowStartFor(t, w)
  <2>1. t < WindowStartFor(t, w) + w
    BY WindowStartRecent
  <2> SUFFICES ASSUME WindowStartFor(t, w) < a PROVE FALSE
    BY <1>1, <1>2, <1>5
  <2>2. WindowStartFor(t, w) + w <= a
    BY <1>1, <1>2, <1>4, <1>5, AlignedApart
  <2> QED
    BY <1>1, <1>2, <1>5, <2>1, <2>2
<1> QED
  BY <1>2, <1>4, <1>5

-----------------------------------------------------------------------------
(***************************************************************************)
(* A window of the limiter beside the server's.  The limiter's window is   *)
(* the server's or an earlier one, and then what the server has counted    *)
(* and what is on its way is in use in it; in the same window a straggler  *)
(* adds at most what an earlier window had in use.  Only a straggler       *)
(* brings the server into a window the limiter has not entered.            *)
(***************************************************************************)
WindowOK(s, w, max, t) ==
  /\ s \in FixedWindowState
  /\ Aligned(s.window_start, w) /\ s.window_start <= t
  /\ Used(s) <= max

Covers(st, s, w, max, due, late, t) ==
  /\ Aligned(st.window_start, w) /\ st.window_start <= t
  /\ st.spent <= 2 * max
  /\ st.window_start > s.window_start => late
  /\ st.window_start >= s.window_start =>
       st.spent + due <= Used(s) + IF late /\ st.window_start = s.window_start THEN max ELSE 0

LEMMA CoverTypes ==
  /\ \A s \in FixedWindowState :
       s.window_start \in Nat /\ s.spent \in Nat /\ s.reserved \in Nat /\ Used(s) \in Nat
       /\ s.window_start <= DurationMax
  /\ \A st \in ServerKeyState :
       st.window_start \in Nat /\ st.spent \in Nat /\ st.window_start <= DurationMax
       /\ st.spent <= U32Max /\ st.blocked_until \in Nat /\ st.blocked_until <= DurationMax
BY Widths DEF FixedWindowState, ServerKeyState, Used, Duration, U32

\* A reservation, granted or denied, keeps the limiter ahead.
LEMMA ReserveKeepsCover ==
  ASSUME NEW s, NEW w \in Duration \ {0}, NEW max \in U32, NEW m \in U32, m <= max,
         NEW cost \in Cost, NEW t \in Duration, t < DurationMax,
         WindowOK(s, w, max, t), NEW due \in Nat, due <= s.reserved
  PROVE  LET answer == FixedWindowTryReserve(s, m, w, cost, t)
             more == IF answer.reason = "Granted" THEN cost ELSE 0
         IN  /\ WindowOK(answer.state, w, max, t)
             /\ \A st \in ServerKeyState, late \in BOOLEAN :
                  Covers(st, s, w, max, due, late, t) =>
                    Covers(st, answer.state, w, max, due + more, late, t)
<1> DEFINE answer == FixedWindowTryReserve(s, m, w, cost, t)
           u == MaybeResetWindow(s, t, w)
           more == IF answer.reason = "Granted" THEN cost ELSE 0
           start == WindowStartFor(t, w)
<1>1. s \in FixedWindowState /\ Aligned(s.window_start, w) /\ s.window_start <= t /\ Used(s) <= max
  BY DEF WindowOK
<1>2. /\ t \in Nat /\ w \in Nat \ {0} /\ max \in Nat /\ m \in Nat /\ cost \in Nat
  BY Widths DEF Duration, U32, Cost
<1>3. /\ u \in FixedWindowState
      /\ \/ u = s
         \/ /\ u.spent = 0 /\ u.reserved = 0 /\ s.reserved = 0
            /\ u.window_start = start
            /\ s.window_start < u.window_start
  BY <1>1, MaybeResetWindowUse
<1>4. /\ answer.state \in FixedWindowState
      /\ answer.reason = "Granted" =>
           /\ Used(u) + cost <= m
           /\ answer.state.spent = u.spent
           /\ answer.state.reserved = u.reserved + cost
           /\ answer.state.window_start = u.window_start
      /\ answer.reason # "Granted" => answer.state = u
  BY <1>1, FixedWindowTryReserveEffect, FixedWindowTryReserveUse DEF Answers
<1>5. start \in 0..t /\ Aligned(start, w) /\ \A a \in Nat : Aligned(a, w) /\ a <= t => a <= start
  BY WindowStartAligned
<1> HIDE DEF answer, u, start
<1>6. /\ Aligned(u.window_start, w) /\ u.window_start <= t /\ Used(u) <= max
      /\ u.window_start \in Nat /\ Used(u) \in Nat /\ u.spent \in Nat /\ u.reserved \in Nat
  <2>1. u.window_start \in Nat /\ u.spent \in Nat /\ u.reserved \in Nat /\ Used(u) \in Nat
    BY <1>3, CoverTypes
  <2>2. CASE u = s
    BY <1>1, <2>1, <2>2
  <2>3. CASE u # s
    <3>1. Used(u) = 0
      BY <1>3, <2>3 DEF Used
    <3> QED
      BY <1>2, <1>3, <1>5, <2>1, <2>3, <3>1
  <2> QED
    BY <2>2, <2>3
<1>7. /\ answer.state.window_start = u.window_start
      /\ Used(answer.state) = Used(u) + more
      /\ Used(answer.state) <= max
      /\ more \in Nat
  <2>1. CASE answer.reason = "Granted"
    <3>1. more = cost /\ Used(u) + cost <= m /\ answer.state.spent = u.spent
          /\ answer.state.reserved = u.reserved + cost
          /\ answer.state.window_start = u.window_start
      BY <1>4, <2>1
    <3>2. Used(answer.state) = Used(u) + cost
      BY <1>2, <1>6, <3>1 DEF Used
    <3> QED
      BY <1>2, <1>6, <3>1, <3>2
  <2>2. CASE answer.reason # "Granted"
    BY <1>4, <1>6, <2>2
  <2> QED
    BY <2>1, <2>2
<1> HIDE DEF more
<1>8. WindowOK(answer.state, w, max, t)
  BY <1>4, <1>6, <1>7 DEF WindowOK
<1>9. ASSUME NEW st \in ServerKeyState, NEW late \in BOOLEAN, Covers(st, s, w, max, due, late, t)
      PROVE  Covers(st, answer.state, w, max, due + more, late, t)
  <2>1. st.window_start \in Nat /\ st.spent \in Nat /\ s.window_start \in Nat /\ Used(s) \in Nat
    BY <1>1, CoverTypes
  <2>2. st.window_start <= start
    BY <1>5, <1>9, <2>1 DEF Covers
  <2>3. CASE u = s
    BY <1>2, <1>7, <1>9, <2>1, <2>3 DEF Covers
  <2>4. CASE u # s
    <3>1. /\ u.window_start = start /\ s.window_start < start /\ Used(u) = 0 /\ due = 0
      BY <1>1, <1>3, <2>4, CoverTypes DEF Used
    <3>2. st.window_start = start => late /\ st.spent <= max
      BY <1>2, <1>1, <1>5, <1>9, <2>1, <3>1 DEF Covers
    <3> QED
      BY <1>2, <1>5, <1>7, <1>9, <2>1, <2>2, <3>1, <3>2 DEF Covers
  <2> QED
    BY <2>3, <2>4
<1> QED
  BY <1>8, <1>9 DEF answer, more

\* A window the limiter opens anew covers a server that has seen nothing.
LEMMA NewWindowOK ==
  ASSUME NEW w \in Duration \ {0}, NEW max \in U32, NEW t \in Duration
  PROVE  WindowOK(NewFixedWindow(t, w), w, max, t)
<1>1. NewFixedWindow(t, w) \in FixedWindowState
  BY NewFixedWindowType
<1>2. WindowStartFor(t, w) \in 0..t /\ Aligned(WindowStartFor(t, w), w) /\ t \in Nat
  BY WindowStartAligned, Widths DEF Duration
<1>3. max \in Nat
  BY Widths DEF U32
<1> QED
  BY <1>1, <1>2, <1>3 DEF WindowOK, NewFixedWindow, Used

\* Whichever way a permit is finalized, and whether or not its units were still due.
EndCovers(s, p, a, w, max, due, brought, t) ==
  LET committed == FinalizeState(s, p, TRUE, a, t)
      refunded == RefundState(s, p, a, t)
  IN  /\ WindowOK(committed, w, max, t)
      /\ WindowOK(refunded, w, max, t)
      /\ \A st \in ServerKeyState, late \in BOOLEAN :
           Covers(st, s, w, max, due, late, t) =>
             /\ Covers(st, committed, w, max, due - brought, late, t)
             /\ brought = p.cost => Covers(st, refunded, w, max, due - brought, late, t)

\* A finalized permit stays in use; a refunded one, which never set out, is not
\* expected any more either.
LEMMA EndKeepsCover ==
  ASSUME NEW s, NEW w \in Duration \ {0}, NEW max \in U32, NEW t \in Duration,
         WindowOK(s, w, max, t), NEW p, NEW a \in AlgorithmConfig, StillKnows(s, p, a),
         a.window = w, NEW due \in Nat, NEW brought \in Nat, brought <= due
  PROVE  EndCovers(s, p, a, w, max, due, brought, t)
<1> DEFINE committed == FinalizeState(s, p, TRUE, a, t)
           refunded == RefundState(s, p, a, t)
<1>1. s \in FixedWindowState /\ Aligned(s.window_start, w) /\ s.window_start <= t /\ Used(s) <= max
  BY DEF WindowOK
<1>2. /\ s.algo = "FixedWindow" /\ p.algo = "FixedWindow" /\ a.kind = "FixedWindow"
      /\ p.window_start = s.window_start /\ p.cost \in Cost
      /\ p.cost <= s.reserved
  BY <1>1 DEF FixedWindowState, StillKnows, Outstanding
<1>3. MaybeResetWindow(s, t, w) = s
  <2>1. s.reserved # 0
    BY <1>2, Widths DEF Cost
  <2> QED
    BY <1>1, <2>1, MaybeResetWindowEffect
<1>4. committed = FixedWindowCommit(s, p.cost, TRUE) /\ refunded = FixedWindowRefund(s, p.cost)
  BY <1>2, <1>3 DEF FinalizeState, RefundState
<1>5. max \in Nat /\ t \in Nat /\ p.cost \in Nat /\ U32Max \in Nat /\ max <= U32Max
  BY <1>2, Widths DEF U32, Duration, Cost
<1>6. Used(s) \in Nat /\ s.window_start \in Nat
  BY <1>1, CoverTypes
<1>7. /\ committed \in FixedWindowState /\ committed.window_start = s.window_start
      /\ refunded \in FixedWindowState /\ refunded.window_start = s.window_start
  <2>1. /\ FixedWindowCommit(s, p.cost, TRUE) \in FixedWindowState
        /\ FixedWindowCommit(s, p.cost, TRUE).window_start = s.window_start
        /\ FixedWindowRefund(s, p.cost) \in FixedWindowState
        /\ FixedWindowRefund(s, p.cost).window_start = s.window_start
    BY <1>1, <1>2, FixedWindowFinalizeEffect
  <2> HIDE DEF committed, refunded
  <2> QED
    BY <1>4, <2>1
<1>8. Used(committed) = Used(s) /\ Used(refunded) = Used(s) - p.cost
  <2>1. Used(s) <= U32Max
    BY <1>1, <1>5, <1>6
  <2> QED
    BY <1>1, <1>2, <1>4, <2>1, FixedWindowFinalizeUse
<1> HIDE DEF committed, refunded
<1>9. WindowOK(committed, w, max, t) /\ WindowOK(refunded, w, max, t)
  BY <1>1, <1>5, <1>6, <1>7, <1>8 DEF WindowOK
<1>10. ASSUME NEW st \in ServerKeyState, NEW late \in BOOLEAN,
              Covers(st, s, w, max, due, late, t)
       PROVE  /\ Covers(st, committed, w, max, due - brought, late, t)
              /\ brought = p.cost => Covers(st, refunded, w, max, due - brought, late, t)
  <2>1. st.window_start \in Nat /\ st.spent \in Nat
    BY CoverTypes
  <2>2. Covers(st, committed, w, max, due - brought, late, t)
    BY <1>5, <1>6, <1>7, <1>8, <1>10, <2>1 DEF Covers
  <2>3. brought = p.cost => Covers(st, refunded, w, max, due - brought, late, t)
    BY <1>5, <1>6, <1>7, <1>8, <1>10, <2>1 DEF Covers
  <2> QED
    BY <2>2, <2>3
<1> QED
  BY <1>9, <1>10 DEF committed, refunded, EndCovers

\* The server's window after an arrival.
LEMMA ApplyWindow ==
  ASSUME NEW st \in ServerKeyState, NEW a \in AlgorithmConfig, a.kind = "FixedWindow",
         NEW cost \in Cost, NEW decision \in ServerDecision, NEW t \in Duration
  PROVE  LET adv == AdvanceWindow(st, a.window, t)
             after == ApplyOutcome(st, a, cost, decision, t)
         IN  /\ after.window_start = adv.window_start
             /\ after.spent = SatAdd(adv.spent, cost, U32Max)
             /\ after.blocked_until =
                  IF decision.ok THEN st.blocked_until
                  ELSE Greater(st.blocked_until, SatAdd(t, decision.retry_after, DurationMax))
<1> DEFINE adv == AdvanceWindow(st, a.window, t)
           counted == [adv EXCEPT !.spent = SatAdd(@, cost, U32Max)]
           until == SatAdd(t, decision.retry_after, DurationMax)
<1>1. adv = Advanced(st, a, t)
  BY DEF Advanced
<1>2. adv \in ServerKeyState /\ adv.blocked_until = st.blocked_until
  BY <1>1, AdvancedType
<1>3. ApplyOutcome(st, a, cost, decision, t) =
        IF decision.ok THEN counted ELSE [counted EXCEPT !.blocked_until = Greater(@, until)]
  BY <1>1 DEF ApplyOutcome
<1> HIDE DEF adv, until
<1>4. /\ counted.window_start = adv.window_start /\ counted.spent = SatAdd(adv.spent, cost, U32Max)
      /\ counted.blocked_until = st.blocked_until
  BY <1>2 DEF ServerKeyState
<1>5. /\ [counted EXCEPT !.blocked_until = Greater(@, until)].window_start = adv.window_start
      /\ [counted EXCEPT !.blocked_until = Greater(@, until)].spent
           = SatAdd(adv.spent, cost, U32Max)
      /\ [counted EXCEPT !.blocked_until = Greater(@, until)].blocked_until
           = Greater(st.blocked_until, until)
  BY <1>2 DEF ServerKeyState
<1> HIDE DEF counted
<1> QED
  BY <1>3, <1>4, <1>5 DEF adv, until

\* The server's window stays, or it is over and the current one begins.
LEMMA AdvanceWindowEffect ==
  ASSUME NEW st \in ServerKeyState, NEW w \in Duration \ {0}, NEW t \in Duration,
         t < DurationMax
  PROVE  LET adv == AdvanceWindow(st, w, t) IN
         \/ adv = st /\ t < st.window_start + w
         \/ /\ adv.window_start = WindowStartFor(t, w) /\ adv.spent = 0
            /\ st.window_start + w <= t
<1>1. t \in Nat /\ w \in Nat /\ st.window_start \in Nat /\ DurationMax \in Nat
  BY Widths, CoverTypes DEF Duration
<1>2. t >= SatAdd(st.window_start, w, DurationMax) <=> st.window_start + w <= t
  BY <1>1 DEF SatAdd, Lesser
<1>3. CASE st.window_start + w <= t
  <2>1. AdvanceWindow(st, w, t) = [st EXCEPT !.window_start = WindowOf(t, w), !.spent = 0]
    BY <1>2, <1>3 DEF AdvanceWindow
  <2>2. WindowOf(t, w) = WindowStartFor(t, w)
    BY DEF WindowOf, WindowStartFor
  <2> QED
    BY <1>3, <2>1, <2>2 DEF ServerKeyState
<1>4. CASE ~(st.window_start + w <= t)
  <2>1. AdvanceWindow(st, w, t) = st
    BY <1>2, <1>4 DEF AdvanceWindow
  <2> QED
    BY <1>1, <1>4, <2>1
<1> QED
  BY <1>3, <1>4

\* An arrival that is not late moves units from what is due to what is counted.
LEMMA ArrivalKeepsCover ==
  ASSUME NEW st \in ServerKeyState, NEW s, NEW w \in Duration \ {0}, NEW max \in U32,
         NEW a \in AlgorithmConfig, a.kind = "FixedWindow", a.window = w,
         NEW t \in Duration, t < DurationMax, NEW cost \in Cost,
         NEW decision \in ServerDecision, NEW due \in Nat, cost <= due, due <= s.reserved,
         NEW late \in BOOLEAN, NEW later \in BOOLEAN,
         WindowOK(s, w, max, t), Covers(st, s, w, max, due, late, t),
         s.window_start # ApplyOutcome(st, a, cost, decision, t).window_start => later,
         late /\ st.window_start = ApplyOutcome(st, a, cost, decision, t).window_start => later
  PROVE  Covers(ApplyOutcome(st, a, cost, decision, t), s, w, max, due - cost, later, t)
<1> DEFINE after == ApplyOutcome(st, a, cost, decision, t)
           adv == AdvanceWindow(st, w, t)
           start == WindowStartFor(t, w)
<1> SUFFICES Covers(after, s, w, max, due - cost, later, t)
  OBVIOUS
<1>1. s \in FixedWindowState /\ Aligned(s.window_start, w) /\ s.window_start <= t /\ Used(s) <= max
  BY DEF WindowOK
<1>2. /\ t \in Nat /\ w \in Nat \ {0} /\ max \in Nat /\ cost \in Nat /\ U32Max \in Nat
  BY Widths DEF Duration, U32, Cost
<1>3. /\ s.window_start \in Nat /\ s.reserved \in Nat /\ s.spent \in Nat
      /\ Used(s) = s.spent + s.reserved
      /\ st.window_start \in Nat /\ st.spent \in Nat /\ st.spent <= U32Max
  BY <1>1, CoverTypes DEF Used
<1>4. after.window_start = adv.window_start /\ after.spent = SatAdd(adv.spent, cost, U32Max)
  BY ApplyWindow
<1>5. start \in 0..t /\ Aligned(start, w) /\ \A b \in Nat : Aligned(b, w) /\ b <= t => b <= start
  BY WindowStartAligned
<1>6. \/ adv = st /\ t < st.window_start + w
      \/ adv.window_start = start /\ adv.spent = 0
  BY AdvanceWindowEffect
<1>7. /\ s.window_start # after.window_start => later
      /\ late /\ st.window_start = after.window_start => later
  OBVIOUS
<1>8. Aligned(st.window_start, w) /\ st.window_start <= t
  BY DEF Covers
<1> HIDE DEF after, adv, start
<1>9. CASE adv = st /\ t < st.window_start + w
  <2>1. s.window_start <= st.window_start
    <3> SUFFICES ASSUME st.window_start < s.window_start PROVE FALSE
      BY <1>3
    <3>1. st.window_start + w <= s.window_start
      BY <1>1, <1>2, <1>3, <1>8, AlignedApart
    <3> QED
      BY <1>1, <1>2, <1>3, <1>9, <3>1
  <2>2. st.spent + due <= Used(s) + IF late /\ st.window_start = s.window_start THEN max ELSE 0
    BY <1>3, <2>1 DEF Covers
  <2>3. after.window_start = st.window_start /\ after.spent = SatAdd(st.spent, cost, U32Max)
    BY <1>4, <1>9
  <2>4. after.spent \in Nat /\ after.spent <= st.spent + cost
    BY <1>2, <1>3, <2>3 DEF SatAdd, Lesser
  <2>5. late => later
    BY <1>7, <2>3
  <2>6. after.spent + (due - cost)
          <= Used(s) + IF later /\ after.window_start = s.window_start THEN max ELSE 0
    <3>1. CASE late /\ st.window_start = s.window_start
      BY <1>2, <1>3, <2>2, <2>3, <2>4, <2>5, <3>1
    <3>2. CASE ~(late /\ st.window_start = s.window_start)
      <4>1. st.spent + due <= Used(s)
        BY <1>3, <2>2, <3>2
      <4> QED
        BY <1>2, <1>3, <2>4, <4>1
    <3> QED
      BY <3>1, <3>2
  <2>7. after.spent <= 2 * max
    <3>1. after.spent <= Used(s) + max
      BY <1>2, <1>3, <2>4, <2>6
    <3> QED
      BY <1>1, <1>2, <1>3, <2>4, <3>1
  <2> QED
    BY <1>3, <1>7, <1>8, <2>3, <2>6, <2>7 DEF Covers
<1>10. CASE adv.window_start = start /\ adv.spent = 0
  <2>1. after.window_start = start /\ after.spent \in Nat /\ after.spent <= cost
    BY <1>2, <1>4, <1>10 DEF SatAdd, Lesser
  <2>2. start \in Nat /\ start <= t
    BY <1>2, <1>5
  <2>3. after.spent + (due - cost) <= Used(s) /\ after.spent <= 2 * max
    BY <1>1, <1>2, <1>3, <2>1
  <2> QED
    BY <1>1, <1>2, <1>3, <1>5, <1>7, <2>1, <2>2, <2>3 DEF Covers
<1> QED
  BY <1>6, <1>9, <1>10

\* A server that has not heard of the key yet, in the window it will open.
LEMMA NewServerCovered ==
  ASSUME NEW s, NEW w \in Duration \ {0}, NEW max \in U32,
         NEW a \in AlgorithmConfig, a.kind = "FixedWindow", a.window = w,
         NEW t \in Duration, NEW due \in Nat, due <= s.reserved, WindowOK(s, w, max, t)
  PROVE  LET st == NewServerKey(a, t) IN
         Covers(st, s, w, max, due, st.window_start # s.window_start, t)
<1> DEFINE st == NewServerKey(a, t)
<1>1. s \in FixedWindowState /\ Used(s) <= max
  BY DEF WindowOK
<1>2. st.window_start = WindowStartFor(t, w) /\ st.spent = 0
  BY WindowStartAligned DEF NewServerKey
<1>3. WindowStartFor(t, w) \in 0..t /\ Aligned(WindowStartFor(t, w), w)
  BY WindowStartAligned
<1>4. /\ s.window_start \in Nat /\ s.reserved \in Nat /\ s.spent \in Nat
      /\ Used(s) = s.spent + s.reserved
      /\ t \in Nat /\ max \in Nat
  BY <1>1, CoverTypes, Widths DEF Used, Duration, U32
<1> HIDE DEF st
<1>5. st.spent + due <= Used(s) /\ st.spent <= 2 * max
  BY <1>1, <1>2, <1>4
<1> QED
  BY <1>2, <1>3, <1>4, <1>5 DEF Covers, st

-----------------------------------------------------------------------------
(***************************************************************************)
(* The server's window is covered in every state.                          *)
(***************************************************************************)
SharedWindows == algo.kind = "FixedWindow" /\ algo.window = cfg.algorithm.window

KeyCovered(k) ==
  LET w == cfg.algorithm.window
      max == cfg.algorithm.max_per_window
  IN  /\ Tracked(k) => WindowOK(buckets[k].state, w, max, now)
      /\ server[k] # NoServerKey =>
           /\ Tracked(k)
           /\ Covers(server[k], buckets[k].state, w, max, Due(k), k \in straggled, now)

WindowInv == SharedWindows => \A k \in Keys : KeyCovered(k)

LEMMA WindowTypes ==
  ASSUME CInv, SharedWindows, ClockShortOfMax
  PROVE  /\ algo \in AlgorithmConfig /\ algo.kind = "FixedWindow"
         /\ algo.max_per_window \in U32
         /\ cfg.algorithm \in AlgorithmConfig /\ cfg.algorithm.kind = "FixedWindow"
         /\ cfg.algorithm.window \in Duration \ {0} /\ cfg.algorithm.max_per_window \in U32
         /\ algo.window = cfg.algorithm.window
         /\ now \in Duration /\ now < DurationMax
         /\ buckets \in [Keys -> Bucket \cup {NoBucket}]
         /\ server \in [Keys -> ServerKeyState \cup {NoServerKey}]
         /\ \A k \in Keys : Due(k) \in Nat
BY ServerAlgoType, DueTypes DEF CInv, SharedWindows, CTypeOK, IInv, TypeOK

\* A window that counts reservations holds at least the units on their way.
LEMMA DueReserved ==
  ASSUME CInv, NEW k \in Keys, Tracked(k), buckets[k].state \in FixedWindowState
  PROVE  Due(k) \in Nat /\ Due(k) <= buckets[k].state.reserved
BY DueTypes DEF FixedWindowState, Outstanding

\* A key no operation is about: at most units on their way to it are lost.
LEMMA KeyStaysCovered ==
  ASSUME CInv, SharedWindows, ClockShortOfMax, NEW k \in Keys, KeyCovered(k),
         cfg' = cfg, NEW later \in Nat, now' = later, now <= later,
         buckets'[k] = buckets[k], server'[k] = server[k],
         k \in straggled' <=> k \in straggled,
         NEW due \in Nat, Due(k)' = due, due <= Due(k)
  PROVE  KeyCovered(k)'
<1> DEFINE w == cfg.algorithm.window
           max == cfg.algorithm.max_per_window
           s == buckets[k].state
           st == server[k]
           late == k \in straggled
<1>1. max \in Nat /\ now \in Nat /\ Due(k) \in Nat
  BY WindowTypes, Widths DEF U32, Duration
<1>2. ASSUME Tracked(k) PROVE WindowOK(s, w, max, now) /\ s \in FixedWindowState
  BY <1>2 DEF KeyCovered, WindowOK
<1> HIDE DEF w, max
<1>3. ASSUME Tracked(k) PROVE WindowOK(s, w, max, later)
  <2>1. s.window_start \in Nat
    BY <1>2, <1>3, CoverTypes
  <2> HIDE DEF s
  <2> QED
    BY <1>1, <1>2, <1>3, <2>1 DEF WindowOK
<1>4. ASSUME st # NoServerKey
      PROVE  Tracked(k) /\ Covers(st, s, w, max, due, late, later)
  <2>1. Tracked(k) /\ Covers(st, s, w, max, Due(k), late, now)
    BY <1>4 DEF KeyCovered, w, max
  <2>2. s.window_start \in Nat /\ Used(s) \in Nat
    BY <1>2, <2>1, CoverTypes
  <2>3. st.window_start \in Nat /\ st.spent \in Nat
    BY <1>4, WindowTypes, CoverTypes
  <2> HIDE DEF s, st, late
  <2>4. Covers(st, s, w, max, due, late, later)
    BY <1>1, <2>1, <2>2, <2>3 DEF Covers
  <2> QED
    BY <2>1, <2>4
<1> QED
  BY <1>3, <1>4 DEF KeyCovered, Tracked, w, max

LEMMA AcquireCovered ==
  ASSUME NeverEvicts, ClockShortOfMax, CInv, SharedWindows, \A k \in Keys : KeyCovered(k),
         NEW c \in Callers, NEW route \in Keys, NEW cost \in Costs, NEW d \in Deadlines,
         Acquire(c, route, cost, d)
  PROVE  \A k \in Keys : KeyCovered(k)'
<1>1. /\ cost \in Cost /\ ~Holds(c) /\ flights[c].stage = "none"
      /\ UNCHANGED <<cfg, now, algo, server, heard, straggled, returned>>
      /\ \/ UNCHANGED <<buckets, permits, flights>>
         \/ \E key \in Keys : Acquires(c, key, cost)
  BY AcquireShape
<1>2. now \in Nat /\ now <= now
  BY WindowTypes, Widths DEF Duration
<1>3. ASSUME NEW k \in Keys, buckets'[k] = buckets[k], Due(k)' = Due(k)
      PROVE  KeyCovered(k)'
  BY <1>1, <1>2, <1>3, KeyStaysCovered, WindowTypes
<1>4. CASE UNCHANGED <<buckets, permits, flights>>
  <2>1. Coming' = Coming
    BY <1>4 DEF Coming
  <2> QED
    BY <1>3, <1>4, <2>1 DEF Due
<1>5. ASSUME NEW key \in Keys, Acquires(c, key, cost) PROVE \A k \in Keys : KeyCovered(k)'
  <2> DEFINE answer == AnswerAt(key, cost)
             b == BucketAt(key)
             w == cfg.algorithm.window
             max == cfg.algorithm.max_per_window
             m == EffectiveAlgorithm.max_per_window
             more == IF answer.reason = "Granted" THEN cost ELSE 0
  <2>1. /\ b \in Bucket /\ b.state \in BucketState /\ b.state.algo = cfg.algorithm.kind
        /\ Tracked(key) => b = buckets[key]
        /\ ~Tracked(key) => b = NewBucket(now, cfg.algorithm)
        /\ answer.bucket \in Bucket /\ answer.bucket # NoBucket
        /\ EffectiveAlgorithm \in AlgorithmConfig
    BY <1>1, AnsweredBucket
  <2>2. b.state \in FixedWindowState
    BY <2>1, WindowTypes, StateKind
  <2>3. /\ EffectiveAlgorithm.kind = "FixedWindow" /\ EffectiveAlgorithm.window = w
        /\ m \in U32 /\ m <= max
    BY <2>1, WindowTypes, AlgorithmKind, EffectiveLowers DEF CInv, IInv, Lowers
  <2>4. \/ answer.reason # "Granted" /\ answer.bucket.state = b.state
        \/ LET of_state == FixedWindowTryReserve(b.state, m, w, cost, now) IN
           answer.reason = of_state.reason /\ answer.bucket.state = of_state.state
    <3>1. StateTryReserve(b.state, EffectiveAlgorithm, cost, now)
            = FixedWindowTryReserve(b.state, m, w, cost, now)
      BY <2>2, <2>3 DEF StateTryReserve, FixedWindowState
    <3> HIDE DEF answer, b
    <3> QED
      BY <1>1, <3>1, AnsweredBucket DEF answer, b
  <2>5. Due(key) \in Nat /\ Due(key) <= b.state.reserved
    <3>1. CASE Tracked(key)
      BY <2>1, <2>2, <3>1, DueReserved
    <3>2. CASE ~Tracked(key)
      <4>1. \A e \in Callers : permits[e].key # key
        BY <3>2, InvByKey DEF CInv, IInv, KeyOK
      <4>2. \A e \in Callers : Coming[e].key # key
        BY <4>1, NoPermitIsNone DEF Coming
      <4>3. Due(key) = 0
        BY <4>2, NoPermitNoUnits DEF Due
      <4>4. b.state.reserved \in Nat
        BY <2>2, CoverTypes
      <4> QED
        BY <4>3, <4>4
    <3> QED
      BY <3>1, <3>2
  <2>6. WindowOK(b.state, w, max, now)
    <3>1. CASE Tracked(key)
      BY <2>1, <3>1 DEF KeyCovered
    <3>2. CASE ~Tracked(key)
      <4>1. b.state = NewFixedWindow(now, w)
        BY <2>1, <3>2, WindowTypes DEF NewBucket, NewState
      <4> QED
        BY <4>1, NewWindowOK, WindowTypes
    <3> QED
      BY <3>1, <3>2
  <2>7. server[key] # NoServerKey =>
          Covers(server[key], b.state, w, max, Due(key), key \in straggled, now)
    BY <2>1 DEF KeyCovered
  <2>8. /\ WindowOK(answer.bucket.state, w, max, now)
        /\ server[key] # NoServerKey =>
             Covers(server[key], answer.bucket.state, w, max, Due(key) + more,
                    key \in straggled, now)
    <3> DEFINE s == b.state
               due == Due(key)
               late == key \in straggled
               after == answer.bucket.state
               st == server[key]
               reserved == FixedWindowTryReserve(s, m, w, cost, now)
    <3>1. /\ w \in Duration \ {0} /\ max \in U32 /\ now \in Duration /\ now < DurationMax
          /\ server[key] # NoServerKey => server[key] \in ServerKeyState
          /\ late \in BOOLEAN /\ due + 0 = due
      BY <2>5, WindowTypes
    <3> HIDE DEF w, max, m, s, due, late
    <3>2. /\ m \in U32 /\ m <= max /\ cost \in Cost /\ due \in Nat /\ due <= s.reserved
          /\ WindowOK(s, w, max, now)
      BY <1>1, <2>3, <2>5, <2>6 DEF s, due
    <3>3. LET granted == IF reserved.reason = "Granted" THEN cost ELSE 0 IN
          /\ WindowOK(reserved.state, w, max, now)
          /\ \A seen \in ServerKeyState, l \in BOOLEAN :
               Covers(seen, s, w, max, due, l, now) =>
                 Covers(seen, reserved.state, w, max, due + granted, l, now)
      BY <3>1, <3>2, ReserveKeepsCover
    <3>4. st # NoServerKey => Covers(st, s, w, max, due, late, now)
      BY <2>7 DEF s, due, late, w, max
    <3>5. \/ answer.reason # "Granted" /\ after = s
          \/ answer.reason = reserved.reason /\ after = reserved.state
      BY <2>4 DEF s, m, w
    <3> HIDE DEF st, after, reserved, answer
    <3>6. WindowOK(after, w, max, now)
      BY <3>2, <3>3, <3>5
    <3>7. ASSUME st # NoServerKey PROVE Covers(st, after, w, max, due + more, late, now)
      <4>1. st \in ServerKeyState /\ Covers(st, s, w, max, due, late, now)
        BY <3>1, <3>4, <3>7 DEF st
      <4>2. CASE answer.reason # "Granted" /\ after = s
        BY <3>1, <4>1, <4>2
      <4>3. CASE answer.reason = reserved.reason /\ after = reserved.state
        BY <3>1, <3>3, <4>1, <4>3
      <4> QED
        BY <3>5, <4>2, <4>3
    <3> QED
      BY <3>6, <3>7 DEF st, after, due, late
  <2>9. buckets'[key] = answer.bucket /\ \A k \in Keys : k # key => buckets'[k] = buckets[k]
    BY <1>5, WindowTypes DEF Acquires
  <2>10. Due(key)' = Due(key) + more /\ \A k \in Keys : k # key => Due(k)' = Due(k)
    <3>1. CASE answer.reason # "Granted"
      <4>1. UNCHANGED <<permits, flights>>
        BY <1>5, <3>1 DEF Acquires
      <4>2. Coming' = Coming
        BY <4>1 DEF Coming
      <4> QED
        BY <2>5, <3>1, <4>2 DEF Due
    <3>2. CASE answer.reason = "Granted"
      <4> DEFINE p == PermitFor(key, cost, answer.bucket.state)
      <4>1. p \in Permit /\ p.key = key /\ p.cost = cost
        <5>1. answer.bucket.state \in BucketState
          BY <2>1 DEF Bucket, BucketState
        <5> HIDE DEF answer
        <5> QED
          BY <1>1, <5>1, StateKind, Widths
          DEF PermitFor, Permit, BucketState, FixedWindowState, TokenBucketState, Duration
      <4>2. /\ permits' = [permits EXCEPT ![c] = p]
            /\ \E dl \in Duration :
                 flights' = [flights EXCEPT ![c] =
                              [NoFlight EXCEPT !.stage = "attached", !.deadline = dl,
                                               !.issued_at = now, !.known_block = heard[key]]]
        BY <1>5, <3>2 DEF Acquires
      <4> HIDE DEF p
      <4>3. /\ flights'[c].stage = "attached" /\ permits'[c] = p
            /\ \A e \in Callers : e # c => flights'[e] = flights[e] /\ permits'[e] = permits[e]
        BY <4>2 DEF CInv, CTypeOK, IInv, TypeOK, NoFlight
      <4>4. Coming' = [Coming EXCEPT ![c] = p]
        BY <4>3 DEF Coming
      <4> QED
        BY <1>1, <3>2, <4>1, <4>4, DueGrows
    <3> QED
      BY <3>1, <3>2
  <2> HIDE DEF answer, b, more
  <2>11. KeyCovered(key)'
    BY <1>1, <2>1, <2>8, <2>9, <2>10 DEF KeyCovered, Tracked
  <2>12. \A k \in Keys : k # key => KeyCovered(k)'
    BY <1>3, <2>9, <2>10
  <2> QED
    BY <2>11, <2>12
<1> QED
  BY <1>1, <1>4, <1>5

\* Whether the key has had a late arrival in the server's window, counting a key
\* the server opens ahead of the limiter.
LateAt(k) ==
  IF server[k] = NoServerKey
  THEN ServerKeyAt(k).window_start # buckets[k].state.window_start
  ELSE k \in straggled

\* What meets when c's request arrives.
LEMMA WindowArrival ==
  ASSUME ClockShortOfMax, CInv, SharedWindows, NEW c \in Callers, Arrive(c),
         NEW k \in Keys, k = KeyOf(c), KeyCovered(k)
  PROVE  LET w == cfg.algorithm.window
             max == cfg.algorithm.max_per_window
             s == buckets[k].state
         IN  /\ Tracked(k) /\ permits[c].cost \in Cost
             /\ ServerKeyAt(k) \in ServerKeyState
             /\ VerdictOn(c) \in ServerDecision
             /\ WindowOK(s, w, max, now)
             /\ permits[c].cost <= Due(k) /\ Due(k) <= s.reserved
             /\ LateAt(k) \in BOOLEAN /\ (k \in straggled') \in BOOLEAN
             /\ Covers(ServerKeyAt(k), s, w, max, Due(k), LateAt(k), now)
             /\ s.window_start # StateAfter(c).window_start => k \in straggled'
             /\ LateAt(k) /\ ServerKeyAt(k).window_start = StateAfter(c).window_start
                  => k \in straggled'
             /\ Due(k)' = Due(k) - permits[c].cost
             /\ \A l \in Keys : l # k => Due(l)' = Due(l)
<1> DEFINE w == cfg.algorithm.window
           max == cfg.algorithm.max_per_window
           s == buckets[k].state
           st0 == ServerKeyAt(k)
           st == StateAfter(c)
           cost == permits[c].cost
           due == Due(k)
<1>1. flights[c].stage = "travelling"
  BY DEF Arrive
<1>2. /\ Tracked(k) /\ cost \in Cost /\ st0 \in ServerKeyState /\ VerdictOn(c) \in ServerDecision
  BY <1>1, InFlightPermit, ArrivalTypes
<1>3. /\ algo \in AlgorithmConfig /\ algo.kind = "FixedWindow" /\ algo.window = w
      /\ w \in Duration \ {0} /\ max \in U32
      /\ now \in Duration /\ now < DurationMax
  BY WindowTypes
<1>4. WindowOK(s, w, max, now)
  BY <1>2 DEF KeyCovered
<1>5. due \in Nat /\ due <= s.reserved
  BY <1>2, <1>4, DueReserved DEF WindowOK
<1>6. Covers(st0, s, w, max, due, LateAt(k), now)
  <2>1. CASE server[k] = NoServerKey
    <3>1. st0 = NewServerKey(algo, now) /\ LateAt(k) = (st0.window_start # s.window_start)
      BY <2>1 DEF ServerKeyAt, LateAt
    <3> HIDE DEF s, w, max, due, st0
    <3>2. Covers(st0, s, w, max, due, st0.window_start # s.window_start, now)
      BY <1>3, <1>4, <1>5, <3>1, NewServerCovered
    <3> QED
      BY <3>1, <3>2
  <2>2. CASE server[k] # NoServerKey
    BY <2>2 DEF ServerKeyAt, KeyCovered, LateAt
  <2> QED
    BY <2>1, <2>2
<1>7. /\ s.window_start # st.window_start => k \in straggled'
      /\ LateAt(k) /\ st0.window_start = st.window_start => k \in straggled'
  <2>1. permits[c].window_start = s.window_start
    <3>1. Holds(c)
      BY <1>1, InFlightPermit
    <3>2. StillKnows(s, permits[c], cfg.algorithm)
      BY <3>1, HeldBucketKnows DEF CInv, KeyOf
    <3> QED
      BY <1>4, <3>2 DEF StillKnows, WindowOK, FixedWindowState
  <2>2. IsLate(c, st) <=> s.window_start # st.window_start
    BY <1>3, <2>1 DEF IsLate
  <2>3. straggled' = IF IsLate(c, st) \/ StillStraggled(k, st)
                     THEN straggled \cup {k} ELSE straggled \ {k}
    BY DEF Arrive, StateAfter, VerdictOn, KeyOf
  <2>4. k \in straggled' <=> IsLate(c, st) \/ StillStraggled(k, st)
    BY <2>3
  <2>5. LateAt(k) /\ st0.window_start = st.window_start /\ s.window_start = st.window_start
          => StillStraggled(k, st)
    BY DEF StillStraggled, ServerKeyAt, LateAt
  <2> QED
    BY <2>2, <2>4, <2>5
<1>8. permits' = permits
  BY DEF Arrive, vars
<1>9. /\ flights'[c].stage = "answering"
      /\ \A e \in Callers : e # c => flights'[e] = flights[e]
  BY DEF Arrive, CInv, CTypeOK, Flight
<1>10. Coming' = [Coming EXCEPT ![c] = NoPermit]
  BY <1>8, <1>9 DEF Coming
<1>11. /\ cost <= due /\ Due(k)' = due - cost
       /\ \A l \in Keys : l # k => Due(l)' = Due(l)
  BY <1>1, <1>10, DueShrinks
<1>12. LateAt(k) \in BOOLEAN
  <2>1. CASE server[k] = NoServerKey
    <3>1. LateAt(k) = (st0.window_start # s.window_start)
      BY <2>1 DEF LateAt
    <3> QED
      BY <3>1
  <2>2. CASE server[k] # NoServerKey
    <3>1. LateAt(k) = (k \in straggled)
      BY <2>2 DEF LateAt
    <3> QED
      BY <3>1
  <2> QED
    BY <2>1, <2>2
<1> QED
  BY <1>2, <1>4, <1>5, <1>6, <1>7, <1>11, <1>12

\* After an arrival, late or not, the key's window is covered.
LEMMA ArriveCovered ==
  ASSUME ClockShortOfMax, CInv, SharedWindows, \A k \in Keys : KeyCovered(k),
         NEW c \in Callers, Arrive(c)
  PROVE  \A k \in Keys : KeyCovered(k)'
<1>1. KeyOf(c) \in Keys
  BY InFlightPermit DEF Arrive
<1> SUFFICES ASSUME NEW key \in Keys, key = KeyOf(c) PROVE \A k \in Keys : KeyCovered(k)'
  BY <1>1
<1> DEFINE w == cfg.algorithm.window
           max == cfg.algorithm.max_per_window
           s == buckets[key].state
           st0 == ServerKeyAt(key)
           st == StateAfter(c)
           cost == permits[c].cost
           due == Due(key)
           late == LateAt(key)
           later == key \in straggled'
           decision == VerdictOn(c)
<1>2. /\ Tracked(key) /\ cost \in Cost /\ st0 \in ServerKeyState /\ decision \in ServerDecision
      /\ WindowOK(s, w, max, now) /\ cost <= due /\ due <= s.reserved
      /\ late \in BOOLEAN /\ later \in BOOLEAN
      /\ Covers(st0, s, w, max, due, late, now)
      /\ s.window_start # st.window_start => later
      /\ late /\ st0.window_start = st.window_start => later
      /\ Due(key)' = due - cost
      /\ \A k \in Keys : k # key => Due(k)' = Due(k)
  BY WindowArrival
<1>3. /\ algo \in AlgorithmConfig /\ algo.kind = "FixedWindow" /\ algo.window = w
      /\ w \in Duration \ {0} /\ max \in U32 /\ due \in Nat
      /\ now \in Duration /\ now < DurationMax /\ now \in Nat
  BY WindowTypes, Widths DEF Duration
<1>4. UNCHANGED <<cfg, now, buckets, permits>> /\ server' = [server EXCEPT ![key] = st]
  BY DEF Arrive, vars, StateAfter, VerdictOn, KeyOf
<1>5. st = ApplyOutcome(st0, algo, cost, decision, now)
  BY DEF StateAfter
<1>6. Covers(st, s, w, max, due - cost, later, now)
  <2> HIDE DEF w, max, s, st0, st, cost, due, late, later, decision
  <2>1. Covers(ApplyOutcome(st0, algo, cost, decision, now), s, w, max, due - cost, later, now)
    BY <1>2, <1>3, <1>5, ArrivalKeepsCover
  <2> QED
    BY <1>5, <2>1
<1>7. KeyCovered(key)'
  <2>1. server'[key] = st /\ buckets'[key] = buckets[key]
    BY <1>4, WindowTypes
  <2> QED
    BY <1>2, <1>4, <1>6, <2>1 DEF KeyCovered, Tracked
<1>8. ASSUME NEW k \in Keys, k # key PROVE KeyCovered(k)'
  <2>1. buckets'[k] = buckets[k] /\ server'[k] = server[k] /\ (k \in straggled' <=> k \in straggled)
    BY <1>4, <1>8, WindowTypes DEF Arrive, KeyOf
  <2>2. Due(k)' = Due(k) /\ Due(k) \in Nat
    BY <1>2, <1>8, WindowTypes
  <2> QED
    BY <1>3, <1>4, <2>1, <2>2, KeyStaysCovered
<1> QED
  BY <1>7, <1>8

\* Nothing a request does on its way adds to what is due.
LEMMA TravelDue ==
  ASSUME CInv, NEW c \in Callers, Transmit(c) \/ Lose(c), NEW k \in Keys
  PROVE  Due(k)' \in Nat /\ Due(k)' <= Due(k)
<1>1. permits' = permits /\ flights \in [Callers -> Flight] /\ Due(k) \in Nat
  BY DueTypes DEF Transmit, Lose, Moves, vars, CInv, CTypeOK
<1>2. Coming' = Coming \/ Coming' = [Coming EXCEPT ![c] = NoPermit]
  <2>1. CASE Transmit(c)
    BY <1>1, <2>1 DEF Coming, Transmit, Moves, Flight
  <2>2. CASE Moves(c, "travelling", "lost")
    BY <1>1, <2>2 DEF Coming, Moves, Flight
  <2>3. CASE Moves(c, "answering", "lost")
    BY <1>1, <2>3 DEF Coming, Moves, Flight
  <2> QED
    BY <2>1, <2>2, <2>3 DEF Lose
<1>3. CASE Coming' = Coming
  BY <1>1, <1>3 DEF Due
<1>4. CASE Coming' = [Coming EXCEPT ![c] = NoPermit]
  <2>1. /\ Brings(c) \in Nat /\ Brings(c) <= Due(KeyOf(c))
        /\ Due(k)' = IF k = KeyOf(c) THEN Due(k) - Brings(c) ELSE Due(k)
    BY <1>4, DueShrinks
  <2>2. CASE k = KeyOf(c)
    <3>1. Due(k)' = Due(k) - Brings(c) /\ Brings(c) <= Due(k)
      BY <2>1, <2>2
    <3> QED
      BY <1>1, <2>1, <3>1
  <2>3. CASE k # KeyOf(c)
    BY <1>1, <2>1, <2>3
  <2> QED
    BY <2>2, <2>3
<1> QED
  BY <1>2, <1>3, <1>4

LEMMA MoveCovered ==
  ASSUME ClockShortOfMax, CInv, SharedWindows, \A k \in Keys : KeyCovered(k),
         NEW c \in Callers, FlightMoves(c)
  PROVE  \A k \in Keys : KeyCovered(k)'
<1>1. ASSUME Transmit(c) \/ Lose(c), NEW k \in Keys PROVE KeyCovered(k)'
  <2>1. UNCHANGED <<cfg, now, buckets, server, straggled>>
    BY <1>1 DEF Transmit, Lose, Moves, vars, history
  <2>2. now \in Nat /\ now <= now
    BY WindowTypes, Widths DEF Duration
  <2> QED
    BY <1>1, <2>1, <2>2, TravelDue, KeyStaysCovered
<1> QED
  BY <1>1, ArriveCovered DEF FlightMoves

LEMMA EndCovered ==
  ASSUME ClockShortOfMax, CInv, SharedWindows, \A k \in Keys : KeyCovered(k),
         NEW c \in Callers, FlightEnds(c), FailToSend(c) \/ Answer(c) \/ Expire(c)
  PROVE  \A k \in Keys : KeyCovered(k)'
<1>0. flights[c].stage # "none" /\ KeyOf(c) \in Keys
  BY InFlightPermit DEF FlightEnds
<1> SUFFICES ASSUME NEW key \in Keys, key = KeyOf(c) PROVE \A k \in Keys : KeyCovered(k)'
  BY <1>0
<1> DEFINE w == cfg.algorithm.window
           max == cfg.algorithm.max_per_window
           b == buckets[key]
           s == b.state
           p == permits[c]
           due == Due(key)
           brought == Brings(c)
<1>1. /\ UNCHANGED <<cfg, now, algo, server, straggled>>
      /\ permits' = [permits EXCEPT ![c] = NoPermit]
      /\ flights' = [flights EXCEPT ![c] = NoFlight]
      /\ Refunds(c) \/ \E until \in Duration : Commits(c, until)
  BY EndShape
<1>2. Coming' = [Coming EXCEPT ![c] = NoPermit]
  BY <1>1 DEF Coming, CInv, CTypeOK, IInv, TypeOK, NoFlight
<1>3. /\ brought \in Nat /\ brought <= due /\ Due(key)' = due - brought
      /\ \A k \in Keys : k # key => Due(k)' = Due(k)
      /\ flights[c].stage = "attached" => brought = p.cost
  BY <1>2, DueShrinks
<1>4. /\ Tracked(key) /\ StillKnows(s, p, cfg.algorithm)
  BY <1>0, InFlightPermit, HeldBucketKnows DEF CInv, KeyOf
<1>5. /\ w \in Duration \ {0} /\ max \in U32 /\ now \in Duration
      /\ cfg.algorithm \in AlgorithmConfig /\ cfg.algorithm.window = w
      /\ now \in Nat /\ due \in Nat
  BY WindowTypes, Widths DEF Duration
<1>6. WindowOK(s, w, max, now)
  BY <1>4 DEF KeyCovered
<1>7. EndCovers(s, p, cfg.algorithm, w, max, due, brought, now)
  <2> DEFINE a == cfg.algorithm
  <2>1. a \in AlgorithmConfig /\ a.window = w /\ StillKnows(s, p, a)
    BY <1>4, <1>5
  <2> HIDE DEF a, w, max, s, p, due, brought
  <2>2. EndCovers(s, p, a, w, max, due, brought, now)
    BY <1>3, <1>5, <1>6, <2>1, EndKeepsCover
  <2> QED
    BY <2>2 DEF a
<1>8. server[key] # NoServerKey =>
        /\ server[key] \in ServerKeyState /\ (key \in straggled) \in BOOLEAN
        /\ Covers(server[key], s, w, max, due, key \in straggled, now)
  BY WindowTypes DEF KeyCovered
<1>9. ASSUME NEW after \in Bucket, buckets' = [buckets EXCEPT ![key] = after],
             \/ after.state = FinalizeState(s, p, TRUE, cfg.algorithm, now)
             \/ after.state = RefundState(s, p, cfg.algorithm, now) /\ brought = p.cost
      PROVE  \A k \in Keys : KeyCovered(k)'
  <2>1. buckets'[key] = after /\ after # NoBucket
    BY <1>9, NoBucketIsNone, WindowTypes
  <2>2. WindowOK(after.state, w, max, now)
    BY <1>7, <1>9 DEF EndCovers
  <2>3. server[key] # NoServerKey =>
          Covers(server[key], after.state, w, max, due - brought, key \in straggled, now)
    BY <1>7, <1>8, <1>9 DEF EndCovers
  <2>4. KeyCovered(key)'
    BY <1>1, <1>3, <2>1, <2>2, <2>3 DEF KeyCovered, Tracked
  <2>5. ASSUME NEW k \in Keys, k # key PROVE KeyCovered(k)'
    <3>1. buckets'[k] = buckets[k] /\ Due(k)' = Due(k) /\ Due(k) \in Nat /\ now <= now
      BY <1>3, <1>5, <1>9, <2>5, WindowTypes
    <3> QED
      BY <1>1, <1>5, <3>1, KeyStaysCovered
  <2> QED
    BY <2>4, <2>5
<1>10. CASE Refunds(c)
  <2> DEFINE after == BucketRefund(b, p, cfg.algorithm, now)
  <2>1. after \in Bucket /\ after.state = RefundState(s, p, cfg.algorithm, now)
    <3>1. 0 \in Duration
      BY Widths DEF Duration
    <3> QED
      BY <1>0, <3>1, EndedBucket
  <2>2. buckets' = [buckets EXCEPT ![key] = after] /\ brought = p.cost
    BY <1>3, <1>10 DEF Refunds
  <2> HIDE DEF after
  <2> QED
    BY <1>9, <2>1, <2>2
<1>11. ASSUME NEW until \in Duration, Commits(c, until) PROVE \A k \in Keys : KeyCovered(k)'
  <2> DEFINE after == BucketCommit(b, p, TRUE, until, cfg.algorithm, now)
  <2>1. after \in Bucket /\ after.state = FinalizeState(s, p, TRUE, cfg.algorithm, now)
    BY <1>0, EndedBucket
  <2>2. buckets' = [buckets EXCEPT ![key] = after]
    BY <1>11 DEF Commits
  <2> HIDE DEF after
  <2> QED
    BY <1>9, <2>1, <2>2
<1> QED
  BY <1>1, <1>10, <1>11

LEMMA TickCovered ==
  ASSUME ClockShortOfMax, CInv, CInv', SharedWindows, \A k \in Keys : KeyCovered(k),
         CTick \/ UNCHANGED cvars
  PROVE  \A k \in Keys : KeyCovered(k)'
<1>1. UNCHANGED <<cfg, buckets, server, straggled, permits, flights>>
  BY DEF CTick, Tick, history, cvars, vars
<1>2. now \in Nat /\ now' \in Nat /\ now <= now'
  <2>1. now \in Nat
    BY WindowTypes, Widths DEF Duration
  <2>2. CASE CTick
    <3>1. now' \in (now + 1)..MaxTime
      BY <2>2 DEF CTick, Tick
    <3>2. MaxTime \in Nat
      BY LimiterAssumption, Widths DEF LimiterAssumption, Duration
    <3> QED
      BY <2>1, <3>1, <3>2
  <2>3. CASE UNCHANGED cvars
    BY <2>1, <2>3 DEF cvars, vars
  <2> QED
    BY <2>1, <2>2, <2>3
<1>3. ASSUME NEW k \in Keys PROVE Due(k)' = Due(k) /\ Due(k) \in Nat
  <2>1. Coming' = Coming
    BY <1>1 DEF Coming
  <2> QED
    BY <2>1, DueTypes DEF Due
<1> QED
  BY <1>1, <1>2, <1>3, KeyStaysCovered

LEMMA WindowStep ==
  ASSUME NeverEvicts, ClockShortOfMax, CInv, CInv', WindowInv, [CNext]_cvars
  PROVE  WindowInv'
<1>1. cfg' = cfg /\ algo' = algo
  BY LimiterInv
<1>2. ASSUME SharedWindows PROVE \A k \in Keys : KeyCovered(k)'
  <2>1. \A k \in Keys : KeyCovered(k)
    BY <1>2 DEF WindowInv
  <2> QED
    BY <1>2, <2>1, StepShapes, AcquireCovered, MoveCovered, EndCovered, TickCovered
<1> QED
  BY <1>1, <1>2 DEF WindowInv, SharedWindows

LEMMA WindowInit == CInit => WindowInv
BY DEF CInit, Init, WindowInv, KeyCovered, Tracked

\* Limiter and server use windows of the same length, whatever their limits.
SameWindows ==
  \A new \in Configs, a \in ServerAlgos :
    new.algorithm.kind = "FixedWindow" /\ a.kind = "FixedWindow" =>
      a.window = new.algorithm.window

\* ServerLoadBounded, for equal window lengths and buckets that stay: however
\* requests are delayed within their deadlines, a window of the server sees at
\* most two of the limiter's.
THEOREM ServerSeesTwoWindows ==
  ASSUME NeverEvicts, ClockShortOfMax, SameWindows
  PROVE  CSpec => []ServerLoadBounded
<1>1. CInv /\ WindowInv => ServerLoadBounded
  <2> SUFFICES ASSUME CInv, WindowInv, algo.kind = "FixedWindow", NEW k \in Keys,
                      server[k] # NoServerKey
               PROVE  server[k].spent <= 2 * cfg.algorithm.max_per_window
    BY DEF ServerLoadBounded
  <2>1. SharedWindows
    BY DEF SharedWindows, SameWindows, CInv, CTypeOK
  <2> QED
    BY <2>1 DEF WindowInv, KeyCovered, Covers
<1>2. CInv /\ CInv' /\ WindowInv /\ [CNext]_cvars => WindowInv'
  BY WindowStep
<1> QED
  BY <1>1, <1>2, WindowInit, CompositionInvariance, PTL DEF CSpec

-----------------------------------------------------------------------------
(***************************************************************************)
(* Who is turned away, when limiter and server have the same window: only  *)
(* a straggler, and whoever meets the block a straggler caused, which is   *)
(* over when the server's window is.                                       *)
(***************************************************************************)
BlockOK(st, w, late) ==
  /\ st.blocked_until <= st.window_start + w
  /\ ~late => st.blocked_until <= st.window_start

LEMMA RejectedIsLate ==
  ASSUME NEW st \in ServerKeyState, NEW s, NEW w \in Duration \ {0}, NEW max \in U32,
         NEW a \in AlgorithmConfig, a.kind = "FixedWindow", a.window = w,
         a.max_per_window = max,
         NEW t \in Duration, t < DurationMax, NEW cost \in Cost,
         NEW due \in Nat, cost <= due, due <= s.reserved,
         NEW late \in BOOLEAN, NEW later \in BOOLEAN,
         WindowOK(s, w, max, t), Covers(st, s, w, max, due, late, t), BlockOK(st, w, late),
         NEW decision, decision = Decide(st, a, cost, t),
         NEW after, after = ApplyOutcome(st, a, cost, decision, t),
         s.window_start # after.window_start => later,
         late /\ st.window_start = after.window_start => later
  PROVE  (~decision.ok => later) /\ BlockOK(after, w, later)
<1> DEFINE adv == AdvanceWindow(st, w, t)
           start == WindowStartFor(t, w)
           until == SatAdd(t, decision.retry_after, DurationMax)
<1>1. s \in FixedWindowState /\ Aligned(s.window_start, w) /\ s.window_start <= t /\ Used(s) <= max
  BY DEF WindowOK
<1>2. /\ t \in Nat /\ w \in Nat \ {0} /\ max \in Nat /\ cost \in Nat /\ U32Max \in Nat
      /\ DurationMax \in Nat
  BY Widths DEF Duration, U32, Cost
<1>3. /\ s.window_start \in Nat /\ s.reserved \in Nat /\ s.spent \in Nat
      /\ Used(s) = s.spent + s.reserved
      /\ st.window_start \in Nat /\ st.spent \in Nat /\ st.spent <= U32Max
      /\ st.blocked_until \in Nat /\ st.blocked_until <= DurationMax
  BY <1>1, CoverTypes DEF Used
<1>4. decision \in ServerDecision
  BY DecideType
<1>5. /\ after.window_start = adv.window_start
      /\ after.blocked_until = IF decision.ok THEN st.blocked_until
                               ELSE Greater(st.blocked_until, until)
  BY <1>4, ApplyWindow
<1>6. start \in Nat /\ start <= t /\ Aligned(start, w) /\ t < start + w
  BY <1>2, WindowStartAligned, WindowStartRecent
<1>7. \/ adv = st /\ t < st.window_start + w
      \/ adv.window_start = start /\ adv.spent = 0 /\ st.window_start + w <= t
  BY AdvanceWindowEffect
<1>8. Aligned(st.window_start, w) /\ st.window_start <= t
  BY DEF Covers
<1>9. cost <= max /\ cost <= U32Max
  BY <1>1, <1>2, <1>3, Widths DEF Cost
<1>10. /\ s.window_start # after.window_start => later
       /\ late /\ st.window_start = after.window_start => later
  OBVIOUS
<1>11. decision = IF t < st.blocked_until THEN Rejected(st.blocked_until - t)
                  ELSE WindowDecision(adv, a, cost, t)
  BY DEF Decide, Advanced
<1>12. BlockOK(st, w, late)
  OBVIOUS
<1> HIDE DEF adv, start
<1>13. CASE t < st.blocked_until
  <2>1. adv = st /\ late
    BY <1>2, <1>3, <1>7, <1>8, <1>12, <1>13 DEF BlockOK
  <2>2. ~decision.ok /\ decision.retry_after = st.blocked_until - t
    BY <1>11, <1>13 DEF Rejected
  <2>3. until = st.blocked_until
    BY <1>2, <1>3, <1>13, <2>2 DEF SatAdd, Lesser
  <2>4. after.blocked_until = st.blocked_until /\ after.window_start = st.window_start
    BY <1>3, <1>5, <2>1, <2>2, <2>3 DEF Greater
  <2> QED
    BY <1>10, <1>12, <2>1, <2>4 DEF BlockOK
<1>14. CASE ~(t < st.blocked_until) /\ adv = st /\ t < st.window_start + w
  <2>1. s.window_start <= st.window_start
    <3> SUFFICES ASSUME st.window_start < s.window_start PROVE FALSE
      BY <1>3
    <3>1. st.window_start + w <= s.window_start
      BY <1>1, <1>2, <1>3, <1>8, AlignedApart
    <3> QED
      BY <1>1, <1>2, <1>3, <1>14, <3>1
  <2>2. st.spent + due <= Used(s) + IF late /\ st.window_start = s.window_start THEN max ELSE 0
    BY <1>3, <2>1 DEF Covers
  <2>3. after.window_start = st.window_start
    BY <1>5, <1>14
  <2>4. late => later
    BY <1>10, <2>3
  <2>5. CASE ~(SatAdd(st.spent, cost, U32Max) > max)
    <3>1. decision = Accepted
      BY <1>2, <1>9, <1>11, <1>14, <2>5 DEF WindowDecision
    <3>2. decision.ok
      BY <3>1 DEF Accepted
    <3>3. after.blocked_until = st.blocked_until
      BY <1>5, <3>2
    <3> QED
      BY <1>12, <2>3, <2>4, <3>2, <3>3 DEF BlockOK
  <2>6. CASE SatAdd(st.spent, cost, U32Max) > max
    <3> DEFINE end == SatAdd(st.window_start, w, DurationMax)
    <3>1. decision = Rejected(SatSub(end, t))
      BY <1>2, <1>9, <1>11, <1>14, <2>6 DEF WindowDecision
    <3>2. ~decision.ok /\ decision.retry_after = SatSub(end, t)
      BY <3>1 DEF Rejected
    <3>3. end \in Nat /\ t < end /\ end <= st.window_start + w /\ end <= DurationMax
      BY <1>2, <1>3, <1>14 DEF SatAdd, Lesser
    <3> HIDE DEF end
    <3>4. until = end
      BY <1>2, <3>2, <3>3 DEF SatAdd, SatSub, Lesser
    <3>5. after.blocked_until <= st.window_start + w
      BY <1>3, <1>5, <1>12, <3>2, <3>3, <3>4 DEF Greater, BlockOK
    <3>6. st.spent + cost > max
      BY <1>2, <1>3, <2>6 DEF SatAdd, Lesser
    <3>7. later
      <4>1. CASE st.window_start # s.window_start
        BY <1>10, <2>3, <4>1
      <4>2. CASE st.window_start = s.window_start /\ ~late
        <5>1. st.spent + due <= max
          BY <1>1, <1>2, <1>3, <2>2, <4>2
        <5> QED
          BY <1>2, <1>3, <3>6, <5>1
      <4> QED
        BY <2>4, <4>1, <4>2
    <3> QED
      BY <2>3, <3>5, <3>7 DEF BlockOK
  <2> QED
    BY <2>5, <2>6
<1>15. CASE ~(t < st.blocked_until) /\ adv.window_start = start /\ adv.spent = 0
            /\ st.window_start + w <= t
  <2>1. ~(SatAdd(adv.spent, cost, U32Max) > max)
    BY <1>2, <1>9, <1>15 DEF SatAdd, Lesser
  <2>2. decision = Accepted
    BY <1>2, <1>9, <1>11, <1>15, <2>1 DEF WindowDecision
  <2>3. decision.ok /\ after.blocked_until = st.blocked_until /\ after.window_start = start
    BY <1>5, <1>15, <2>2 DEF Accepted
  <2>4. st.window_start + w <= start
    <3>1. st.window_start < start
      BY <1>2, <1>3, <1>6, <1>15
    <3> QED
      BY <1>2, <1>3, <1>6, <1>8, <3>1, AlignedApart
  <2>5. after.blocked_until <= start
    BY <1>2, <1>3, <1>6, <1>12, <2>3, <2>4 DEF BlockOK
  <2> QED
    BY <1>2, <1>3, <1>6, <2>3, <2>5 DEF BlockOK
<1> QED
  BY <1>7, <1>13, <1>14, <1>15

SameLimits == algo = cfg.algorithm

KeyBlockOK(k) ==
  server[k] # NoServerKey => BlockOK(server[k], cfg.algorithm.window, k \in straggled)

BlockInv == SharedWindows /\ SameLimits => \A k \in Keys : KeyBlockOK(k)

LEMMA ArriveJudged ==
  ASSUME ClockShortOfMax, CInv, SharedWindows, SameLimits,
         \A k \in Keys : KeyCovered(k), \A k \in Keys : KeyBlockOK(k),
         NEW c \in Callers, Arrive(c)
  PROVE  /\ \A k \in Keys : KeyBlockOK(k)'
         /\ ~VerdictOn(c).ok => KeyOf(c) \in straggled'
<1>1. KeyOf(c) \in Keys
  BY InFlightPermit DEF Arrive
<1> SUFFICES ASSUME NEW key \in Keys, key = KeyOf(c)
             PROVE  /\ \A k \in Keys : KeyBlockOK(k)'
                    /\ ~VerdictOn(c).ok => key \in straggled'
  BY <1>1
<1> DEFINE w == cfg.algorithm.window
           max == cfg.algorithm.max_per_window
           s == buckets[key].state
           st0 == ServerKeyAt(key)
           st == StateAfter(c)
           cost == permits[c].cost
           due == Due(key)
           late == LateAt(key)
           later == key \in straggled'
           decision == VerdictOn(c)
<1>2. /\ cost \in Cost /\ st0 \in ServerKeyState
      /\ WindowOK(s, w, max, now) /\ cost <= due /\ due <= s.reserved
      /\ late \in BOOLEAN /\ later \in BOOLEAN
      /\ Covers(st0, s, w, max, due, late, now)
      /\ s.window_start # st.window_start => later
      /\ late /\ st0.window_start = st.window_start => later
  BY WindowArrival
<1>3. /\ algo \in AlgorithmConfig /\ algo.kind = "FixedWindow" /\ algo.window = w
      /\ algo.max_per_window = max
      /\ w \in Duration \ {0} /\ max \in U32 /\ due \in Nat
      /\ now \in Duration /\ now < DurationMax
  BY WindowTypes DEF SameLimits
<1>4. UNCHANGED <<cfg, now, buckets, permits>> /\ server' = [server EXCEPT ![key] = st]
  BY DEF Arrive, vars, StateAfter, VerdictOn, KeyOf
<1>5. st = ApplyOutcome(st0, algo, cost, decision, now) /\ decision = Decide(st0, algo, cost, now)
  BY DEF StateAfter, VerdictOn
<1>6. BlockOK(st0, w, late)
  <2>1. CASE server[key] = NoServerKey
    <3>1. st0 = NewServerKey(algo, now)
      BY <2>1 DEF ServerKeyAt
    <3>2. st0.blocked_until = 0 /\ st0.window_start \in Nat
      BY <1>2, <3>1, CoverTypes DEF NewServerKey
    <3> QED
      BY <1>3, <3>2, Widths DEF BlockOK, Duration
  <2>2. CASE server[key] # NoServerKey
    BY <2>2 DEF KeyBlockOK, ServerKeyAt, LateAt
  <2> QED
    BY <2>1, <2>2
<1>7. (~decision.ok => later) /\ BlockOK(st, w, later)
  <2> HIDE DEF w, max, s, st0, st, cost, due, late, later, decision
  <2> QED
    BY <1>2, <1>3, <1>5, <1>6, RejectedIsLate
<1>8. KeyBlockOK(key)'
  <2>1. server'[key] = st
    BY <1>4, WindowTypes
  <2> QED
    BY <1>4, <1>7, <2>1 DEF KeyBlockOK
<1>9. ASSUME NEW k \in Keys, k # key PROVE KeyBlockOK(k)'
  <2>1. server'[k] = server[k] /\ (k \in straggled' <=> k \in straggled)
    BY <1>4, <1>9, WindowTypes DEF Arrive, KeyOf
  <2> QED
    BY <1>4, <2>1 DEF KeyBlockOK
<1> QED
  BY <1>7, <1>8, <1>9

LEMMA BlockStep ==
  ASSUME ClockShortOfMax, CInv, WindowInv, BlockInv, [CNext]_cvars
  PROVE  BlockInv'
<1>1. cfg' = cfg /\ algo' = algo
  BY LimiterInv
<1>2. ASSUME SharedWindows, SameLimits PROVE \A k \in Keys : KeyBlockOK(k)'
  <2>1. \A k \in Keys : KeyBlockOK(k) /\ KeyCovered(k)
    BY <1>2 DEF WindowInv, BlockInv
  <2>2. ASSUME UNCHANGED <<server, straggled>> PROVE \A k \in Keys : KeyBlockOK(k)'
    BY <1>1, <2>1, <2>2 DEF KeyBlockOK
  <2>3. ASSUME NEW c \in Callers, FlightMoves(c) PROVE \A k \in Keys : KeyBlockOK(k)'
    <3>1. CASE Arrive(c)
      BY <1>2, <2>1, <3>1, ArriveJudged
    <3>2. CASE Transmit(c) \/ Lose(c)
      BY <2>2, <3>2 DEF Transmit, Lose, Moves, history
    <3> QED
      BY <2>3, <3>1, <3>2 DEF FlightMoves
  <2> QED
    BY <2>2, <2>3, StepShapes DEF Acquire, history, FlightEnds, CTick, cvars
<1> QED
  BY <1>1, <1>2 DEF BlockInv, SharedWindows, SameLimits

LEMMA BlockInit == CInit => BlockInv
BY DEF CInit, BlockInv, KeyBlockOK

-----------------------------------------------------------------------------
(***************************************************************************)
(* Two pools of the same capacity and rate.  What a pool holds at a later  *)
(* time; refilling twice never gives more than refilling once, because the *)
(* fraction of a credit is dropped each time.                              *)
(***************************************************************************)
Gain(rate, d) == (d * rate) \div NanosPerSec

HasAt(credits, since, cap, rate, t) == Lesser(credits + Gain(rate, t - since), cap)

LEMMA GainFacts ==
  ASSUME NEW rate \in Nat
  PROVE  /\ \A d \in Nat : Gain(rate, d) \in Nat
         /\ Gain(rate, 0) = 0
         /\ \A d, e \in Nat : Gain(rate, d) + Gain(rate, e) <= Gain(rate, d + e)
         /\ \A r \in Nat, d \in Nat : r <= rate => Gain(r, d) <= Gain(rate, d)
<1>1. NanosPerSec \in Nat \ {0}
  BY Widths
<1>2. ASSUME NEW r \in Nat, NEW d \in Nat PROVE Gain(r, d) \in Nat /\ d * r \in Nat
  <2>1. d * r \in Nat
    OBVIOUS
  <2> DEFINE x == d * r
  <2> HIDE DEF x
  <2>2. x \div NanosPerSec \in Nat
    BY <1>1, <2>1, DivBounds DEF x
  <2> QED
    BY <2>1, <2>2 DEF Gain, x
<1>3. Gain(rate, 0) = 0
  <2>1. 0 * rate = 0
    OBVIOUS
  <2>2. 0 \div NanosPerSec = 0
    BY <1>1
  <2> QED
    BY <2>1, <2>2 DEF Gain
<1>4. ASSUME NEW x \in Nat, NEW y \in Nat
      PROVE  (x \div NanosPerSec) + (y \div NanosPerSec) <= (x + y) \div NanosPerSec
  <2> DEFINE n == NanosPerSec
             p == x \div n
             q == y \div n
             z == x + y
  <2>1. n \in Nat \ {0}
    BY <1>1
  <2> HIDE DEF n
  <2>2. p \in Nat /\ q \in Nat /\ p * n <= x /\ q * n <= y /\ z \in Nat /\ z \div n \in Nat
    BY <2>1, DivBounds
  <2> HIDE DEF p, q
  <2>3. (p + q) * n = p * n + q * n /\ p * n \in Nat /\ q * n \in Nat
    BY <2>1, <2>2
  <2>4. (p + q) * n <= z
    BY <2>2, <2>3
  <2>5. p + q \in Nat
    BY <2>2
  <2> HIDE DEF z
  <2>6. z \div n < p + q <=> z < (p + q) * n
    <3> DEFINE m == p + q
    <3>1. m \in Nat
      BY <2>5
    <3> HIDE DEF m
    <3>2. z \div n < m <=> z < m * n
      BY <2>1, <2>2, <3>1, DivBelow
    <3> QED
      BY <3>2 DEF m
  <2>7. ~(z \div n < p + q)
    <3> DEFINE prod == (p + q) * n
    <3>1. prod \in Nat /\ prod <= z
      BY <2>3, <2>4
    <3>2. z \div n < p + q <=> z < prod
      BY <2>6
    <3> HIDE DEF prod
    <3> QED
      BY <2>2, <3>1, <3>2
  <2>8. p + q <= z \div n
    <3> DEFINE m == p + q
               quot == z \div n
    <3>1. m \in Nat /\ quot \in Nat /\ ~(quot < m)
      BY <2>2, <2>5, <2>7
    <3> HIDE DEF m, quot
    <3>2. m <= quot
      BY <3>1
    <3> QED
      BY <3>2 DEF m, quot
  <2> QED
    BY <2>8 DEF n, p, q, z
<1>5. ASSUME NEW d \in Nat, NEW e \in Nat PROVE Gain(rate, d) + Gain(rate, e) <= Gain(rate, d + e)
  <2>1. d * rate \in Nat /\ e * rate \in Nat /\ (d + e) * rate = d * rate + e * rate
    OBVIOUS
  <2> DEFINE x == d * rate
             y == e * rate
  <2>2. (x \div NanosPerSec) + (y \div NanosPerSec) <= (x + y) \div NanosPerSec
    BY <1>4, <2>1
  <2> QED
    BY <2>1, <2>2 DEF Gain
<1>6. ASSUME NEW r \in Nat, NEW d \in Nat, r <= rate PROVE Gain(r, d) <= Gain(rate, d)
  <2> DEFINE x == d * r
             y == d * (rate - r)
  <2>1. /\ x \in Nat /\ y \in Nat /\ x + y = d * rate
    <3>1. rate - r \in Nat
      BY <1>6
    <3>2. d * r + d * (rate - r) = d * rate
      BY <1>6
    <3> QED
      BY <3>1, <3>2
  <2>2. (x \div NanosPerSec) + (y \div NanosPerSec) <= (x + y) \div NanosPerSec
    BY <1>4, <2>1
  <2>3. x \div NanosPerSec \in Nat /\ y \div NanosPerSec \in Nat
        /\ (x + y) \div NanosPerSec \in Nat
    <3>1. x + y \in Nat
      BY <2>1
    <3> HIDE DEF x, y
    <3> QED
      BY <1>1, <2>1, <3>1, DivBounds
  <2>4. Gain(r, d) = x \div NanosPerSec /\ Gain(rate, d) = (x + y) \div NanosPerSec
    BY <2>1 DEF Gain
  <2> HIDE DEF x, y
  <2> QED
    BY <2>2, <2>3, <2>4
<1> QED
  BY <1>2, <1>3, <1>5, <1>6

LEMMA HasFacts ==
  ASSUME NEW cap \in Nat, NEW rate \in Nat
  PROVE  /\ \A c, since, t \in Nat : since <= t =>
              /\ HasAt(c, since, cap, rate, t) \in Nat
              /\ HasAt(c, since, cap, rate, t) <= cap
              /\ c <= cap => c <= HasAt(c, since, cap, rate, t)
         /\ \A c, t \in Nat : c <= cap => HasAt(c, t, cap, rate, t) = c
         /\ \A c, e, since, t \in Nat : since <= t /\ c <= e =>
              HasAt(c, since, cap, rate, t) <= HasAt(e, since, cap, rate, t)
         /\ \A c, h, since, t, u \in Nat :
              since <= t /\ t <= u /\ h <= HasAt(c, since, cap, rate, t) =>
                HasAt(h, t, cap, rate, u) <= HasAt(c, since, cap, rate, u)
<1>1. ASSUME NEW since \in Nat, NEW t \in Nat, since <= t
      PROVE  t - since \in Nat /\ Gain(rate, t - since) \in Nat
  <2>1. t - since \in Nat
    BY <1>1
  <2> QED
    BY <2>1, GainFacts
<1>2. ASSUME NEW c \in Nat, NEW since \in Nat, NEW t \in Nat, since <= t
      PROVE  /\ HasAt(c, since, cap, rate, t) \in Nat
             /\ HasAt(c, since, cap, rate, t) <= cap
             /\ c <= cap => c <= HasAt(c, since, cap, rate, t)
  <2>1. Gain(rate, t - since) \in Nat
    BY <1>1, <1>2
  <2> QED
    BY <2>1 DEF HasAt, Lesser
<1>3. ASSUME NEW c \in Nat, NEW t \in Nat, c <= cap
      PROVE  HasAt(c, t, cap, rate, t) = c
  <2>1. Gain(rate, t - t) = 0
    <3>1. t - t = 0
      OBVIOUS
    <3> QED
      BY <3>1, GainFacts
  <2> QED
    BY <1>3, <2>1 DEF HasAt, Lesser
<1>4. ASSUME NEW c \in Nat, NEW e \in Nat, NEW since \in Nat, NEW t \in Nat, since <= t, c <= e
      PROVE  HasAt(c, since, cap, rate, t) <= HasAt(e, since, cap, rate, t)
  <2>1. Gain(rate, t - since) \in Nat
    BY <1>1, <1>4
  <2> QED
    BY <1>4, <2>1 DEF HasAt, Lesser
<1>5. ASSUME NEW c \in Nat, NEW h \in Nat, NEW since \in Nat, NEW t \in Nat, NEW u \in Nat,
             since <= t, t <= u, h <= HasAt(c, since, cap, rate, t)
      PROVE  HasAt(h, t, cap, rate, u) <= HasAt(c, since, cap, rate, u)
  <2> DEFINE d == t - since
             e == u - t
  <2>1. d \in Nat /\ e \in Nat /\ d + e = u - since
    BY <1>5
  <2>2. Gain(rate, d) \in Nat /\ Gain(rate, e) \in Nat /\ Gain(rate, u - since) \in Nat
        /\ Gain(rate, d) + Gain(rate, e) <= Gain(rate, u - since)
    <3> HIDE DEF d, e
    <3>1. /\ Gain(rate, d) \in Nat /\ Gain(rate, e) \in Nat /\ Gain(rate, d + e) \in Nat
          /\ Gain(rate, d) + Gain(rate, e) <= Gain(rate, d + e)
      <4>1. d + e \in Nat
        BY <2>1
      <4> QED
        BY <2>1, <4>1, GainFacts
    <3> QED
      BY <2>1, <3>1
  <2>3. h <= c + Gain(rate, d) /\ h <= cap
    BY <1>5, <2>2 DEF HasAt, Lesser
  <2> QED
    BY <2>2, <2>3 DEF HasAt, Lesser
<1> QED
  BY <1>2, <1>3, <1>4, <1>5

\* The server's pool after a refill.
LEMMA RefillKeyHas ==
  ASSUME NEW st \in ServerKeyState, NEW a \in AlgorithmConfig, a.kind # "FixedWindow",
         NEW t \in Duration, st.last_update <= t, st.credits <= a.capacity
  PROVE  LET adv == RefillKey(st, a, t) IN
         /\ adv.credits = HasAt(st.credits, st.last_update, a.capacity, a.refill_per_sec, t)
         /\ adv.last_update = t
         /\ adv.blocked_until = st.blocked_until
         /\ adv \in ServerKeyState
<1> DEFINE cap == a.capacity
           rate == a.refill_per_sec
           gain == Gain(rate, t - st.last_update)
           added == Lesser(gain, U64Max)
           full == Lesser(SatAdd(st.credits, added, U64Max), cap)
<1>1. /\ cap \in Nat /\ rate \in Nat /\ cap <= U64Max /\ U64Max \in Nat
      /\ st.credits \in Nat /\ st.last_update \in Nat /\ t \in Nat
  BY AlgorithmKind, Widths DEF U64, ServerKeyState, Duration
<1>2. gain \in Nat
  <2>1. t - st.last_update \in Nat
    BY <1>1
  <2> QED
    BY <1>1, <2>1, GainFacts
<1>3. RefillKey(st, a, t) = IF t > st.last_update
                            THEN [st EXCEPT !.credits = full, !.last_update = t] ELSE st
  BY DEF RefillKey, Gain
<1>4. full = HasAt(st.credits, st.last_update, cap, rate, t)
  <2> HIDE DEF cap, rate, gain
  <2>1. full = Lesser(st.credits + gain, cap)
    BY <1>1, <1>2 DEF SatAdd, Lesser
  <2> QED
    BY <2>1 DEF HasAt, gain
<1>5. RefillKey(st, a, t) \in ServerKeyState
  BY AdvancedType DEF Advanced
<1>6. CASE t > st.last_update
  <2>1. RefillKey(st, a, t) = [st EXCEPT !.credits = full, !.last_update = t]
    BY <1>3, <1>6
  <2> HIDE DEF full
  <2> QED
    BY <1>4, <1>5, <2>1 DEF ServerKeyState
<1>7. CASE ~(t > st.last_update)
  <2>1. RefillKey(st, a, t) = st /\ st.last_update = t
    BY <1>1, <1>3, <1>7
  <2>2. HasAt(st.credits, t, cap, rate, t) = st.credits
    <3>1. st.credits <= cap
      OBVIOUS
    <3> HIDE DEF cap, rate
    <3> QED
      BY <1>1, <3>1, HasFacts
  <2> QED
    BY <1>5, <2>1, <2>2
<1> QED
  BY <1>6, <1>7

\* The limiter's pool, under limits no higher, gains no more.
LEMMA RefillHas ==
  ASSUME NEW s \in TokenBucketState, NEW cap \in U64, NEW rate \in U64,
         NEW c \in U64, NEW r \in U64, c <= cap, r <= rate,
         NEW t \in Duration, s.last_update <= t, s.credits <= cap
  PROVE  LET u == Refill(s, c, r, t) IN
         /\ u \in TokenBucketState
         /\ u.last_update = t
         /\ u.credits <= HasAt(s.credits, s.last_update, cap, rate, t)
         /\ s.last_update = t => u = s
<1> DEFINE u == Refill(s, c, r, t)
           d == t - s.last_update
           earned == IF r = 0 \/ c = 0 THEN 0 ELSE CreditsAdded(d, r)
           full == Lesser(SatAdd(s.credits, earned, U64Max), c)
<1>1. /\ cap \in Nat /\ rate \in Nat /\ c \in Nat /\ r \in Nat /\ U64Max \in Nat
      /\ s.credits \in Nat /\ s.last_update \in Nat /\ t \in Nat
  BY Widths DEF U64, TokenBucketState, Duration
<1>2. d \in Nat
  BY <1>1
<1>3. u \in TokenBucketState /\ u.last_update = t
  BY RefillEffect, RefillUntil
<1>4. u = IF t <= s.last_update THEN s ELSE [s EXCEPT !.last_update = t, !.credits = full]
  BY DEF Refill
<1>5. s.last_update = t => u = s
  BY <1>1, <1>4
<1>6. Gain(r, d) \in Nat /\ Gain(rate, d) \in Nat /\ Gain(r, d) <= Gain(rate, d)
  <2> HIDE DEF d
  <2> QED
    BY <1>1, <1>2, GainFacts
<1>7. earned \in Nat /\ earned <= Gain(rate, d)
  <2>1. CreditsAdded(d, r) \in Nat /\ CreditsAdded(d, r) <= Gain(r, d)
    <3>1. CreditsAdded(d, r) = Lesser(Gain(r, d), U64Max)
      BY DEF CreditsAdded, Gain
    <3> HIDE DEF d
    <3> QED
      BY <1>1, <1>6, <3>1 DEF Lesser
  <2> HIDE DEF d
  <2> QED
    BY <1>6, <2>1
<1> HIDE DEF earned
<1>8. full <= HasAt(s.credits, s.last_update, cap, rate, t)
  <2> DEFINE gain == Gain(rate, d)
  <2>1. HasAt(s.credits, s.last_update, cap, rate, t) = Lesser(s.credits + gain, cap)
    BY DEF HasAt
  <2>2. gain \in Nat /\ earned \in Nat /\ earned <= gain
    BY <1>6, <1>7
  <2> HIDE DEF gain
  <2> QED
    BY <1>1, <2>1, <2>2 DEF SatAdd, Lesser
<1>9. s.credits <= HasAt(s.credits, s.last_update, cap, rate, t)
  BY <1>1, HasFacts
<1>10. u.credits <= HasAt(s.credits, s.last_update, cap, rate, t)
  <2> HIDE DEF full, u, d
  <2>1. CASE t <= s.last_update
    BY <1>4, <1>9, <2>1
  <2>2. CASE ~(t <= s.last_update)
    <3>1. u.credits = full
      BY <1>4, <2>2 DEF TokenBucketState
    <3> QED
      BY <1>8, <3>1
  <2> QED
    BY <2>1, <2>2
<1> QED
  BY <1>3, <1>5, <1>10

(***************************************************************************)
(* The server's pool (cs credits since ls) is ahead of the limiter's (cl   *)
(* since ll): from now on it never has less, and now it has at least the   *)
(* limiter's credits and those of the permits issued at this instant.      *)
(***************************************************************************)
Ahead(cs, ls, cl, ll, prompt, cap, rate, t) ==
  /\ ls <= t /\ ll <= t /\ cs <= cap /\ cl <= cap
  /\ \A u \in Nat : t <= u => HasAt(cl, ll, cap, rate, u) <= HasAt(cs, ls, cap, rate, u)
  /\ prompt # 0 => ll = t /\ cl + prompt <= HasAt(cs, ls, cap, rate, t)

\* A full pool is ahead of every other.
LEMMA FullIsAhead ==
  ASSUME NEW cl \in Nat, NEW ll \in Nat, NEW prompt \in Nat, NEW cap \in Nat, NEW rate \in Nat,
         NEW t \in Nat, ll <= t, cl <= cap, prompt # 0 => ll = t /\ cl + prompt <= cap
  PROVE  Ahead(cap, t, cl, ll, prompt, cap, rate, t)
<1>1. ASSUME NEW u \in Nat, t <= u
      PROVE  HasAt(cl, ll, cap, rate, u) <= cap /\ HasAt(cap, t, cap, rate, u) = cap
  <2>1. ll <= u
    BY <1>1
  <2>2. HasAt(cl, ll, cap, rate, u) <= cap
    BY <2>1, HasFacts
  <2>3. /\ HasAt(cap, t, cap, rate, u) \in Nat /\ HasAt(cap, t, cap, rate, u) <= cap
        /\ cap <= HasAt(cap, t, cap, rate, u)
    BY <1>1, HasFacts
  <2> QED
    BY <2>2, <2>3
<1>2. HasAt(cap, t, cap, rate, t) = cap
  BY <1>1
<1>3. \A u \in Nat : t <= u => HasAt(cl, ll, cap, rate, u) <= HasAt(cap, t, cap, rate, u)
  BY <1>1
<1> QED
  BY <1>2, <1>3 DEF Ahead

\* With time, and with fewer permits of the instant, the server stays ahead.
LEMMA AheadLater ==
  ASSUME NEW cs \in Nat, NEW ls \in Nat, NEW cl \in Nat, NEW ll \in Nat, NEW prompt \in Nat,
         NEW cap \in Nat, NEW rate \in Nat, NEW t \in Nat,
         Ahead(cs, ls, cl, ll, prompt, cap, rate, t)
  PROVE  /\ \A u \in Nat : t <= u => Ahead(cs, ls, cl, ll, 0, cap, rate, u)
         /\ \A less \in Nat : less <= prompt => Ahead(cs, ls, cl, ll, less, cap, rate, t)
<1>1. ASSUME NEW u \in Nat, t <= u PROVE Ahead(cs, ls, cl, ll, 0, cap, rate, u)
  <2>1. ls <= u /\ ll <= u /\ \A v \in Nat : u <= v => t <= v
    BY <1>1 DEF Ahead
  <2> QED
    BY <2>1 DEF Ahead
<1>2. ASSUME NEW less \in Nat, less <= prompt
      PROVE  Ahead(cs, ls, cl, ll, less, cap, rate, t)
  <2>1. HasAt(cs, ls, cap, rate, t) \in Nat
    BY HasFacts DEF Ahead
  <2>2. ASSUME less # 0 PROVE ll = t /\ cl + less <= HasAt(cs, ls, cap, rate, t)
    <3>1. prompt # 0
      BY <1>2, <2>2
    <3>2. ll = t /\ cl + prompt <= HasAt(cs, ls, cap, rate, t)
      BY <3>1 DEF Ahead
    <3> QED
      BY <1>2, <2>1, <3>2
  <2> QED
    BY <2>2 DEF Ahead
<1> QED
  BY <1>1, <1>2

\* What the limiter has after a refill, or a draw for a permit of this instant,
\* or the return of one.
LEMMA AheadChanged ==
  ASSUME NEW cs \in Nat, NEW ls \in Nat, NEW cl \in Nat, NEW ll \in Nat, NEW prompt \in Nat,
         NEW cap \in Nat, NEW rate \in Nat, NEW t \in Nat,
         Ahead(cs, ls, cl, ll, prompt, cap, rate, t),
         NEW has \in Nat, NEW open \in Nat,
         \/ has + open <= HasAt(cl, ll, cap, rate, t) /\ prompt = 0
         \/ ll = t /\ has + open <= cl + prompt
  PROVE  Ahead(cs, ls, has, t, open, cap, rate, t)
<1> DEFINE most == HasAt(cs, ls, cap, rate, t)
           mine == HasAt(cl, ll, cap, rate, t)
<1>1. ls <= t /\ ll <= t /\ cs <= cap /\ cl <= cap /\ mine <= most
  BY DEF Ahead
<1>2. most \in Nat /\ mine \in Nat /\ most <= cap
  BY <1>1, HasFacts
<1>3. has + open <= most
  <2>1. CASE has + open <= mine
    <3> HIDE DEF most, mine
    <3> QED
      BY <1>1, <1>2, <2>1
  <2>2. CASE ll = t /\ has + open <= cl + prompt
    <3>1. CASE prompt = 0
      <4>1. HasAt(cl, t, cap, rate, t) = cl
        BY <1>1, HasFacts
      <4>2. mine = cl
        BY <2>2, <4>1
      <4> HIDE DEF most, mine
      <4> QED
        BY <1>1, <1>2, <2>2, <3>1, <4>2
    <3>2. CASE prompt # 0
      <4>1. cl + prompt <= most
        BY <3>2 DEF Ahead
      <4> HIDE DEF most, mine
      <4> QED
        BY <1>2, <2>2, <4>1
    <3> QED
      BY <3>1, <3>2
  <2> QED
    BY <2>1, <2>2
<1>4. has <= most /\ has <= cap
  <2> HIDE DEF most
  <2> QED
    BY <1>2, <1>3
<1>5. \A u \in Nat : t <= u => HasAt(has, t, cap, rate, u) <= HasAt(cs, ls, cap, rate, u)
  BY <1>1, <1>4, HasFacts
<1> QED
  BY <1>1, <1>3, <1>4, <1>5 DEF Ahead

\* The server has what a request of this instant asks, and stays ahead when it
\* draws it.
LEMMA AheadArrival ==
  ASSUME NEW cs \in Nat, NEW ls \in Nat, NEW cl \in Nat, NEW ll \in Nat, NEW prompt \in Nat,
         NEW cap \in Nat, NEW rate \in Nat, NEW t \in Nat,
         Ahead(cs, ls, cl, ll, prompt, cap, rate, t),
         NEW cost \in Nat, cost # 0, cost <= prompt
  PROVE  LET has == HasAt(cs, ls, cap, rate, t) IN
         /\ has \in Nat /\ has <= cap /\ cost <= has
         /\ Ahead(has - cost, t, cl, ll, prompt - cost, cap, rate, t)
<1> DEFINE has == HasAt(cs, ls, cap, rate, t)
           left == has - cost
           less == prompt - cost
<1>1. ls <= t /\ ll <= t /\ cs <= cap /\ cl <= cap
  BY DEF Ahead
<1>2. has \in Nat /\ has <= cap
  BY <1>1, HasFacts
<1>3. prompt # 0
  OBVIOUS
<1>4. ll = t /\ cl + prompt <= has
  BY <1>3 DEF Ahead
<1> HIDE DEF has
<1>5. left \in Nat /\ less \in Nat /\ left <= cap /\ cl + less <= left /\ cl <= left
      /\ cost <= has
  BY <1>2, <1>4
<1> HIDE DEF left, less
<1>6. HasAt(left, t, cap, rate, t) = left
  BY <1>5, HasFacts
<1>7. \A u \in Nat : t <= u => HasAt(cl, t, cap, rate, u) <= HasAt(left, t, cap, rate, u)
  BY <1>5, HasFacts
<1>8. Ahead(left, t, cl, ll, less, cap, rate, t)
  BY <1>1, <1>4, <1>5, <1>6, <1>7 DEF Ahead
<1> QED
  BY <1>2, <1>5, <1>8 DEF has, left, less

\* No call of the limiter gets its pool past the server's.
LEMMA ReserveStaysBehind ==
  ASSUME NEW s \in TokenBucketState, NEW cap \in U64, NEW rate \in U64,
         NEW c \in U64, NEW r \in U64, c <= cap, r <= rate,
         NEW cost \in Cost, NEW t \in Duration, NEW cs \in Nat, NEW ls \in Nat, NEW prompt \in Nat,
         Ahead(cs, ls, s.credits, s.last_update, prompt, cap, rate, t)
  PROVE  LET answer == TokenTryReserve(s, c, r, cost, t)
             more == IF answer.reason = "Granted" THEN cost ELSE 0
         IN  Ahead(cs, ls, answer.state.credits, answer.state.last_update, prompt + more,
                   cap, rate, t)
<1> DEFINE u == Refill(s, c, r, t)
           answer == TokenTryReserve(s, c, r, cost, t)
           mine == HasAt(s.credits, s.last_update, cap, rate, t)
           drawn == u.credits - cost
<1>1. /\ s.credits \in Nat /\ s.last_update \in Nat /\ cap \in Nat /\ rate \in Nat /\ t \in Nat
      /\ cost \in Nat /\ cost # 0 /\ s.last_update <= t /\ s.credits <= cap
  BY Widths DEF TokenBucketState, U64, Duration, Cost, Ahead
<1>2. /\ u \in TokenBucketState /\ u.last_update = t /\ u.credits <= mine
      /\ s.last_update = t => u = s
  BY <1>1, RefillHas
<1>3. u.credits \in Nat
  BY <1>2, Widths DEF TokenBucketState, U64
<1>4. prompt # 0 => s.last_update = t
  BY DEF Ahead
<1>5. \/ answer.reason # "Granted" /\ answer.state = s
      \/ answer.reason # "Granted" /\ answer.state = u
      \/ /\ answer.reason = "Granted" /\ u.credits >= cost
         /\ answer.state.credits = drawn /\ answer.state.last_update = t
  <2> DEFINE granted == [u EXCEPT !.credits = @ - cost, !.in_flight = SatAdd(@, cost, U64Max)]
  <2>1. \/ answer.reason # "Granted" /\ answer.state = s
        \/ answer.reason # "Granted" /\ answer.state = u
        \/ answer.reason = "Granted" /\ u.credits >= cost /\ answer.state = granted
    BY DEF TokenTryReserve
  <2>2. granted.credits = drawn /\ granted.last_update = t
    <3> HIDE DEF u
    <3> QED
      BY <1>2 DEF TokenBucketState
  <2> HIDE DEF answer, u, granted
  <2> QED
    BY <2>1, <2>2
<1>6. \A has \in Nat, open \in Nat :
        \/ has + open <= mine /\ prompt = 0
        \/ s.last_update = t /\ has + open <= s.credits + prompt
        => Ahead(cs, ls, has, t, open, cap, rate, t)
  BY <1>1, AheadChanged
<1> HIDE DEF u, mine
<1>7. Ahead(cs, ls, u.credits, t, prompt, cap, rate, t)
  <2>1. CASE prompt = 0
    BY <1>2, <1>3, <1>6, <2>1
  <2>2. CASE prompt # 0
    <3>1. s.last_update = t /\ u.credits = s.credits
      BY <1>2, <1>4, <2>2
    <3>2. u.credits + prompt <= s.credits + prompt
      BY <1>3, <3>1
    <3> QED
      BY <1>3, <1>6, <3>1, <3>2
  <2> QED
    BY <2>1, <2>2
<1>8. ASSUME u.credits >= cost PROVE Ahead(cs, ls, drawn, t, prompt + cost, cap, rate, t)
  <2> DEFINE open == prompt + cost
  <2>1. drawn \in Nat /\ open \in Nat /\ drawn + open = u.credits + prompt
    BY <1>1, <1>3, <1>8
  <2> HIDE DEF drawn, open
  <2>2. CASE prompt = 0
    <3>1. drawn + open <= mine
      BY <1>2, <1>3, <2>1, <2>2
    <3> QED
      BY <1>6, <2>1, <2>2, <3>1 DEF open
  <2>3. CASE prompt # 0
    <3>1. s.last_update = t /\ drawn + open = s.credits + prompt
      BY <1>2, <1>4, <2>1, <2>3
    <3>2. drawn + open <= s.credits + prompt
      BY <1>1, <3>1
    <3> QED
      BY <1>6, <2>1, <3>1, <3>2 DEF open
  <2> QED
    BY <2>2, <2>3
<1>9. Ahead(cs, ls, s.credits, s.last_update, prompt, cap, rate, t) /\ prompt + 0 = prompt
  OBVIOUS
<1> HIDE DEF answer, drawn
<1>10. CASE answer.reason # "Granted"
  <2>1. Ahead(cs, ls, answer.state.credits, answer.state.last_update, prompt, cap, rate, t)
    BY <1>2, <1>5, <1>7, <1>9, <1>10
  <2> QED
    BY <1>9, <1>10, <2>1 DEF answer
<1>11. CASE answer.reason = "Granted"
  BY <1>5, <1>8, <1>11 DEF answer
<1> QED
  BY <1>10, <1>11

\* A permit refunded in the instant it was issued gives back what the server
\* has for it; a commit gives back nothing.
LEMMA FinalizeStaysBehind ==
  ASSUME NEW s \in TokenBucketState, NEW a \in AlgorithmConfig, a.kind = "TokenBucket",
         NEW p, StillKnows(s, p, a),
         NEW t \in Duration, NEW cs \in Nat, NEW ls \in Nat, NEW prompt \in Nat,
         Ahead(cs, ls, s.credits, s.last_update, prompt, a.capacity, a.refill_per_sec, t)
  PROVE  LET committed == FinalizeState(s, p, TRUE, a, t)
             refunded == RefundState(s, p, a, t)
         IN  /\ committed.credits = s.credits /\ committed.last_update = s.last_update
             /\ p.cost <= prompt =>
                  Ahead(cs, ls, refunded.credits, refunded.last_update, prompt - p.cost,
                        a.capacity, a.refill_per_sec, t)
<1> DEFINE cap == a.capacity
           rate == a.refill_per_sec
           cost == p.cost
           sum == s.credits + cost
           left == prompt - cost
           refunded == TokenRefund(s, cap, cost, t, rate)
           committed == TokenCommit(s, cost)
<1>1. /\ cap \in U64 /\ rate \in U64 /\ cap \in Nat /\ rate \in Nat /\ cap <= U64Max
      /\ s.credits \in Nat /\ s.last_update \in Nat /\ t \in Nat /\ U64Max \in Nat
      /\ cost \in Nat /\ cost # 0
      /\ s.algo = "TokenBucket" /\ p.algo = "TokenBucket"
  BY AlgorithmKind, Widths DEF U64, TokenBucketState, Duration, Cost, StillKnows
<1>2. FinalizeState(s, p, TRUE, a, t) = committed /\ RefundState(s, p, a, t) = refunded
  BY <1>1 DEF FinalizeState, RefundState
<1>3. committed.credits = s.credits /\ committed.last_update = s.last_update
  BY DEF TokenCommit, TokenBucketState
<1>4. ASSUME cost <= prompt
      PROVE  Ahead(cs, ls, refunded.credits, refunded.last_update, left, cap, rate, t)
  <2>1. prompt # 0
    BY <1>1, <1>4
  <2>2. /\ ls <= t /\ s.last_update = t
        /\ s.credits + prompt <= HasAt(cs, ls, cap, rate, t)
    BY <2>1 DEF Ahead
  <2>3. HasAt(cs, ls, cap, rate, t) \in Nat /\ HasAt(cs, ls, cap, rate, t) <= cap
    BY <1>1, <2>2, HasFacts
  <2>4. sum \in Nat /\ sum <= cap /\ left \in Nat /\ sum + left = s.credits + prompt
    <3> DEFINE has == HasAt(cs, ls, cap, rate, t)
    <3>1. has \in Nat /\ has <= cap /\ s.credits + prompt <= has
      BY <2>2, <2>3
    <3> HIDE DEF has
    <3> QED
      BY <1>1, <1>4, <3>1
  <2>5. Refill(s, cap, rate, t) = s
    BY <1>1, <2>2 DEF Refill
  <2>6. sum % (U64Max + 1) = sum
    <3> HIDE DEF sum
    <3>1. sum <= U64Max
      BY <1>1, <2>4
    <3> QED
      BY <1>1, <2>4, <3>1
  <2>7. refunded.credits = sum /\ refunded.last_update = t
    <3>1. refunded.credits = Lesser(sum % (U64Max + 1), cap)
      BY <2>5 DEF TokenRefund, TokenBucketState
    <3>2. refunded.last_update = t
      BY <2>2, <2>5 DEF TokenRefund, TokenBucketState
    <3> HIDE DEF sum
    <3> QED
      BY <2>4, <2>6, <3>1, <3>2 DEF Lesser
  <2>8. sum + left <= s.credits + prompt
    BY <1>1, <2>4
  <2> HIDE DEF sum, left, refunded
  <2>9. Ahead(cs, ls, sum, t, left, cap, rate, t)
    BY <1>1, <2>2, <2>4, <2>8, AheadChanged
  <2> QED
    BY <2>7, <2>9
<1> QED
  BY <1>2, <1>3, <1>4

-----------------------------------------------------------------------------
(***************************************************************************)
(* Requests of this instant that may still reach the server.               *)
(***************************************************************************)
Fresh ==
  [c \in Callers |-> IF flights[c].stage \in {"attached", "travelling"}
                        /\ flights[c].issued_at = now
                     THEN permits[c] ELSE NoPermit]

Prompt(k) == Cardinality(UnitsOf(Fresh, k))

\* What c's request asks for, if it is one of them.
Asks(c) == Fresh[c].cost

LEMMA PromptTypes ==
  ASSUME CInv
  PROVE  Fresh \in PermitTable /\ \A k : Prompt(k) \in Nat
<1>1. permits \in PermitTable
  BY DEF CInv, IInv, TypeOK, PermitTable
<1> QED
  BY <1>1, UnitsFit DEF Fresh, Prompt, PermitTable

LEMMA PromptGrows ==
  ASSUME CInv, NEW c \in Callers, flights[c].stage = "none", NEW p \in Permit,
         Fresh' = [Fresh EXCEPT ![c] = p]
  PROVE  /\ Prompt(p.key)' = Prompt(p.key) + p.cost
         /\ \A k \in Keys : k # p.key => Prompt(k)' = Prompt(k)
<1> DEFINE before == Fresh
           after == Fresh'
<1>1. before \in PermitTable /\ before[c] = NoPermit /\ after = [before EXCEPT ![c] = p]
  BY PromptTypes DEF Fresh
<1>2. /\ \A k : Prompt(k) = Cardinality(UnitsOf(before, k))
      /\ \A k : Prompt(k)' = Cardinality(UnitsOf(after, k))
      /\ Prompt(p.key)' = Cardinality(UnitsOf(after, p.key))
  BY DEF Prompt
<1> HIDE DEF before, after
<1>3. /\ Cardinality(UnitsOf(after, p.key)) = Cardinality(UnitsOf(before, p.key)) + p.cost
      /\ \A k \in Keys : k # p.key => UnitsOf(after, k) = UnitsOf(before, k)
  BY <1>1, UnitsOfGrant
<1> QED
  BY <1>2, <1>3

LEMMA PromptShrinks ==
  ASSUME CInv, NEW c \in Callers, Fresh' = [Fresh EXCEPT ![c] = NoPermit]
  PROVE  /\ Asks(c) \in Nat /\ Asks(c) <= Prompt(KeyOf(c))
         /\ \A k \in Keys : Prompt(k)' = IF k = KeyOf(c) THEN Prompt(k) - Asks(c) ELSE Prompt(k)
<1>1. Fresh \in PermitTable /\ \A k : Prompt(k) \in Nat
  BY PromptTypes
<1>2. Fresh[c] = permits[c] \/ Fresh[c] = NoPermit
  BY DEF Fresh
<1> DEFINE before == Fresh
           after == Fresh'
<1>3. before \in PermitTable /\ after = [before EXCEPT ![c] = NoPermit]
  BY <1>1
<1>4. /\ \A k : Prompt(k) = Cardinality(UnitsOf(before, k))
      /\ \A k : Prompt(k)' = Cardinality(UnitsOf(after, k))
      /\ Asks(c) = before[c].cost
  BY DEF Prompt, Asks
<1>5. CASE Fresh[c] = NoPermit
  <2>1. after = before
    BY <1>3, <1>5 DEF PermitTable
  <2>2. Asks(c) = 0
    BY <1>5, NoPermitIsNone DEF Asks
  <2> QED
    BY <1>1, <1>4, <2>1, <2>2
<1>6. CASE Fresh[c] # NoPermit
  <2>1. before[c] # NoPermit /\ before[c].key = KeyOf(c)
    BY <1>2, <1>6 DEF KeyOf
  <2> HIDE DEF before, after
  <2>2. /\ before[c] \in Permit
        /\ before[c].cost <= Cardinality(UnitsOf(before, before[c].key))
        /\ Cardinality(UnitsOf(after, before[c].key))
             = Cardinality(UnitsOf(before, before[c].key)) - before[c].cost
        /\ \A k \in Keys : k # before[c].key => UnitsOf(after, k) = UnitsOf(before, k)
    BY <1>3, <2>1, UnitsOfFinalization
  <2>3. before[c].cost \in Nat
    BY <2>2, Widths DEF Permit, Cost
  <2> QED
    BY <1>4, <2>1, <2>2, <2>3
<1> QED
  BY <1>5, <1>6

-----------------------------------------------------------------------------
(***************************************************************************)
(* The server's pool is ahead in every state, unless something arrived     *)
(* late or older credits were returned.                                    *)
(***************************************************************************)
SharedPools == algo.kind # "FixedWindow" /\ SameLimits

KeyAhead(k) ==
  LET s == buckets[k].state
      st == ServerKeyAt(k)
  IN  /\ server[k] # NoServerKey => Tracked(k)
      /\ Tracked(k) /\ k \notin straggled \cup returned =>
           /\ st.blocked_until = 0
           /\ Ahead(st.credits, st.last_update, s.credits, s.last_update, Prompt(k),
                    cfg.algorithm.capacity, cfg.algorithm.refill_per_sec, now)

IssuedBefore == \A c \in Callers : flights[c].issued_at <= now

PoolInv == SharedPools => IssuedBefore /\ \A k \in Keys : KeyAhead(k)

LEMMA PoolTypes ==
  ASSUME CInv, SharedPools
  PROVE  LET cap == cfg.algorithm.capacity
             rate == cfg.algorithm.refill_per_sec
         IN  /\ algo = cfg.algorithm /\ algo \in AlgorithmConfig /\ algo.kind = "TokenBucket"
             /\ cap \in U64 /\ rate \in U64 /\ cap \in Nat /\ rate \in Nat
             /\ now \in Duration /\ now \in Nat
             /\ buckets \in [Keys -> Bucket \cup {NoBucket}]
             /\ server \in [Keys -> ServerKeyState \cup {NoServerKey}]
             /\ straggled \subseteq Keys /\ returned \subseteq Keys
             /\ \A k \in Keys : Prompt(k) \in Nat
BY ServerAlgoType, PromptTypes, Widths
DEF CInv, CTypeOK, IInv, TypeOK, SharedPools, SameLimits, U64, Duration

LEMMA PoolStateTypes ==
  ASSUME CInv, SharedPools, NEW k \in Keys
  PROVE  LET s == buckets[k].state
             st == ServerKeyAt(k)
         IN  /\ Tracked(k) => /\ s \in TokenBucketState
                              /\ s.credits \in Nat /\ s.last_update \in Nat
             /\ st \in ServerKeyState /\ st.credits \in Nat /\ st.last_update \in Nat
             /\ server[k] = NoServerKey =>
                  /\ st.credits = cfg.algorithm.capacity /\ st.last_update = now
                  /\ st.blocked_until = 0
             /\ server[k] # NoServerKey => st = server[k]
<1>1. ASSUME Tracked(k)
      PROVE  /\ buckets[k].state \in TokenBucketState
             /\ buckets[k].state.credits \in Nat /\ buckets[k].state.last_update \in Nat
  <2>1. buckets[k] \in Bucket
    BY <1>1, PoolTypes DEF Tracked
  <2>2. buckets[k].state \in BucketState
    BY <2>1 DEF Bucket, BucketState
  <2>3. buckets[k].state.algo = cfg.algorithm.kind
    BY <1>1, InvByKey DEF CInv, IInv, KeyOK
  <2>4. buckets[k].state \in TokenBucketState
    BY <2>2, <2>3, StateKind, PoolTypes
  <2> QED
    BY <2>4, Widths DEF TokenBucketState, U64, Duration
<1>2. ServerKeyAt(k) \in ServerKeyState
  BY PoolTypes, NewServerKeyType DEF ServerKeyAt
<1>3. ServerKeyAt(k).credits \in Nat /\ ServerKeyAt(k).last_update \in Nat
  BY <1>2, Widths DEF ServerKeyState, U64, Duration
<1>4. ASSUME server[k] = NoServerKey
      PROVE  /\ ServerKeyAt(k).credits = cfg.algorithm.capacity
             /\ ServerKeyAt(k).last_update = now /\ ServerKeyAt(k).blocked_until = 0
  <2>1. ServerKeyAt(k) = NewServerKey(algo, now)
    BY <1>4 DEF ServerKeyAt
  <2>2. algo.kind # "FixedWindow" /\ algo = cfg.algorithm
    BY PoolTypes
  <2> QED
    BY <2>1, <2>2 DEF NewServerKey
<1>5. server[k] # NoServerKey => ServerKeyAt(k) = server[k]
  BY DEF ServerKeyAt
<1> QED
  BY <1>1, <1>2, <1>3, <1>4, <1>5

\* A key no operation is about: at most requests of this instant are lost.
LEMMA KeyStaysAhead ==
  ASSUME CInv, SharedPools, NEW k \in Keys, KeyAhead(k),
         UNCHANGED <<cfg, algo, now>>, buckets'[k] = buckets[k], server'[k] = server[k],
         k \in straggled => k \in straggled', k \in returned => k \in returned',
         Prompt(k)' \in Nat, Prompt(k)' <= Prompt(k)
  PROVE  KeyAhead(k)'
<1> DEFINE s == buckets[k].state
           st == ServerKeyAt(k)
           prompt == Prompt(k)
           less == Prompt(k)'
           cap == cfg.algorithm.capacity
           rate == cfg.algorithm.refill_per_sec
<1>1. ServerKeyAt(k)' = ServerKeyAt(k) /\ Tracked(k)' = Tracked(k)
  BY DEF ServerKeyAt, Tracked
<1>2. ASSUME Tracked(k), k \notin straggled \cup returned
      PROVE  /\ st.blocked_until = 0
             /\ Ahead(st.credits, st.last_update, s.credits, s.last_update, less, cap, rate, now)
  <2>1. /\ st.blocked_until = 0
        /\ Ahead(st.credits, st.last_update, s.credits, s.last_update, prompt, cap, rate, now)
    BY <1>2 DEF KeyAhead
  <2>2. /\ s.credits \in Nat /\ s.last_update \in Nat /\ st.credits \in Nat
        /\ st.last_update \in Nat
    BY <1>2, PoolStateTypes
  <2>3. cap \in Nat /\ rate \in Nat /\ now \in Nat /\ prompt \in Nat /\ less \in Nat
        /\ less <= prompt
    BY PoolTypes
  <2> HIDE DEF s, st, prompt, less, cap, rate
  <2> QED
    BY <2>1, <2>2, <2>3, AheadLater
<1> QED
  BY <1>1, <1>2 DEF KeyAhead

LEMMA AcquireAhead ==
  ASSUME NeverEvicts, CInv, SharedPools, \A k \in Keys : KeyAhead(k),
         NEW c \in Callers, NEW route \in Keys, NEW cost \in Costs, NEW d \in Deadlines,
         Acquire(c, route, cost, d)
  PROVE  \A k \in Keys : KeyAhead(k)'
<1>1. /\ cost \in Cost /\ ~Holds(c) /\ flights[c].stage = "none"
      /\ UNCHANGED <<cfg, now, algo, server, heard, straggled, returned>>
      /\ \/ UNCHANGED <<buckets, permits, flights>>
         \/ \E key \in Keys : Acquires(c, key, cost)
  BY AcquireShape
<1>2. ASSUME NEW k \in Keys, buckets'[k] = buckets[k], Prompt(k)' = Prompt(k)
      PROVE  KeyAhead(k)'
  <2>1. Prompt(k)' \in Nat /\ Prompt(k)' <= Prompt(k)
    BY <1>2, PoolTypes
  <2> QED
    BY <1>1, <1>2, <2>1, KeyStaysAhead
<1>3. CASE UNCHANGED <<buckets, permits, flights>>
  <2>1. Fresh' = Fresh
    BY <1>1, <1>3 DEF Fresh
  <2> QED
    BY <1>2, <1>3, <2>1 DEF Prompt
<1>4. ASSUME NEW key \in Keys, Acquires(c, key, cost) PROVE \A k \in Keys : KeyAhead(k)'
  <2> DEFINE answer == AnswerAt(key, cost)
             b == BucketAt(key)
             cap == cfg.algorithm.capacity
             rate == cfg.algorithm.refill_per_sec
             ecap == EffectiveAlgorithm.capacity
             erate == EffectiveAlgorithm.refill_per_sec
             more == IF answer.reason = "Granted" THEN cost ELSE 0
             st == ServerKeyAt(key)
  <2>1. /\ b \in Bucket /\ b.state \in BucketState /\ b.state.algo = cfg.algorithm.kind
        /\ Tracked(key) => b = buckets[key]
        /\ ~Tracked(key) => b = NewBucket(now, cfg.algorithm)
        /\ answer.bucket \in Bucket /\ answer.bucket # NoBucket
        /\ EffectiveAlgorithm \in AlgorithmConfig
    BY <1>1, AnsweredBucket
  <2>2. b.state \in TokenBucketState
    BY <2>1, PoolTypes, StateKind
  <2>3. /\ EffectiveAlgorithm.kind = "TokenBucket"
        /\ ecap \in U64 /\ erate \in U64 /\ ecap <= cap /\ erate <= rate
    BY <2>1, PoolTypes, AlgorithmKind, EffectiveLowers DEF CInv, IInv, Lowers
  <2>4. \/ answer.reason # "Granted" /\ answer.bucket.state = b.state
        \/ LET of_state == TokenTryReserve(b.state, ecap, erate, cost, now) IN
           answer.reason = of_state.reason /\ answer.bucket.state = of_state.state
    <3>1. StateTryReserve(b.state, EffectiveAlgorithm, cost, now)
            = TokenTryReserve(b.state, ecap, erate, cost, now)
      BY <2>2, <2>3 DEF StateTryReserve, TokenBucketState
    <3> HIDE DEF answer, b
    <3> QED
      BY <1>1, <3>1, AnsweredBucket DEF answer, b
  <2>5. ASSUME key \notin straggled \cup returned
        PROVE  /\ st.blocked_until = 0
               /\ Ahead(st.credits, st.last_update, b.state.credits, b.state.last_update,
                        Prompt(key), cap, rate, now)
    <3>1. CASE Tracked(key)
      BY <2>1, <2>5, <3>1 DEF KeyAhead
    <3>2. CASE ~Tracked(key)
      <4>1. server[key] = NoServerKey
        BY <3>2 DEF KeyAhead
      <4>2. st.credits = cap /\ st.last_update = now /\ st.blocked_until = 0
        BY <4>1, PoolStateTypes
      <4>3. \A e \in Callers : permits[e].key # key
        BY <3>2, InvByKey DEF CInv, IInv, KeyOK
      <4>4. \A e \in Callers : Fresh[e].key # key
        BY <4>3, NoPermitIsNone DEF Fresh
      <4>5. Prompt(key) = 0
        BY <4>4, NoPermitNoUnits DEF Prompt
      <4>6. b.state = NewTokenBucket(now, cap)
        BY <2>1, <3>2, PoolTypes DEF NewBucket, NewState
      <4>7. b.state.credits = cap /\ b.state.last_update = now
        BY <4>6 DEF NewTokenBucket
      <4>8. cap \in Nat /\ rate \in Nat /\ now \in Nat /\ now <= now /\ cap <= cap
        BY PoolTypes
      <4> HIDE DEF cap, rate, st, b
      <4>9. Ahead(cap, now, cap, now, 0, cap, rate, now)
        BY <4>8, FullIsAhead
      <4> QED
        BY <4>2, <4>5, <4>7, <4>9
    <3> QED
      BY <3>1, <3>2
  <2>6. ASSUME key \notin straggled \cup returned
        PROVE  Ahead(st.credits, st.last_update, answer.bucket.state.credits,
                     answer.bucket.state.last_update, Prompt(key) + more, cap, rate, now)
    <3> DEFINE s == b.state
               prompt == Prompt(key)
               after == answer.bucket.state
               reserved == TokenTryReserve(s, ecap, erate, cost, now)
               granted == IF reserved.reason = "Granted" THEN cost ELSE 0
    <3>1. /\ s \in TokenBucketState /\ cap \in U64 /\ rate \in U64 /\ now \in Duration
          /\ ecap \in U64 /\ erate \in U64 /\ ecap <= cap /\ erate <= rate
          /\ cost \in Cost /\ prompt \in Nat /\ prompt + 0 = prompt
          /\ st.credits \in Nat /\ st.last_update \in Nat
      BY <1>1, <2>2, <2>3, PoolTypes, PoolStateTypes
    <3>2. Ahead(st.credits, st.last_update, s.credits, s.last_update, prompt, cap, rate, now)
      BY <2>5, <2>6
    <3>3. \/ answer.reason # "Granted" /\ after = s
          \/ answer.reason = reserved.reason /\ after = reserved.state
      BY <2>4
    <3> HIDE DEF s, prompt, st, cap, rate, ecap, erate
    <3>4. Ahead(st.credits, st.last_update, reserved.state.credits, reserved.state.last_update,
                prompt + granted, cap, rate, now)
      BY <3>1, <3>2, ReserveStaysBehind
    <3> HIDE DEF after, reserved, answer
    <3>5. CASE answer.reason # "Granted" /\ after = s
      <4>1. Ahead(st.credits, st.last_update, after.credits, after.last_update, prompt + more,
                  cap, rate, now)
        BY <3>1, <3>2, <3>5
      <4> QED
        BY <4>1 DEF after, prompt
    <3>6. CASE answer.reason = reserved.reason /\ after = reserved.state
      <4>1. more = granted
        BY <3>6
      <4>2. Ahead(st.credits, st.last_update, after.credits, after.last_update, prompt + more,
                  cap, rate, now)
        BY <3>4, <3>6, <4>1
      <4> QED
        BY <4>2 DEF after, prompt
    <3> QED
      BY <3>3, <3>5, <3>6
  <2>7. buckets'[key] = answer.bucket /\ \A k \in Keys : k # key => buckets'[k] = buckets[k]
    BY <1>4, PoolTypes DEF Acquires
  <2>8. Prompt(key)' = Prompt(key) + more /\ \A k \in Keys : k # key => Prompt(k)' = Prompt(k)
    <3>1. CASE answer.reason # "Granted"
      <4>1. UNCHANGED <<permits, flights>>
        BY <1>4, <3>1 DEF Acquires
      <4>2. Fresh' = Fresh
        BY <1>1, <4>1 DEF Fresh
      <4>3. Prompt(key) \in Nat
        BY PoolTypes
      <4> QED
        BY <3>1, <4>2, <4>3 DEF Prompt
    <3>2. CASE answer.reason = "Granted"
      <4> DEFINE p == PermitFor(key, cost, answer.bucket.state)
      <4>1. p \in Permit /\ p.key = key /\ p.cost = cost
        <5>1. answer.bucket.state \in BucketState
          BY <2>1 DEF Bucket, BucketState
        <5> HIDE DEF answer
        <5> QED
          BY <1>1, <5>1, StateKind, Widths
          DEF PermitFor, Permit, BucketState, FixedWindowState, TokenBucketState, Duration
      <4>2. /\ permits' = [permits EXCEPT ![c] = p]
            /\ \E dl \in Duration :
                 flights' = [flights EXCEPT ![c] =
                              [NoFlight EXCEPT !.stage = "attached", !.deadline = dl,
                                               !.issued_at = now, !.known_block = heard[key]]]
        BY <1>4, <3>2 DEF Acquires
      <4> HIDE DEF p
      <4>3. /\ flights'[c].stage = "attached" /\ flights'[c].issued_at = now
            /\ permits'[c] = p
            /\ \A e \in Callers : e # c => flights'[e] = flights[e] /\ permits'[e] = permits[e]
        BY <4>2 DEF CInv, CTypeOK, IInv, TypeOK, NoFlight
      <4>4. Fresh' = [Fresh EXCEPT ![c] = p]
        BY <1>1, <4>3 DEF Fresh
      <4> QED
        BY <1>1, <3>2, <4>1, <4>4, PromptGrows
    <3> QED
      BY <3>1, <3>2
  <2>9. ServerKeyAt(key)' = st
    BY <1>1 DEF ServerKeyAt
  <2> HIDE DEF answer, b, more, st
  <2>10. KeyAhead(key)'
    BY <1>1, <2>1, <2>5, <2>6, <2>7, <2>8, <2>9 DEF KeyAhead, Tracked
  <2>11. \A k \in Keys : k # key => KeyAhead(k)'
    BY <1>2, <2>7, <2>8
  <2> QED
    BY <2>10, <2>11
<1> QED
  BY <1>1, <1>3, <1>4

\* A request of this instant is accepted and leaves the server ahead.
LEMMA PromptAccepted ==
  ASSUME NEW st \in ServerKeyState, NEW a \in AlgorithmConfig, a.kind = "TokenBucket",
         NEW t \in Duration, NEW cl \in Nat, NEW ll \in Nat, NEW prompt \in Nat,
         st.blocked_until = 0,
         Ahead(st.credits, st.last_update, cl, ll, prompt, a.capacity, a.refill_per_sec, t),
         NEW cost \in Cost, cost <= prompt
  PROVE  LET decision == Decide(st, a, cost, t)
             after == ApplyOutcome(st, a, cost, decision, t)
         IN  /\ decision.ok
             /\ after.blocked_until = 0
             /\ Ahead(after.credits, after.last_update, cl, ll, prompt - cost,
                      a.capacity, a.refill_per_sec, t)
<1> DEFINE cap == a.capacity
           rate == a.refill_per_sec
           adv == RefillKey(st, a, t)
           decision == Decide(st, a, cost, t)
           after == ApplyOutcome(st, a, cost, decision, t)
           has == HasAt(st.credits, st.last_update, cap, rate, t)
           less == prompt - cost
<1>1. /\ cap \in Nat /\ rate \in Nat /\ t \in Nat /\ cost \in Nat /\ cost # 0
      /\ st.credits \in Nat /\ st.last_update \in Nat
  BY AlgorithmKind, Widths DEF U64, Duration, Cost, ServerKeyState
<1>2. st.last_update <= t /\ st.credits <= cap
  BY DEF Ahead
<1>3. adv.credits = has /\ adv.last_update = t /\ adv.blocked_until = 0 /\ adv \in ServerKeyState
  BY <1>2, RefillKeyHas
<1>4. /\ has \in Nat /\ has <= cap /\ cost <= has
      /\ Ahead(has - cost, t, cl, ll, less, cap, rate, t)
  BY <1>1, AheadArrival
<1>5. Advanced(st, a, t) = adv
  BY DEF Advanced
<1> HIDE DEF has, adv, cap, rate, less
<1>6. decision = Accepted
  <2>1. ~(t < st.blocked_until)
    BY <1>1
  <2>2. decision = PoolDecision(adv, a, cost)
    BY <1>5, <2>1 DEF Decide
  <2>3. ~(cost > a.capacity)
    BY <1>1, <1>4 DEF cap
  <2>4. adv.credits >= cost
    BY <1>1, <1>3, <1>4
  <2> HIDE DEF decision
  <2> QED
    BY <2>2, <2>3, <2>4 DEF PoolDecision
<1>7. after = [adv EXCEPT !.credits = SatSub(@, cost)]
  <2>1. decision.ok = TRUE
    BY <1>6 DEF Accepted
  <2> HIDE DEF decision
  <2> QED
    BY <1>5, <2>1 DEF ApplyOutcome
<1>8. after.credits = has - cost /\ after.last_update = t /\ after.blocked_until = 0
  <2>1. SatSub(has, cost) = has - cost
    BY <1>1, <1>4 DEF SatSub
  <2> HIDE DEF after
  <2> QED
    BY <1>3, <1>7, <2>1 DEF ServerKeyState
<1>9. decision.ok
  BY <1>6 DEF Accepted
<1> HIDE DEF after, decision
<1>10. Ahead(after.credits, after.last_update, cl, ll, less, cap, rate, t)
  BY <1>4, <1>8
<1> QED
  BY <1>8, <1>9, <1>10 DEF after, decision, less, cap, rate

\* Whoever is turned away was late, or follows one who was, or follows a return
\* of older credits.
LEMMA ArriveAhead ==
  ASSUME CInv, SharedPools, \A k \in Keys : KeyAhead(k), NEW c \in Callers, Arrive(c)
  PROVE  /\ \A k \in Keys : KeyAhead(k)'
         /\ ~VerdictOn(c).ok => KeyOf(c) \in straggled' \cup returned
<1>0. flights[c].stage = "travelling" /\ KeyOf(c) \in Keys
  BY InFlightPermit DEF Arrive
<1> SUFFICES ASSUME NEW key \in Keys, key = KeyOf(c)
             PROVE  /\ \A k \in Keys : KeyAhead(k)'
                    /\ ~VerdictOn(c).ok => key \in straggled' \cup returned
  BY <1>0
<1> DEFINE cap == cfg.algorithm.capacity
           rate == cfg.algorithm.refill_per_sec
           s == buckets[key].state
           st0 == ServerKeyAt(key)
           st == StateAfter(c)
           cost == permits[c].cost
           prompt == Prompt(key)
           decision == VerdictOn(c)
<1>1. /\ Tracked(key) /\ cost \in Cost /\ st \in ServerKeyState
  BY <1>0, InFlightPermit, ArrivalTypes
<1>2. UNCHANGED <<cfg, algo, now, buckets, permits, returned>>
      /\ server' = [server EXCEPT ![key] = st]
  BY DEF Arrive, vars, StateAfter, VerdictOn, KeyOf
<1>3. st = ApplyOutcome(st0, algo, cost, decision, now) /\ decision = Decide(st0, algo, cost, now)
  BY DEF StateAfter, VerdictOn
<1>4. /\ flights'[c].stage = "answering"
      /\ \A e \in Callers : e # c => flights'[e] = flights[e]
  BY DEF Arrive, CInv, CTypeOK, Flight
<1>5. Fresh' = [Fresh EXCEPT ![c] = NoPermit]
  BY <1>2, <1>4 DEF Fresh
<1>6. /\ Asks(c) \in Nat /\ Asks(c) <= prompt
      /\ \A k \in Keys : Prompt(k)' = IF k = key THEN prompt - Asks(c) ELSE Prompt(k)
  BY <1>5, PromptShrinks
<1>7. /\ key \in straggled => key \in straggled'
      /\ flights[c].issued_at # now => key \in straggled'
      /\ \A k \in Keys : k # key => (k \in straggled' <=> k \in straggled)
  <2>1. algo.kind # "FixedWindow"
    BY DEF SharedPools
  <2>2. straggled' = IF IsLate(c, st) \/ StillStraggled(key, st)
                     THEN straggled \cup {key} ELSE straggled \ {key}
    BY DEF Arrive, StateAfter, VerdictOn, KeyOf
  <2> HIDE DEF st
  <2>3. /\ IsLate(c, st) <=> flights[c].issued_at # now
        /\ StillStraggled(key, st) <=> key \in straggled
    BY <2>1 DEF IsLate, StillStraggled
  <2> QED
    BY <2>2, <2>3
<1>8. server'[key] = st /\ st # NoServerKey
  BY <1>1, <1>2, PoolTypes, NoServerKeyIsNone
<1>9. ServerKeyAt(key)' = st
  <2> HIDE DEF st
  <2>1. server'[key] = st /\ server'[key] # NoServerKey
    BY <1>8
  <2> QED
    BY <2>1 DEF ServerKeyAt
<1>10. ASSUME flights[c].issued_at = now, key \notin straggled \cup returned
       PROVE  /\ decision.ok
              /\ st.blocked_until = 0
              /\ Ahead(st.credits, st.last_update, s.credits, s.last_update, prompt - Asks(c),
                       cap, rate, now)
  <2>1. Asks(c) = cost
    BY <1>0, <1>10 DEF Asks, Fresh
  <2>2. /\ st0.blocked_until = 0
        /\ Ahead(st0.credits, st0.last_update, s.credits, s.last_update, prompt, cap, rate, now)
    BY <1>1, <1>10 DEF KeyAhead
  <2>3. /\ st0 \in ServerKeyState /\ s.credits \in Nat /\ s.last_update \in Nat
        /\ prompt \in Nat
        /\ algo \in AlgorithmConfig /\ algo.kind = "TokenBucket" /\ now \in Duration
        /\ algo.capacity = cap /\ algo.refill_per_sec = rate
    BY <1>1, PoolTypes, PoolStateTypes
  <2>4. cost <= prompt
    BY <1>6, <2>1
  <2> HIDE DEF st0, st, cost, prompt, s, decision, cap, rate
  <2>5. /\ decision.ok
        /\ st.blocked_until = 0
        /\ Ahead(st.credits, st.last_update, s.credits, s.last_update, prompt - cost,
                 cap, rate, now)
    BY <1>1, <1>3, <2>2, <2>3, <2>4, PromptAccepted
  <2> QED
    BY <2>1, <2>5
<1>11. ~decision.ok => key \in straggled' \cup returned
  BY <1>7, <1>10
<1>12. KeyAhead(key)'
  <2> HIDE DEF st
  <2>1. Tracked(key)' /\ Prompt(key)' = prompt - Asks(c)
    BY <1>1, <1>2, <1>6 DEF Tracked
  <2>2. key \notin straggled' \cup returned' =>
          flights[c].issued_at = now /\ key \notin straggled \cup returned
    BY <1>2, <1>7
  <2> QED
    BY <1>2, <1>9, <1>10, <2>1, <2>2 DEF KeyAhead
<1>13. ASSUME NEW k \in Keys, k # key PROVE KeyAhead(k)'
  <2>1. buckets'[k] = buckets[k] /\ server'[k] = server[k]
    BY <1>2, <1>13, PoolTypes
  <2>2. Prompt(k)' \in Nat /\ Prompt(k)' <= Prompt(k)
    BY <1>6, <1>13, PoolTypes
  <2> QED
    BY <1>2, <1>7, <1>13, <2>1, <2>2, KeyStaysAhead
<1> QED
  BY <1>11, <1>12, <1>13

LEMMA MoveAhead ==
  ASSUME CInv, SharedPools, \A k \in Keys : KeyAhead(k), NEW c \in Callers, FlightMoves(c)
  PROVE  \A k \in Keys : KeyAhead(k)'
<1>1. ASSUME Transmit(c) \/ Lose(c), NEW k \in Keys PROVE KeyAhead(k)'
  <2>1. UNCHANGED <<cfg, algo, now, buckets, permits, server, straggled, returned>>
    BY <1>1 DEF Transmit, Lose, Moves, vars, history
  <2>2. Fresh' = Fresh \/ Fresh' = [Fresh EXCEPT ![c] = NoPermit]
    <3>1. flights \in [Callers -> Flight]
      BY DEF CInv, CTypeOK
    <3>2. CASE Transmit(c)
      BY <2>1, <3>1, <3>2 DEF Fresh, Transmit, Moves, Flight
    <3>3. CASE Moves(c, "travelling", "lost")
      BY <2>1, <3>1, <3>3 DEF Fresh, Moves, Flight
    <3>4. CASE Moves(c, "answering", "lost")
      BY <2>1, <3>1, <3>4 DEF Fresh, Moves, Flight
    <3> QED
      BY <1>1, <3>2, <3>3, <3>4 DEF Lose
  <2>3. Prompt(k)' \in Nat /\ Prompt(k)' <= Prompt(k)
    <3>1. Prompt(k) \in Nat
      BY PoolTypes
    <3>2. CASE Fresh' = Fresh
      BY <3>1, <3>2 DEF Prompt
    <3>3. CASE Fresh' = [Fresh EXCEPT ![c] = NoPermit]
      <4>1. /\ Asks(c) \in Nat /\ Asks(c) <= Prompt(KeyOf(c))
            /\ Prompt(k)' = IF k = KeyOf(c) THEN Prompt(k) - Asks(c) ELSE Prompt(k)
        BY <3>3, PromptShrinks
      <4>2. CASE k = KeyOf(c)
        <5>1. Prompt(k)' = Prompt(k) - Asks(c) /\ Asks(c) <= Prompt(k)
          BY <4>1, <4>2
        <5> QED
          BY <3>1, <4>1, <5>1
      <4>3. CASE k # KeyOf(c)
        BY <3>1, <4>1, <4>3
      <4> QED
        BY <4>2, <4>3
    <3> QED
      BY <2>2, <3>2, <3>3
  <2> QED
    BY <2>1, <2>3, KeyStaysAhead
<1> QED
  BY <1>1, ArriveAhead DEF FlightMoves

LEMMA EndAhead ==
  ASSUME CInv, SharedPools, IssuedBefore, \A k \in Keys : KeyAhead(k),
         NEW c \in Callers, FlightEnds(c), FailToSend(c) \/ Answer(c) \/ Expire(c)
  PROVE  \A k \in Keys : KeyAhead(k)'
<1>0. flights[c].stage # "none" /\ KeyOf(c) \in Keys
  BY InFlightPermit DEF FlightEnds
<1> SUFFICES ASSUME NEW key \in Keys, key = KeyOf(c) PROVE \A k \in Keys : KeyAhead(k)'
  BY <1>0
<1> DEFINE a == cfg.algorithm
           s == buckets[key].state
           p == permits[c]
           st == ServerKeyAt(key)
           prompt == Prompt(key)
           less == prompt - Asks(c)
           committed == FinalizeState(s, p, TRUE, a, now)
           refunded == RefundState(s, p, a, now)
<1>1. /\ UNCHANGED <<cfg, now, algo, server, straggled>>
      /\ permits' = [permits EXCEPT ![c] = NoPermit]
      /\ flights' = [flights EXCEPT ![c] = NoFlight]
      /\ Refunds(c) \/ \E until \in Duration : Commits(c, until)
  BY EndShape
<1>2. Fresh' = [Fresh EXCEPT ![c] = NoPermit]
  BY <1>1 DEF Fresh, CInv, CTypeOK, IInv, TypeOK, NoFlight
<1>3. /\ Asks(c) \in Nat /\ Asks(c) <= prompt
      /\ \A k \in Keys : Prompt(k)' = IF k = key THEN less ELSE Prompt(k)
  BY <1>2, PromptShrinks
<1>4. Tracked(key) /\ StillKnows(s, p, a)
  BY <1>0, InFlightPermit, HeldBucketKnows DEF CInv, KeyOf
<1>5. /\ a \in AlgorithmConfig /\ a.kind = "TokenBucket" /\ now \in Duration
      /\ s \in TokenBucketState /\ s.credits \in Nat /\ s.last_update \in Nat
      /\ st.credits \in Nat /\ st.last_update \in Nat /\ prompt \in Nat
      /\ now \in Nat /\ a.capacity \in Nat /\ a.refill_per_sec \in Nat
  BY <1>4, PoolTypes, PoolStateTypes
<1>6. less \in Nat /\ less <= prompt
  <2> HIDE DEF prompt
  <2> QED
    BY <1>3, <1>5
<1>7. ServerKeyAt(key)' = st
  BY <1>1 DEF ServerKeyAt
<1>8. ASSUME key \notin straggled \cup returned
      PROVE  /\ st.blocked_until = 0
             /\ Ahead(st.credits, st.last_update, s.credits, s.last_update, prompt,
                      a.capacity, a.refill_per_sec, now)
  BY <1>4, <1>8 DEF KeyAhead
<1>9. ASSUME key \notin straggled \cup returned
      PROVE  /\ Ahead(st.credits, st.last_update, committed.credits, committed.last_update, less,
                      a.capacity, a.refill_per_sec, now)
             /\ p.cost = Asks(c) =>
                  Ahead(st.credits, st.last_update, refunded.credits, refunded.last_update, less,
                        a.capacity, a.refill_per_sec, now)
  <2> DEFINE asks == Asks(c)
  <2>1. /\ Ahead(st.credits, st.last_update, s.credits, s.last_update, prompt,
                 a.capacity, a.refill_per_sec, now)
        /\ asks <= prompt /\ StillKnows(s, p, a)
    BY <1>3, <1>4, <1>8, <1>9
  <2> HIDE DEF a, s, p, st, prompt, less, asks
  <2>2. /\ committed.credits = s.credits /\ committed.last_update = s.last_update
        /\ p.cost <= prompt =>
             Ahead(st.credits, st.last_update, refunded.credits, refunded.last_update,
                   prompt - p.cost, a.capacity, a.refill_per_sec, now)
    BY <1>5, <2>1, FinalizeStaysBehind
  <2> HIDE DEF committed, refunded
  <2>3. Ahead(st.credits, st.last_update, s.credits, s.last_update, less,
              a.capacity, a.refill_per_sec, now)
    BY <1>5, <1>6, <2>1, AheadLater
  <2>4. ASSUME p.cost = asks
        PROVE  Ahead(st.credits, st.last_update, refunded.credits, refunded.last_update, less,
                     a.capacity, a.refill_per_sec, now)
    <3>1. p.cost <= prompt /\ prompt - p.cost = less
      BY <2>1, <2>4 DEF less, asks
    <3> QED
      BY <2>2, <3>1
  <2> QED
    BY <2>2, <2>3, <2>4 DEF asks
<1> HIDE DEF committed, refunded, less, prompt, st
<1>10. ASSUME NEW after \in Bucket, buckets' = [buckets EXCEPT ![key] = after],
              \/ after.state = committed
              \/ after.state = refunded /\ (key \notin returned' => p.cost = Asks(c)),
              \A k \in Keys : k # key => (k \in returned' <=> k \in returned),
              key \in returned => key \in returned'
       PROVE  \A k \in Keys : KeyAhead(k)'
  <2>1. buckets'[key] = after /\ after # NoBucket
    BY <1>10, NoBucketIsNone, PoolTypes
  <2>2. ASSUME key \notin straggled \cup returned'
        PROVE  /\ st.blocked_until = 0
               /\ Ahead(st.credits, st.last_update, after.state.credits,
                        after.state.last_update, less, a.capacity, a.refill_per_sec, now)
    BY <1>8, <1>9, <1>10, <2>2
  <2>3. Prompt(key)' = less /\ Tracked(key)'
    BY <1>3, <2>1 DEF Tracked
  <2>4. KeyAhead(key)'
    BY <1>1, <1>7, <2>1, <2>2, <2>3 DEF KeyAhead
  <2>5. ASSUME NEW k \in Keys, k # key PROVE KeyAhead(k)'
    <3>1. buckets'[k] = buckets[k]
      BY <1>10, <2>5, PoolTypes
    <3>2. Prompt(k)' \in Nat /\ Prompt(k)' <= Prompt(k)
      BY <1>3, <2>5, PoolTypes
    <3> QED
      BY <1>1, <1>10, <2>5, <3>1, <3>2, KeyStaysAhead
  <2> QED
    BY <2>4, <2>5
<1>11. CASE Refunds(c)
  <2> DEFINE after == BucketRefund(buckets[key], p, a, now)
  <2>1. after \in Bucket /\ after.state = refunded
    <3>1. 0 \in Duration
      BY Widths DEF Duration
    <3> QED
      BY <1>0, <3>1, EndedBucket DEF refunded
  <2>2. buckets' = [buckets EXCEPT ![key] = after] /\ flights[c].stage = "attached"
    BY <1>11 DEF Refunds
  <2>3. returned' = IF flights[c].issued_at < now THEN returned \cup {key} ELSE returned
    <3>1. algo.kind = "TokenBucket"
      BY PoolTypes
    <3> QED
      BY <1>11, <3>1 DEF Refunds, NoteRefund, KeyOf
  <2>4. key \notin returned' => p.cost = Asks(c)
    <3>1. flights[c].issued_at <= now /\ flights[c].issued_at \in Nat
      BY Widths DEF IssuedBefore, CInv, CTypeOK, Flight, Duration
    <3>2. ~(flights[c].issued_at < now) => flights[c].issued_at = now
      BY <1>5, <3>1
    <3>3. flights[c].issued_at = now => p.cost = Asks(c)
      BY <2>2 DEF Asks, Fresh
    <3> QED
      BY <2>3, <3>2, <3>3
  <2> HIDE DEF after
  <2> QED
    BY <1>10, <2>1, <2>2, <2>3, <2>4
<1>12. ASSUME NEW until \in Duration, Commits(c, until) PROVE \A k \in Keys : KeyAhead(k)'
  <2> DEFINE after == BucketCommit(buckets[key], p, TRUE, until, a, now)
  <2>1. after \in Bucket /\ after.state = committed
    BY <1>0, EndedBucket DEF committed
  <2>2. buckets' = [buckets EXCEPT ![key] = after] /\ returned' = returned
    BY <1>12 DEF Commits
  <2> HIDE DEF after
  <2> QED
    BY <1>10, <2>1, <2>2
<1> QED
  BY <1>1, <1>11, <1>12

\* Time passes: no request is of this instant any more.
LEMMA TickAhead ==
  ASSUME CInv, CInv', SharedPools, IssuedBefore, \A k \in Keys : KeyAhead(k), CTick
  PROVE  \A k \in Keys : KeyAhead(k)'
<1>1. UNCHANGED <<cfg, algo, buckets, server, permits, flights, straggled, returned>>
  BY DEF CTick, Tick, history
<1>2. now \in Nat /\ now' \in Nat /\ now < now'
  <2>1. now \in Nat /\ MaxTime \in Nat
    BY PoolTypes, LimiterAssumption, Widths DEF LimiterAssumption, Duration
  <2>2. now' \in (now + 1)..MaxTime
    BY DEF CTick, Tick
  <2> QED
    BY <2>1, <2>2
<1> SUFFICES ASSUME NEW k \in Keys PROVE KeyAhead(k)'
  OBVIOUS
<1> DEFINE cap == cfg.algorithm.capacity
           rate == cfg.algorithm.refill_per_sec
           s == buckets[k].state
           st == ServerKeyAt(k)
           later == now'
<1>3. Prompt(k)' = 0
  <2>1. \A c \in Callers : flights[c].issued_at # now'
    <3>1. \A c \in Callers : flights[c].issued_at \in Nat /\ flights[c].issued_at <= now
      BY Widths DEF IssuedBefore, CInv, CTypeOK, Flight, Duration
    <3> QED
      BY <1>2, <3>1
  <2>2. \A c \in Callers : Fresh'[c].key # k
    BY <1>1, <2>1, NoPermitIsNone DEF Fresh
  <2> DEFINE after == Fresh'
  <2>3. Prompt(k)' = Cardinality(UnitsOf(after, k)) /\ \A c \in Callers : after[c].key # k
    BY <2>2 DEF Prompt
  <2> HIDE DEF after
  <2> QED
    BY <2>3, NoPermitNoUnits
<1>4. Tracked(k)' = Tracked(k)
  BY <1>1 DEF Tracked
<1>5. cap \in Nat /\ rate \in Nat /\ later \in Nat /\ now <= later /\ Prompt(k) \in Nat
  BY <1>2, PoolTypes
<1>6. ASSUME Tracked(k), k \notin straggled \cup returned
      PROVE  LET after == ServerKeyAt(k)' IN
             /\ after.blocked_until = 0
             /\ Ahead(after.credits, after.last_update, s.credits, s.last_update, 0,
                      cap, rate, later)
  <2>1. /\ st.blocked_until = 0
        /\ Ahead(st.credits, st.last_update, s.credits, s.last_update, Prompt(k), cap, rate, now)
    BY <1>6 DEF KeyAhead
  <2>2. /\ s.credits \in Nat /\ s.last_update \in Nat
        /\ st.credits \in Nat /\ st.last_update \in Nat
    BY <1>6, PoolStateTypes
  <2>3. CASE server[k] # NoServerKey
    <3>1. ServerKeyAt(k)' = st
      BY <1>1, <2>3 DEF ServerKeyAt
    <3> HIDE DEF cap, rate, s, st, later
    <3>2. Ahead(st.credits, st.last_update, s.credits, s.last_update, 0, cap, rate, later)
      BY <1>2, <1>5, <2>1, <2>2, AheadLater
    <3> QED
      BY <2>1, <3>1, <3>2
  <2>4. CASE server[k] = NoServerKey
    <3>1. /\ ServerKeyAt(k)'.credits = cap /\ ServerKeyAt(k)'.last_update = later
          /\ ServerKeyAt(k)'.blocked_until = 0
      <4>1. ServerKeyAt(k)' = NewServerKey(algo, later)
        BY <1>1, <2>4 DEF ServerKeyAt
      <4>2. algo.kind # "FixedWindow" /\ algo = cfg.algorithm
        BY PoolTypes
      <4> QED
        BY <4>1, <4>2 DEF NewServerKey
    <3>2. s.last_update <= now /\ s.credits <= cap
      BY <2>1 DEF Ahead
    <3> HIDE DEF cap, rate, s, later
    <3>3. s.last_update <= later
      BY <1>2, <1>5, <2>2, <3>2
    <3>4. Ahead(cap, later, s.credits, s.last_update, 0, cap, rate, later)
      BY <1>5, <2>2, <3>2, <3>3, FullIsAhead
    <3> QED
      BY <3>1, <3>4
  <2> QED
    BY <2>3, <2>4
<1> QED
  BY <1>1, <1>3, <1>4, <1>6 DEF KeyAhead

LEMMA IssuedStep ==
  ASSUME NeverEvicts, CInv, CInv', IssuedBefore, [CNext]_cvars
  PROVE  IssuedBefore'
<1>1. /\ now \in Nat /\ flights \in [Callers -> Flight]
      /\ \A c \in Callers : flights[c].issued_at \in Nat /\ flights[c].issued_at <= now
  <2>1. now \in Nat /\ Duration \subseteq Nat
    BY Widths DEF CInv, IInv, TypeOK, Duration
  <2>2. flights \in [Callers -> Flight]
    BY DEF CInv, CTypeOK
  <2>3. \A f \in Flight : f.issued_at \in Nat
    BY <2>1 DEF Flight
  <2> QED
    BY <2>1, <2>2, <2>3 DEF IssuedBefore
<1>2. ASSUME NEW c \in Callers, NEW route \in Keys, NEW cost \in Costs, NEW d \in Deadlines,
             Acquire(c, route, cost, d)
      PROVE  IssuedBefore'
  <2>1. now' = now
    BY <1>2 DEF Acquire, TryAcquire
  <2>2. \A e \in Callers : flights'[e].issued_at = flights[e].issued_at
                           \/ flights'[e].issued_at = now
    BY <1>1, <1>2 DEF Acquire, NoFlight
  <2> QED
    BY <1>1, <2>1, <2>2 DEF IssuedBefore
<1>3. ASSUME NEW c \in Callers, FlightMoves(c) PROVE IssuedBefore'
  <2>1. now' = now
    BY <1>3 DEF FlightMoves, vars
  <2>2. \A e \in Callers : flights'[e].issued_at = flights[e].issued_at
    <3>1. CASE Arrive(c)
      BY <1>1, <3>1 DEF Arrive, Flight
    <3>2. CASE Transmit(c)
      BY <1>1, <3>2 DEF Transmit, Moves, Flight
    <3>3. CASE Lose(c)
      BY <1>1, <3>3 DEF Lose, Moves, Flight
    <3> QED
      BY <1>3, <3>1, <3>2, <3>3 DEF FlightMoves
  <2> QED
    BY <1>1, <2>1, <2>2 DEF IssuedBefore
<1>4. ASSUME NEW c \in Callers, FlightEnds(c), FailToSend(c) \/ Answer(c) \/ Expire(c)
      PROVE  IssuedBefore'
  <2>1. now' = now /\ flights' = [flights EXCEPT ![c] = NoFlight]
    BY <1>4, EndShape
  <2>2. \A e \in Callers : flights'[e].issued_at = flights[e].issued_at
                           \/ flights'[e].issued_at = 0
    BY <1>1, <2>1 DEF NoFlight
  <2> QED
    BY <1>1, <2>1, <2>2 DEF IssuedBefore
<1>5. CASE CTick
  <2>1. flights' = flights /\ now' \in (now + 1)..MaxTime
    BY <1>5 DEF CTick, Tick
  <2>2. MaxTime \in Nat
    BY LimiterAssumption, Widths DEF LimiterAssumption, Duration
  <2>3. now' \in Nat /\ now <= now'
    BY <1>1, <2>1, <2>2
  <2> QED
    BY <1>1, <2>1, <2>3 DEF IssuedBefore
<1>6. CASE UNCHANGED cvars
  BY <1>1, <1>6 DEF cvars, vars, IssuedBefore
<1> QED
  BY <1>2, <1>3, <1>4, <1>5, <1>6, StepShapes

LEMMA PoolStep ==
  ASSUME NeverEvicts, CInv, CInv', PoolInv, [CNext]_cvars
  PROVE  PoolInv'
<1>1. cfg' = cfg /\ algo' = algo
  BY LimiterInv
<1>2. ASSUME SharedPools PROVE IssuedBefore' /\ \A k \in Keys : KeyAhead(k)'
  <2>1. IssuedBefore /\ \A k \in Keys : KeyAhead(k)
    BY <1>2 DEF PoolInv
  <2>2. IssuedBefore'
    BY <2>1, IssuedStep
  <2>3. ASSUME UNCHANGED cvars PROVE \A k \in Keys : KeyAhead(k)'
    <3>1. ASSUME NEW k \in Keys PROVE KeyAhead(k)'
      <4>1. UNCHANGED <<cfg, algo, now, buckets, server, straggled, returned, permits, flights>>
        BY <2>3 DEF cvars, vars
      <4>2. Fresh' = Fresh
        BY <4>1 DEF Fresh
      <4>3. Prompt(k)' \in Nat /\ Prompt(k)' <= Prompt(k)
        BY <1>2, <4>2, PoolTypes DEF Prompt
      <4> QED
        BY <1>2, <2>1, <4>1, <4>3, KeyStaysAhead
    <3> QED
      BY <3>1
  <2>4. ASSUME CTick PROVE \A k \in Keys : KeyAhead(k)'
    BY <1>2, <2>1, <2>4, TickAhead
  <2>5. ASSUME NEW c \in Callers,
               FlightMoves(c) \/ (FlightEnds(c) /\ (FailToSend(c) \/ Answer(c) \/ Expire(c)))
        PROVE  \A k \in Keys : KeyAhead(k)'
    BY <1>2, <2>1, <2>5, MoveAhead, EndAhead
  <2>6. ASSUME NEW c \in Callers, NEW route \in Keys, NEW cost \in Costs, NEW d \in Deadlines,
               Acquire(c, route, cost, d)
        PROVE  \A k \in Keys : KeyAhead(k)'
    BY <1>2, <2>1, <2>6, AcquireAhead
  <2>7. \A k \in Keys : KeyAhead(k)'
    BY <2>3, <2>4, <2>5, <2>6, StepShapes
  <2> QED
    BY <2>2, <2>7
<1> QED
  BY <1>1, <1>2 DEF PoolInv, SharedPools, SameLimits

LEMMA PoolInit == CInit => PoolInv
<1> SUFFICES ASSUME CInit PROVE PoolInv
  OBVIOUS
<1>1. now \in Nat
  BY CInitInv, Widths DEF CInv, IInv, TypeOK, Duration
<1>2. NoFlight.issued_at = 0
  BY DEF NoFlight
<1> QED
  BY <1>1, <1>2 DEF CInit, Init, PoolInv, IssuedBefore, KeyAhead, Tracked

-----------------------------------------------------------------------------
\* OnlyStragglersRejected, unless buckets are evicted: with the server's own
\* limits only late arrivals, and for a pool credits returned late, are why a
\* request is turned away.
THEOREM OnlyStragglersTurnedAway ==
  ASSUME NeverEvicts, ClockShortOfMax
  PROVE  CSpec => OnlyStragglersRejected
<1> DEFINE Blamed ==
      \A c \in Callers :
        TurnsAway(c) /\ cfg.algorithm = algo => permits[c].key \in straggled' \cup returned
<1>1. ASSUME CInv, WindowInv, BlockInv, PoolInv, [CNext]_cvars PROVE Blamed
  <2> SUFFICES ASSUME NEW c \in Callers, TurnsAway(c), cfg.algorithm = algo
               PROVE  permits[c].key \in straggled' \cup returned
    OBVIOUS
  <2>1. Arrive(c) /\ ~VerdictOn(c).ok
    <3>1. /\ flights[c].stage = "travelling" /\ flights'[c].stage = "answering"
          /\ ~flights'[c].decision.ok /\ flights \in [Callers -> Flight]
      BY <1>1 DEF TurnsAway, CInv, CTypeOK
    <3>2. ASSUME NEW e \in Callers, FlightMoves(e) PROVE Arrive(c)
      <4>1. CASE Arrive(e)
        BY <3>1, <4>1 DEF Arrive, Flight
      <4>2. CASE Transmit(e)
        BY <3>1, <4>2 DEF Transmit, Moves, Flight
      <4>3. CASE Lose(e)
        BY <3>1, <4>3 DEF Lose, Moves, Flight
      <4> QED
        BY <3>2, <4>1, <4>2, <4>3 DEF FlightMoves
    <3>3. ASSUME NEW e \in Callers, NEW route \in Keys, NEW cost \in Costs, NEW d \in Deadlines,
                 Acquire(e, route, cost, d)
          PROVE  FALSE
      BY <3>1, <3>3 DEF Acquire, NoFlight
    <3>4. ASSUME NEW e \in Callers, FlightEnds(e) PROVE FALSE
      BY <3>1, <3>4 DEF FlightEnds, NoFlight
    <3>5. CTick \/ UNCHANGED cvars => flights' = flights
      BY DEF CTick, cvars
    <3>6. Arrive(c)
      BY <1>1, <3>1, <3>2, <3>3, <3>4, <3>5, StepShapes
    <3>7. flights'[c].decision = VerdictOn(c)
      BY <3>1, <3>6 DEF Arrive, Flight, VerdictOn, KeyOf
    <3> QED
      BY <3>1, <3>6, <3>7
  <2>2. SameLimits
    BY DEF SameLimits
  <2>3. CASE algo.kind = "FixedWindow"
    <3>1. SharedWindows
      BY <2>3 DEF SharedWindows
    <3>2. \A k \in Keys : KeyCovered(k) /\ KeyBlockOK(k)
      BY <1>1, <2>2, <3>1 DEF WindowInv, BlockInv
    <3>3. KeyOf(c) \in straggled'
      BY <1>1, <2>1, <2>2, <3>1, <3>2, ArriveJudged
    <3> QED
      BY <3>3 DEF KeyOf
  <2>4. CASE algo.kind # "FixedWindow"
    <3>1. SharedPools
      BY <2>2, <2>4 DEF SharedPools
    <3>2. \A k \in Keys : KeyAhead(k)
      BY <1>1, <3>1 DEF PoolInv
    <3>3. KeyOf(c) \in straggled' \cup returned
      BY <1>1, <2>1, <3>1, <3>2, ArriveAhead
    <3> QED
      BY <3>3 DEF KeyOf
  <2> QED
    BY <2>3, <2>4
<1> DEFINE Judged == WindowInv /\ BlockInv /\ PoolInv
<1>2. CInv /\ CInv' /\ Judged /\ [CNext]_cvars => Judged'
  BY WindowStep, BlockStep, PoolStep
<1>3. CInit => Judged
  BY WindowInit, BlockInit, PoolInit
<1>4. CInv /\ Judged /\ [CNext]_cvars => Blamed
  BY <1>1
<1>5. [][Blamed]_cvars => OnlyStragglersRejected
  BY PTL DEF OnlyStragglersRejected
<1> QED
  BY <1>2, <1>3, <1>4, <1>5, CompositionInvariance, PTL DEF CSpec

=============================================================================
