--------------------------- MODULE OpenGateProofs ---------------------------
(***************************************************************************)
(* The durable open gate, for any threads, windows, clocks and any number  *)
(* of crashes and errors: grants keep the promises made, denials have a    *)
(* reason, and recorded opens follow the abstract gate.                    *)
(***************************************************************************)
EXTENDS DurableOpenGate, TLAPS

MutexExclusive ==
  \A t, u \in Threads : calls[t].step \in Inside /\ calls[u].step \in Inside => t = u

\* What a call has found out so far still holds.
CallOK(t) ==
  /\ calls[t].step # "idle" => held
  /\ calls[t].step \in {"checked", "staged", "committed"} =>
       Millis(calls[t].at) >= gate.cached_lock_until_ms
  /\ calls[t].step = "staged" => Millis(calls[t].at) >= record.lock_until_ms
  /\ calls[t].step = "committed" =>
       /\ record.lock_until_ms = LockFrom(calls[t].at)
       /\ Millis(calls[t].at) >= promised

\* The cache knows the gate's own lock, and no lock that nobody took.
GateOK ==
  /\ ~held => own = 0
  /\ held =>
       /\ own <= gate.cached_lock_until_ms
       /\ gate.cached_lock_until_ms <= record.lock_until_ms \/ gate.cached_lock_until_ms <= own
       /\ \E cfg \in GateConfigs : gate.window = cfg.window

GInv ==
  /\ GateTypeOK
  /\ MutexExclusive
  /\ \A t \in Threads : CallOK(t)
  /\ GateOK
  /\ RecordCoversPromises

-----------------------------------------------------------------------------
(***************************************************************************)
(* Times.                                                                  *)
(***************************************************************************)
LEMMA MillisType ==
  ASSUME NEW d \in Duration
  PROVE  Millis(d) \in U64
<1>1. d \in Nat /\ TicksPerMilli \in Nat \ {0} /\ U64Max \in Nat
  BY GateAssumption, WidthAssumption DEF Duration
<1>2. d \div TicksPerMilli \in Nat
  BY <1>1
<1> QED
  BY <1>1, <1>2 DEF Millis, Lesser, U64

LEMMA FromMillisType ==
  ASSUME NEW ms \in U64
  PROVE  FromMillis(ms) \in Duration
<1>1. ASSUME NEW a \in Nat, NEW b \in Nat, NEW k \in Nat, a <= b
      PROVE  a * k <= b * k /\ a * k \in Nat /\ b * k \in Nat
  BY <1>1
<1>2. ms \in Nat /\ U64Max \in Nat /\ TicksPerMilli \in Nat /\ ms <= U64Max
  BY GateAssumption, WidthAssumption DEF U64
<1>3. ms * TicksPerMilli <= U64Max * TicksPerMilli
  BY <1>1, <1>2
<1>4. ms * TicksPerMilli \in Nat /\ U64Max * TicksPerMilli \in Nat
  BY <1>1, <1>2
<1> QED
  BY <1>3, <1>4, GateAssumption, WidthAssumption DEF FromMillis, Duration

\* A lock ends no earlier than it begins.
LEMMA LockFromType ==
  ASSUME GateTypeOK, NEW at \in Duration
  PROVE  /\ LockFrom(at) \in U64 /\ Millis(at) \in U64 /\ Millis(at) <= LockFrom(at)
         /\ \/ LockFrom(at) = Millis(at) + Millis(gate.window)
            \/ /\ Millis(at) + Millis(gate.window) \notin U64
               /\ \A i \in U64 : i <= LockFrom(at)
<1>1. gate.window \in Duration
  BY DEF GateTypeOK, Gate
<1>2. Millis(at) \in U64 /\ Millis(gate.window) \in U64
  BY <1>1, MillisType
<1>3. U64Max \in Nat
  BY WidthAssumption
<1> QED
  BY <1>2, <1>3 DEF LockFrom, SatAdd, Lesser, U64

\* The numbers and the record fields of the types.
LEMMA Fields ==
  ASSUME GateTypeOK
  PROVE  /\ record.lock_until_ms \in Nat /\ record.lock_until_ms \in U64
         /\ gate.cached_lock_until_ms \in Nat /\ gate.cached_lock_until_ms \in U64
         /\ promised \in Nat /\ own \in Nat /\ now \in Duration
         /\ \A t \in Threads :
              /\ calls[t].at \in Duration /\ calls[t].step \in Steps
              /\ Millis(calls[t].at) \in Nat
<1>1. U64 \subseteq Nat
  BY WidthAssumption DEF U64
<1>2. record.lock_until_ms \in U64
  BY DEF GateTypeOK
<1>3. gate.cached_lock_until_ms \in U64
  BY DEF GateTypeOK, Gate
<1>4. promised \in U64 /\ own \in U64 /\ now \in Duration
  BY DEF GateTypeOK
<1>5. \A t \in Threads : calls[t].at \in Duration /\ calls[t].step \in Steps
  BY DEF GateTypeOK
<1> QED
  BY <1>1, <1>2, <1>3, <1>4, <1>5, MillisType

-----------------------------------------------------------------------------
(***************************************************************************)
(* The inductive invariant.                                                *)
(***************************************************************************)
Call == [step : Steps, at : Duration]

LEMMA InitGInv == Init => GInv
<1> SUFFICES ASSUME Init PROVE GInv
  OBVIOUS
<1>1. 0 \in U64 /\ 0 \in Duration
  BY WidthAssumption DEF U64, Duration
<1>2. NoCall \in Call /\ NoGate \in Gate
  BY <1>1 DEF NoCall, Call, NoGate, Gate, Steps
<1>3. reply \in [kind : Replies, lock_until : Duration]
  BY <1>1 DEF Init, Replies
<1>4. record \in [lock_until_ms : U64, readable : BOOLEAN]
  BY <1>1 DEF Init
<1>5. GateTypeOK
  BY <1>1, <1>2, <1>3, <1>4 DEF Init, GateTypeOK, Call
<1>6. \A t \in Threads : calls[t].step = "idle"
  BY DEF Init, NoCall
<1> QED
  BY <1>5, <1>6 DEF GInv, Init, MutexExclusive, Inside, CallOK, GateOK, RecordCoversPromises

\* Steps of a thread that change neither lock nor cache.
LEMMA OtherCallsStay ==
  ASSUME GInv, NEW t \in Threads, NEW c \in Call, calls' = [calls EXCEPT ![t] = c],
         UNCHANGED <<held, promised, own>>,
         record'.lock_until_ms = record.lock_until_ms,
         gate'.window = gate.window,
         gate'.cached_lock_until_ms = gate.cached_lock_until_ms,
         c.step \in Inside => calls[t].step \in Inside \/ ~MutexHeld,
         CallOK(t)'
  PROVE  MutexExclusive' /\ (\A u \in Threads : CallOK(u)') /\ GateOK' /\ RecordCoversPromises'
<1>1. /\ \A u \in Threads \ {t} : calls'[u] = calls[u]
      /\ calls'[t] = c
  BY DEF GInv, GateTypeOK
<1>2. MutexExclusive'
  BY <1>1 DEF GInv, MutexExclusive, MutexHeld
<1>3. ASSUME NEW u \in Threads \ {t} PROVE CallOK(u)'
  BY <1>1 DEF GInv, CallOK, LockFrom
<1>4. GateOK' /\ RecordCoversPromises'
  BY DEF GInv, GateOK, RecordCoversPromises
<1> QED
  BY <1>2, <1>3, <1>4

\* Whatever the thread inside does, the others are idle or asking.
LEMMA OthersAreOutside ==
  ASSUME GInv, NEW t \in Threads, calls[t].step \in Inside,
         NEW c \in Call, calls' = [calls EXCEPT ![t] = c],
         held' = held, CallOK(t)'
  PROVE  MutexExclusive' /\ (\A u \in Threads : CallOK(u)')
<1>1. /\ \A u \in Threads \ {t} : calls'[u] = calls[u]
      /\ calls'[t] = c
  BY DEF GInv, GateTypeOK
<1>2. \A u \in Threads \ {t} : calls[u].step \notin Inside
  BY DEF GInv, MutexExclusive
<1>3. MutexExclusive'
  BY <1>1, <1>2 DEF MutexExclusive
<1>4. ASSUME NEW u \in Threads \ {t} PROVE CallOK(u)'
  BY <1>1, <1>2 DEF GInv, CallOK, Inside
<1> QED
  BY <1>3, <1>4

-----------------------------------------------------------------------------
(***************************************************************************)
(* open and the surroundings.                                              *)
(***************************************************************************)
Record == [lock_until_ms : U64, readable : BOOLEAN]
Reply == [kind : Replies, lock_until : Duration]

\* A step of a thread t keeps the types if what it changes has them.
LEMMA CallTypes ==
  ASSUME GateTypeOK, NEW t \in Threads, NEW c \in Call, calls' = [calls EXCEPT ![t] = c],
         UNCHANGED <<dir_exists, held>>, record' \in Record, gate' \in Gate, reply' \in Reply,
         now' \in Duration, mishaps' \in Nat, promised' \in U64, own' \in U64
  PROVE  GateTypeOK'
<1>1. calls' \in [Threads -> [step : Steps, at : Duration]]
  BY DEF GateTypeOK, Call
<1>2. dir_exists' \in BOOLEAN /\ held' \in BOOLEAN
  BY DEF GateTypeOK
<1> QED
  BY <1>1, <1>2 DEF GateTypeOK, Record, Reply

LEMMA ReplyType ==
  ASSUME NEW kind \in Replies, NEW d \in Duration, Replied(kind, d)
  PROVE  reply' \in Reply
BY DEF Replied, Reply

LEMMA MishapType ==
  ASSUME GateTypeOK, Mishap \/ UNCHANGED mishaps
  PROVE  mishaps' \in Nat
BY DEF GateTypeOK, Mishap

LEMMA RefusalInv ==
  ASSUME GInv, reply' \in Reply, mishaps' \in Nat,
         UNCHANGED <<durable, gate, calls, now, history>>
  PROVE  GInv'
<1>1. UNCHANGED <<dir_exists, held, record, gate, calls, now, promised, own>>
  BY DEF durable, history
<1>2. GateTypeOK'
  BY <1>1 DEF GInv, GateTypeOK, Reply
<1> QED
  BY <1>1, <1>2 DEF GInv, MutexExclusive, CallOK, LockFrom, GateOK, RecordCoversPromises

\* A process gets the gate, with the record or with nothing in its cache.
LEMMA OpenedInv ==
  ASSUME GInv, ~held, NEW cfg \in GateConfigs,
         NEW cached \in U64, cached = 0 \/ cached = record.lock_until_ms,
         Opened(cfg, cached), mishaps' \in Nat,
         UNCHANGED <<dir_exists, record, calls, now, history>>
  PROVE  GInv'
<1> USE DEF GInv
<1>1. /\ held' = TRUE /\ UNCHANGED <<dir_exists, record, calls, now, promised, own>>
      /\ gate' = [window |-> cfg.window, fail_closed |-> cfg.fail_closed,
                  cached_lock_until_ms |-> cached, poisoned |-> FALSE]
  BY DEF Opened, history
<1>2. cfg \in DurableOpenGateConfig /\ gate' \in Gate
  BY <1>1, GateAssumption DEF DurableOpenGateConfig, Gate
<1>3. reply' \in Reply
  <2>1. 0 \in Duration
    BY WidthAssumption DEF Duration
  <2> QED
    BY <2>1, ReplyType DEF Opened, Replies
<1>4. GateTypeOK'
  BY <1>1, <1>2, <1>3 DEF GateTypeOK, Reply
<1>5. \A t \in Threads : calls[t].step = "idle"
  BY DEF CallOK
<1>6. own = 0 /\ record.lock_until_ms \in Nat
  BY Fields DEF GateOK
<1>7. GateOK'
  BY <1>1, <1>6 DEF GateOK
<1>8. MutexExclusive' /\ \A t \in Threads : CallOK(t)'
  BY <1>1, <1>5 DEF MutexExclusive, CallOK, Inside
<1> QED
  BY <1>1, <1>4, <1>7, <1>8 DEF RecordCoversPromises

LEMMA OpeningInv ==
  ASSUME GInv, Opening
  PROVE  GInv'
<1> USE DEF GInv
<1>0. 0 \in Duration /\ 0 \in U64
  BY WidthAssumption DEF Duration, U64
<1>1. CASE OpenRefused
  BY <1>0, <1>1, ReplyType, MishapType, RefusalInv DEF OpenRefused, Replies
<1>2. CASE OpenFindsNoDir
  BY <1>0, <1>2, ReplyType, MishapType, RefusalInv DEF OpenFindsNoDir, Replies
<1>3. CASE OpenFails
  BY <1>0, <1>3, ReplyType, MishapType, RefusalInv DEF OpenFails, Replies
<1>4. ASSUME NEW cfg \in GateConfigs, OpenRejected(cfg)
      PROVE  GInv'
  BY <1>0, <1>4, ReplyType, MishapType, RefusalInv DEF OpenRejected, Replies
<1>5. ASSUME NEW cfg \in GateConfigs, Open(cfg)
      PROVE  GInv'
  <2>1. mishaps' \in Nat /\ record.lock_until_ms \in U64
    BY <1>5, MishapType, Fields DEF Open
  <2> QED
    BY <1>5, <2>1, OpenedInv DEF Open
<1>6. ASSUME NEW cfg \in GateConfigs, OpenLoadFails(cfg)
      PROVE  GInv'
  <2>1. mishaps' \in Nat
    BY <1>6, MishapType DEF OpenLoadFails
  <2>2. CASE cfg.fail_closed
    <3>1. Replied("Error", 0) /\ UNCHANGED <<durable, gate, calls, now, history>>
      BY <1>6, <2>2 DEF OpenLoadFails, durable
    <3> QED
      BY <1>0, <2>1, <3>1, ReplyType, RefusalInv DEF Replies
  <2>3. CASE ~cfg.fail_closed
    BY <1>0, <1>6, <2>1, <2>3, OpenedInv DEF OpenLoadFails
  <2> QED
    BY <2>2, <2>3
<1> QED
  BY <1>1, <1>2, <1>3, <1>4, <1>5, <1>6 DEF Opening

LEMMA EndInv ==
  ASSUME GInv, End
  PROVE  GInv'
<1> USE DEF GInv
<1>0. 0 \in Duration /\ 0 \in U64
  BY WidthAssumption DEF Duration, U64
<1>1. /\ held' = FALSE /\ gate' = NoGate /\ own' = 0
      /\ calls' = [t \in Threads |-> NoCall]
      /\ UNCHANGED <<dir_exists, record, reply, now, promised>>
  BY DEF End
<1>2. NoCall \in Call /\ NoGate \in Gate
  BY <1>0 DEF NoCall, Call, NoGate, Gate, Steps
<1>3. mishaps' \in Nat
  BY MishapType DEF End
<1>4. GateTypeOK'
  BY <1>0, <1>1, <1>2, <1>3 DEF GateTypeOK, Call
<1>5. \A t \in Threads : calls'[t].step = "idle"
  BY <1>1 DEF NoCall
<1> QED
  BY <1>1, <1>4, <1>5 DEF MutexExclusive, Inside, CallOK, GateOK, RecordCoversPromises

LEMMA CorruptInv ==
  ASSUME GInv, Corrupt
  PROVE  GInv'
<1> USE DEF GInv
<1>1. /\ record' = [record EXCEPT !.readable = FALSE]
      /\ UNCHANGED <<dir_exists, held, gate, calls, reply, now, promised, own>>
  BY DEF Corrupt, history
<1>2. record \in Record
  BY DEF GateTypeOK, Record
<1>3. record' \in Record /\ record'.lock_until_ms = record.lock_until_ms
  BY <1>1, <1>2 DEF Record
<1>4. mishaps' \in Nat
  BY MishapType DEF Corrupt
<1>5. GateTypeOK'
  BY <1>1, <1>3, <1>4 DEF GateTypeOK, Record
<1> QED
  BY <1>1, <1>3, <1>5 DEF MutexExclusive, CallOK, LockFrom, GateOK, RecordCoversPromises

LEMMA TimeInv ==
  ASSUME GInv, Tick
  PROVE  GInv'
<1> USE DEF GInv
<1>1. UNCHANGED <<dir_exists, held, record, gate, calls, reply, mishaps, promised, own>>
  BY DEF Tick, durable, history
<1>2. now' \in Duration
  BY GateAssumption, WidthAssumption DEF Tick, GateTypeOK, Duration
<1>3. GateTypeOK'
  BY <1>1, <1>2 DEF GateTypeOK
<1> QED
  BY <1>1, <1>3 DEF MutexExclusive, CallOK, LockFrom, GateOK, RecordCoversPromises

-----------------------------------------------------------------------------
(***************************************************************************)
(* The steps of a call.                                                    *)
(***************************************************************************)
\* A step of t that goes on keeps the time the caller read.
LEMMA ProceedsCall ==
  ASSUME GateTypeOK, NEW t \in Threads, NEW s \in Steps, Proceeds(t, s)
  PROVE  \E c \in Call :
           /\ calls' = [calls EXCEPT ![t] = c] /\ calls'[t] = c
           /\ c.step = s /\ c.at = calls[t].at
<1>1. calls[t] \in Call /\ calls' = [calls EXCEPT ![t] = [calls[t] EXCEPT !.step = s]]
  BY DEF GateTypeOK, Call, Proceeds
<1>2. [calls[t] EXCEPT !.step = s] \in Call
  BY <1>1 DEF Call
<1>3. [calls[t] EXCEPT !.step = s].step = s /\ [calls[t] EXCEPT !.step = s].at = calls[t].at
  BY <1>1 DEF Call
<1>4. calls'[t] = [calls[t] EXCEPT !.step = s]
  BY <1>1 DEF GateTypeOK
<1> QED
  BY <1>1, <1>2, <1>3, <1>4

\* A call that returns is idle again, its reply well formed.
LEMMA ReturnsCall ==
  ASSUME GateTypeOK, NEW t \in Threads, NEW kind \in Replies, NEW d \in Duration,
         Returns(t, kind, d)
  PROVE  /\ NoCall \in Call /\ calls' = [calls EXCEPT ![t] = NoCall]
         /\ calls'[t] = NoCall /\ NoCall.step = "idle"
         /\ reply' \in Reply
<1>1. NoCall \in Call
  BY WidthAssumption DEF NoCall, Call, Steps, Duration
<1>2. NoCall.step = "idle"
  BY DEF NoCall
<1>3. calls' = [calls EXCEPT ![t] = NoCall] /\ calls'[t] = NoCall
  BY DEF Returns, GateTypeOK
<1> QED
  BY <1>1, <1>2, <1>3, ReplyType DEF Returns

\* Steps that change only the call, its reply and the count of mishaps.
LEMMA QuietInv ==
  ASSUME GInv, NEW t \in Threads, NEW c \in Call, calls' = [calls EXCEPT ![t] = c],
         UNCHANGED <<durable, gate, now, history>>, reply' \in Reply, mishaps' \in Nat,
         c.step \in Inside => calls[t].step \in Inside \/ ~MutexHeld,
         CallOK(t)'
  PROVE  GInv'
<1>1. UNCHANGED <<dir_exists, held, record, gate, now, promised, own>>
  BY DEF durable, history
<1>2. /\ record' \in Record /\ gate' \in Gate /\ now' \in Duration
      /\ promised' \in U64 /\ own' \in U64
  BY <1>1 DEF GInv, GateTypeOK, Record
<1>3. GateTypeOK'
  BY <1>1, <1>2, CallTypes DEF GInv
<1> QED
  BY <1>1, <1>3, OtherCallsStay DEF GInv

\* The same for a call that returns.
LEMMA QuietReturn ==
  ASSUME GInv, NEW t \in Threads, NEW kind \in Replies, NEW d \in Duration,
         Returns(t, kind, d), UNCHANGED <<durable, gate, now, history>>,
         Mishap \/ UNCHANGED mishaps
  PROVE  GInv'
<1>1. /\ NoCall \in Call /\ calls' = [calls EXCEPT ![t] = NoCall]
      /\ calls'[t] = NoCall /\ NoCall.step = "idle" /\ reply' \in Reply
  BY ReturnsCall DEF GInv
<1>2. CallOK(t)'
  BY <1>1 DEF CallOK
<1>3. mishaps' \in Nat
  BY MishapType DEF GInv
<1> QED
  BY <1>1, <1>2, <1>3, QuietInv DEF Inside

\* And for one that goes on with what it found out.
LEMMA QuietProceed ==
  ASSUME GInv, NEW t \in Threads, NEW s \in Steps, Proceeds(t, s),
         UNCHANGED <<durable, gate, now, history>>, Mishap \/ UNCHANGED mishaps,
         s \in Inside => calls[t].step \in Inside \/ ~MutexHeld,
         s # "committed",
         s # "idle" => held,
         s \in {"checked", "staged"} => Millis(calls[t].at) >= gate.cached_lock_until_ms,
         s = "staged" => Millis(calls[t].at) >= record.lock_until_ms
  PROVE  GInv'
<1>1. PICK c \in Call :
           /\ calls' = [calls EXCEPT ![t] = c] /\ calls'[t] = c
           /\ c.step = s /\ c.at = calls[t].at
  BY ProceedsCall DEF GInv
<1>2. UNCHANGED <<held, record, gate, reply>>
  BY DEF durable, Proceeds
<1>3. CallOK(t)'
  BY <1>1, <1>2 DEF CallOK
<1>4. reply' \in Reply
  BY <1>2 DEF GInv, GateTypeOK, Reply
<1>5. mishaps' \in Nat
  BY MishapType DEF GInv
<1> QED
  BY <1>1, <1>3, <1>4, <1>5, QuietInv

LEMMA AskInv ==
  ASSUME GInv, NEW t \in Threads, Ask(t)
  PROVE  GInv'
<1> DEFINE c == [step |-> "asking", at |-> now]
<1>1. c \in Call /\ c.step = "asking" /\ calls' = [calls EXCEPT ![t] = c] /\ calls'[t] = c
  BY DEF Ask, GInv, GateTypeOK, Call, Steps
<1>2. /\ UNCHANGED <<durable, gate, now, history>> /\ held' = held /\ held
      /\ reply' \in Reply /\ mishaps' \in Nat
  BY DEF Ask, GInv, GateTypeOK, Reply, durable
<1>3. CallOK(t)'
  BY <1>1, <1>2 DEF CallOK
<1> HIDE DEF c
<1> QED
  BY <1>1, <1>2, <1>3, QuietInv DEF Inside

\* The steps before anything is written.
LEMMA ReadingInv ==
  ASSUME GInv, NEW t \in Threads,
         \/ Contended(t) \/ FindsPoison(t) \/ DenyFromCache(t) \/ Enter(t)
         \/ TxnFails(t) \/ Stage(t) \/ HoldInner(t) \/ ReleaseInner(t)
  PROVE  GInv'
<1>0. 0 \in Duration /\ calls[t].at \in Duration /\ calls[t].at \in Duration
  BY WidthAssumption, Fields DEF Duration, GInv
<1>1. CASE Contended(t)
  BY <1>0, <1>1, QuietReturn DEF Contended, Replies
<1>2. CASE FindsPoison(t)
  BY <1>0, <1>2, QuietReturn DEF FindsPoison, Replies
<1>3. CASE DenyFromCache(t)
  <2>1. FromMillis(gate.cached_lock_until_ms) \in Duration
    BY Fields, FromMillisType DEF GInv
  <2> QED
    BY <2>1, <1>3, QuietReturn DEF DenyFromCache, Replies
<1>4. CASE Enter(t)
  <2>1. held
    BY <1>4 DEF Enter, CanEnter, GInv, CallOK
  <2>2. ~MutexHeld /\ Proceeds(t, "checked") /\ Millis(calls[t].at) >= gate.cached_lock_until_ms
        /\ UNCHANGED <<durable, gate, now, mishaps, history>>
    BY <1>4 DEF Enter, CanEnter
  <2> QED
    BY <2>1, <2>2, QuietProceed DEF Steps, Inside
<1>5. CASE TxnFails(t)
  BY <1>0, <1>5, QuietReturn DEF TxnFails, Replies
<1>6. CASE Stage(t)
  <2>1. held /\ Millis(calls[t].at) >= gate.cached_lock_until_ms
    BY <1>6 DEF Stage, GInv, CallOK
  <2>2. calls[t].step \in Inside /\ Proceeds(t, "staged")
        /\ UNCHANGED <<durable, gate, now, mishaps, history>>
    BY <1>6 DEF Stage, Inside
  <2>3. Millis(calls[t].at) >= record.lock_until_ms
    BY <1>6, Fields DEF Stage, GInv, EffectiveLock, Greater
  <2> QED
    BY <2>1, <2>2, <2>3, QuietProceed DEF Steps, Inside
<1>7. CASE HoldInner(t)
  BY <1>7, QuietProceed DEF HoldInner, Steps, Inside
<1>8. CASE ReleaseInner(t)
  BY <1>8, QuietProceed DEF ReleaseInner, Steps, Inside
<1> QED
  BY <1>1, <1>2, <1>3, <1>4, <1>5, <1>6, <1>7, <1>8

\* A new cached lock.
LEMMA CachesType ==
  ASSUME GateTypeOK, NEW lock \in U64,
         gate' = [gate EXCEPT !.cached_lock_until_ms = lock]
  PROVE  /\ gate' \in Gate /\ gate'.cached_lock_until_ms = lock
         /\ gate'.window = gate.window /\ gate'.fail_closed = gate.fail_closed
BY DEF GateTypeOK, Gate

\* A step of the thread inside that leaves the record no lower than the cache
\* it found, and either keeps cache and own lock or sets both to what it took.
LEMMA InsideInv ==
  ASSUME GInv, NEW t \in Threads, calls[t].step \in Inside,
         NEW c \in Call, calls' = [calls EXCEPT ![t] = c], CallOK(t)',
         UNCHANGED <<dir_exists, held, now>>,
         record' \in Record, gate' \in Gate, reply' \in Reply, mishaps' \in Nat,
         promised' \in U64, own' \in U64, gate'.window = gate.window,
         own' <= gate'.cached_lock_until_ms,
         \/ gate'.cached_lock_until_ms <= record'.lock_until_ms
         \/ gate'.cached_lock_until_ms <= own',
         promised' <= record'.lock_until_ms
  PROVE  GInv'
<1>1. now' \in Duration
  BY DEF GInv, GateTypeOK
<1>2. GateTypeOK'
  BY <1>1, CallTypes DEF GInv
<1>3. MutexExclusive' /\ \A u \in Threads : CallOK(u)'
  BY OthersAreOutside
<1>4. held
  BY DEF GInv, CallOK, Inside
<1>5. GateOK'
  BY <1>4 DEF GInv, GateOK
<1> QED
  BY <1>2, <1>3, <1>5 DEF GInv, RecordCoversPromises

LEMMA DenyFromRecordInv ==
  ASSUME GInv, NEW t \in Threads, DenyFromRecord(t)
  PROVE  GInv'
<1>1. /\ calls[t].step \in Inside /\ held
      /\ UNCHANGED <<dir_exists, held, record, now, mishaps, promised, own>>
  BY DEF DenyFromRecord, Inside, durable, history, GInv, CallOK
<1>2. /\ EffectiveLock \in U64
      /\ EffectiveLock >= gate.cached_lock_until_ms /\ EffectiveLock >= record.lock_until_ms
      /\ \/ EffectiveLock = gate.cached_lock_until_ms
         \/ EffectiveLock = record.lock_until_ms
  BY Fields DEF GInv, EffectiveLock, Greater
<1>3. gate' \in Gate /\ gate'.cached_lock_until_ms = EffectiveLock /\ gate'.window = gate.window
  BY <1>2, CachesType DEF GInv, DenyFromRecord
<1>4. FromMillis(EffectiveLock) \in Duration
  BY <1>2, FromMillisType
<1>5. /\ NoCall \in Call /\ calls' = [calls EXCEPT ![t] = NoCall]
      /\ calls'[t] = NoCall /\ NoCall.step = "idle" /\ reply' \in Reply
  BY <1>4, ReturnsCall DEF GInv, DenyFromRecord, Replies
<1>6. CallOK(t)'
  BY <1>5 DEF CallOK
<1>7. /\ record' \in Record /\ mishaps' \in Nat /\ promised' \in U64 /\ own' \in U64
  BY <1>1 DEF GInv, GateTypeOK, Record
<1>8. own' <= gate'.cached_lock_until_ms
  BY <1>1, <1>2, <1>3, Fields DEF GInv, GateOK, U64
<1>9. \/ gate'.cached_lock_until_ms <= record'.lock_until_ms
      \/ gate'.cached_lock_until_ms <= own'
  BY <1>1, <1>2, <1>3, Fields DEF GInv, GateOK
<1>10. promised' <= record'.lock_until_ms
  BY <1>1 DEF GInv, RecordCoversPromises
<1> QED
  BY <1>1, <1>3, <1>5, <1>6, <1>7, <1>8, <1>9, <1>10, InsideInv

\* A failure inside, whether the new lock became durable or not.
LEMMA FailureInv ==
  ASSUME GInv, NEW t \in Threads, calls[t].step \in {"checked", "staged"},
         PersistErrorDecision(t), Mishap \/ UNCHANGED mishaps,
         UNCHANGED <<dir_exists, held, now, promised>>,
         UNCHANGED record \/ (calls[t].step = "staged" /\ Stored(t))
  PROVE  GInv'
<1> DEFINE lock == LockFrom(calls[t].at)
<1>1. /\ calls[t].step \in Inside
      /\ Millis(calls[t].at) >= gate.cached_lock_until_ms
      /\ calls[t].step = "staged" => Millis(calls[t].at) >= record.lock_until_ms
      /\ held
  BY DEF Inside, GInv, CallOK
<1>2. lock \in U64 /\ Millis(calls[t].at) <= lock /\ Millis(calls[t].at) \in U64
  BY LockFromType, Fields DEF GInv
<1>3. FromMillis(lock) \in Duration /\ 0 \in Duration
  BY <1>2, FromMillisType, WidthAssumption DEF Duration
<1>4. /\ NoCall \in Call /\ calls' = [calls EXCEPT ![t] = NoCall]
      /\ calls'[t] = NoCall /\ NoCall.step = "idle" /\ reply' \in Reply
  <2>1. CASE gate.fail_closed
    BY <1>3, <2>1, ReturnsCall DEF PersistErrorDecision, GInv, Replies
  <2>2. CASE ~gate.fail_closed
    BY <1>3, <2>2, ReturnsCall DEF PersistErrorDecision, GInv, Replies
  <2> QED
    BY <2>1, <2>2
<1>5. CallOK(t)'
  BY <1>4 DEF CallOK
<1>6. \/ record' = record
      \/ record'.lock_until_ms = lock /\ Millis(calls[t].at) >= record.lock_until_ms
  BY <1>1 DEF Stored, GInv, GateTypeOK
<1>7. record' \in Record
  BY <1>2 DEF Stored, GInv, GateTypeOK, Record
<1>8. mishaps' \in Nat /\ promised' \in U64
  BY MishapType DEF GInv, GateTypeOK
<1> HIDE DEF lock
<1>9. record.lock_until_ms <= record'.lock_until_ms
      /\ promised' <= record'.lock_until_ms
  BY <1>2, <1>6, Fields DEF GInv, RecordCoversPromises, U64
<1>10. CASE gate.fail_closed
  <2>1. UNCHANGED <<gate, own>>
    BY <1>10 DEF PersistErrorDecision
  <2>2. gate' \in Gate /\ own' \in U64 /\ gate'.window = gate.window
        /\ own' <= gate'.cached_lock_until_ms
    BY <1>1, <2>1 DEF GInv, GateTypeOK, GateOK
  <2>3. record'.lock_until_ms \in Nat
    BY <1>7, WidthAssumption DEF Record, U64
  <2>4. \/ gate'.cached_lock_until_ms <= record'.lock_until_ms
        \/ gate'.cached_lock_until_ms <= own'
    BY <1>1, <1>9, <2>1, <2>3, Fields DEF GInv, GateOK
  <2> QED
    BY <1>1, <1>4, <1>5, <1>7, <1>8, <1>9, <2>2, <2>4, InsideInv
<1>11. CASE ~gate.fail_closed
  <2>1. gate' = [gate EXCEPT !.cached_lock_until_ms = lock] /\ own' = lock
    BY <1>11 DEF PersistErrorDecision, lock
  <2>2. gate' \in Gate /\ gate'.cached_lock_until_ms = lock /\ gate'.window = gate.window
    BY <1>2, <2>1, CachesType DEF GInv
  <2>3. own' <= gate'.cached_lock_until_ms /\ gate'.cached_lock_until_ms <= own' /\ own' \in U64
    BY <1>2, <2>1, <2>2 DEF U64
  <2> QED
    BY <1>1, <1>4, <1>5, <1>7, <1>8, <1>9, <2>2, <2>3, InsideInv
<1> QED
  BY <1>10, <1>11

LEMMA CommitInv ==
  ASSUME GInv, NEW t \in Threads, Commit(t)
  PROVE  GInv'
<1> DEFINE lock == LockFrom(calls[t].at)
<1>1. /\ calls[t].step \in Inside /\ calls[t].step = "staged"
      /\ Millis(calls[t].at) >= gate.cached_lock_until_ms
      /\ Millis(calls[t].at) >= record.lock_until_ms
      /\ held
      /\ UNCHANGED <<dir_exists, held, gate, now, mishaps, promised, own, reply>>
  BY DEF Commit, Inside, GInv, CallOK, history, Proceeds
<1>2. lock \in U64 /\ Millis(calls[t].at) <= lock /\ Millis(calls[t].at) \in U64
  BY LockFromType, Fields DEF GInv
<1>3. PICK c \in Call :
           /\ calls' = [calls EXCEPT ![t] = c] /\ calls'[t] = c
           /\ c.step = "committed" /\ c.at = calls[t].at
  BY ProceedsCall DEF GInv, Commit, Steps, Inside
<1>4. record' \in Record /\ record'.lock_until_ms = lock
  BY <1>2 DEF Commit, Stored, GInv, GateTypeOK, Record
<1>5. Millis(calls[t].at) >= promised
  BY <1>1, <1>2, Fields DEF GInv, RecordCoversPromises, U64
<1>6. CallOK(t)'
  BY <1>1, <1>3, <1>4, <1>5 DEF CallOK, LockFrom
<1>7. /\ gate' \in Gate /\ reply' \in Reply /\ mishaps' \in Nat
      /\ promised' \in U64 /\ own' \in U64 /\ gate'.window = gate.window
  BY <1>1 DEF GInv, GateTypeOK, Reply
<1> HIDE DEF lock
<1>8. /\ own' <= gate'.cached_lock_until_ms
      /\ gate'.cached_lock_until_ms <= record'.lock_until_ms
      /\ promised' <= record'.lock_until_ms
  BY <1>1, <1>2, <1>4, <1>5, Fields DEF GInv, GateOK, U64
<1> QED
  BY <1>1, <1>3, <1>4, <1>6, <1>7, <1>8, InsideInv

LEMMA GrantInv ==
  ASSUME GInv, NEW t \in Threads, Grant(t)
  PROVE  GInv'
<1> DEFINE lock == LockFrom(calls[t].at)
<1>1. /\ calls[t].step \in Inside /\ record.lock_until_ms = lock
      /\ UNCHANGED <<dir_exists, held, record, now, mishaps>>
      /\ promised' = lock /\ own' = lock
  BY DEF Grant, Inside, GInv, CallOK, durable
<1>2. lock \in U64
  BY LockFromType, Fields DEF GInv
<1>3. gate' \in Gate /\ gate'.cached_lock_until_ms = lock /\ gate'.window = gate.window
  BY <1>2, CachesType DEF Grant, GInv
<1>4. FromMillis(lock) \in Duration
  BY <1>2, FromMillisType
<1>5. /\ NoCall \in Call /\ calls' = [calls EXCEPT ![t] = NoCall]
      /\ calls'[t] = NoCall /\ NoCall.step = "idle" /\ reply' \in Reply
  BY <1>4, ReturnsCall DEF Grant, GInv, Replies
<1>6. CallOK(t)'
  BY <1>5 DEF CallOK
<1>7. /\ record' \in Record /\ mishaps' \in Nat /\ promised' \in U64 /\ own' \in U64
  BY <1>1, <1>2 DEF GInv, GateTypeOK, Record
<1>8. /\ own' <= gate'.cached_lock_until_ms
      /\ gate'.cached_lock_until_ms <= record'.lock_until_ms
      /\ promised' <= record'.lock_until_ms
  BY <1>1, <1>2, <1>3, WidthAssumption DEF U64
<1> QED
  BY <1>1, <1>3, <1>5, <1>6, <1>7, <1>8, InsideInv

LEMMA PanicInv ==
  ASSUME GInv, NEW t \in Threads, PanicInner(t)
  PROVE  GInv'
<1>1. /\ UNCHANGED <<dir_exists, held, record, now, mishaps, promised, own, reply>>
      /\ gate' = [gate EXCEPT !.poisoned = TRUE]
  BY DEF PanicInner, durable, history, Proceeds
<1>2. /\ gate' \in Gate /\ gate'.window = gate.window
      /\ gate'.cached_lock_until_ms = gate.cached_lock_until_ms
  BY <1>1 DEF GInv, GateTypeOK, Gate
<1>3. PICK c \in Call :
           /\ calls' = [calls EXCEPT ![t] = c] /\ calls'[t] = c
           /\ c.step = "idle" /\ c.at = calls[t].at
  BY ProceedsCall DEF GInv, PanicInner, Steps
<1>4. CallOK(t)'
  BY <1>3 DEF CallOK
<1>5. GateTypeOK'
  BY <1>1, <1>2, <1>3, CallTypes DEF GInv, GateTypeOK, Record, Reply
<1> QED
  BY <1>1, <1>2, <1>3, <1>4, <1>5, OtherCallsStay DEF GInv, Inside

LEMMA ThreadInv ==
  ASSUME GInv, NEW t \in Threads, Ask(t) \/ Acquiring(t) \/ Disturbed(t)
  PROVE  GInv'
<1>1. CASE ReadFails(t)
  BY <1>1, FailureInv DEF ReadFails, durable
<1>2. CASE WriteFails(t)
  BY <1>2, FailureInv DEF WriteFails
<1> QED
  BY <1>1, <1>2, AskInv, ReadingInv, DenyFromRecordInv, CommitInv, GrantInv, PanicInv
     DEF Acquiring, Disturbed

LEMMA NextGInv == GInv /\ [Next]_vars => GInv'
<1> SUFFICES ASSUME GInv, [Next]_vars PROVE GInv'
  OBVIOUS
<1>1. CASE UNCHANGED vars
  BY <1>1 DEF vars, GInv, GateTypeOK, MutexExclusive, CallOK, LockFrom, GateOK,
              RecordCoversPromises
<1> QED
  BY <1>1, OpeningInv, ThreadInv, EndInv, CorruptInv, TimeInv DEF Next

(***************************************************************************)
(* The invariant holds in every behaviour.                                 *)
(***************************************************************************)
THEOREM GateInvariance == Spec => []GInv
BY InitGInv, NextGInv, PTL DEF Spec

(***************************************************************************)
(* The record, the gate, the calls and the replies keep their types.       *)
(***************************************************************************)
THEOREM GateTypeCorrect == Spec => []GateTypeOK
BY GateInvariance, PTL DEF GInv

(***************************************************************************)
(* Whatever ends or fails, the durable record covers every open granted    *)
(* after a commit.                                                         *)
(***************************************************************************)
THEOREM PromisesAreRecorded == Spec => []RecordCoversPromises
BY GateInvariance, PTL DEF GInv

-----------------------------------------------------------------------------
(***************************************************************************)
(* Decisions.                                                              *)
(***************************************************************************)
\* A thread's step leaves the calls of the others alone.
LEMMA OwnCallOnly ==
  ASSUME GateTypeOK, NEW t \in Threads, Ask(t) \/ Acquiring(t) \/ Disturbed(t)
  PROVE  \A u \in Threads \ {t} : calls'[u] = calls[u]
BY DEF GateTypeOK, Ask, Acquiring, Disturbed, Contended, FindsPoison, DenyFromCache, Enter,
       DenyFromRecord, Stage, Commit, Grant, TxnFails, ReadFails, WriteFails, HoldInner,
       ReleaseInner, PanicInner, PersistErrorDecision, Returns, Proceeds

\* A decision for t is made by a step of t.
LEMMA DecidesItself ==
  ASSUME GateTypeOK, Next, NEW t \in Threads, NEW kind, Decides(t, kind)
  PROVE  Acquiring(t) \/ Disturbed(t)
<1>1. calls'[t] # calls[t] /\ held' /\ calls[t].step # "idle"
  BY DEF Decides
<1>2. ~Opening
  BY <1>1 DEF Opening, OpenRefused, OpenFindsNoDir, OpenFails, OpenRejected, Open, OpenLoadFails
<1>3. ~End /\ ~Corrupt /\ ~Tick
  BY <1>1 DEF End, Corrupt, Tick
<1>4. PICK u \in Threads : Ask(u) \/ Acquiring(u) \/ Disturbed(u)
  BY <1>2, <1>3 DEF Next
<1>5. u = t
  BY <1>1, <1>4, OwnCallOnly
<1>6. ~Ask(t)
  BY <1>1 DEF Ask
<1> QED
  BY <1>4, <1>5, <1>6

\* What a deciding step is, by the kind of its reply.
LEMMA WhoDecides ==
  ASSUME GateTypeOK, NEW t \in Threads, Acquiring(t) \/ Disturbed(t), NEW kind, Decides(t, kind)
  PROVE  /\ kind = "Allowed" =>
              \/ Grant(t)
              \/ calls[t].step \in {"checked", "staged"} /\ ~gate.fail_closed
         /\ kind = "Blocked" => Contended(t) \/ DenyFromCache(t) \/ DenyFromRecord(t)
<1>1. calls[t].step \notin {"idle", "holding"} /\ calls'[t].step = "idle" /\ reply'.kind = kind
  BY DEF Decides
<1>2. ASSUME NEW s \in Steps, Proceeds(t, s), s # "idle"
      PROVE  FALSE
  BY <1>1, <1>2, ProceedsCall
<1>3. ~Enter(t) /\ ~Stage(t) /\ ~Commit(t)
  BY <1>2 DEF Enter, Stage, Commit, Steps, Inside
<1>4. ~HoldInner(t) /\ ~ReleaseInner(t) /\ ~PanicInner(t)
  BY <1>1 DEF HoldInner, ReleaseInner, PanicInner
<1>5. FindsPoison(t) => kind = "LockPoisoned"
  BY <1>1 DEF FindsPoison, Returns, Replied
<1>6. TxnFails(t) => kind = "Error"
  BY <1>1 DEF TxnFails, Returns, Replied
<1>7. Contended(t) \/ DenyFromCache(t) \/ DenyFromRecord(t) => kind = "Blocked"
  BY <1>1 DEF Contended, DenyFromCache, DenyFromRecord, Returns, Replied
<1>8. Grant(t) => kind = "Allowed"
  BY <1>1 DEF Grant, Returns, Replied
<1>9. ReadFails(t) \/ WriteFails(t) =>
        /\ calls[t].step \in {"checked", "staged"}
        /\ kind = IF gate.fail_closed THEN "Error" ELSE "Allowed"
  BY <1>1 DEF ReadFails, WriteFails, PersistErrorDecision, Returns, Replied
<1> QED
  BY <1>3, <1>4, <1>5, <1>6, <1>7, <1>8, <1>9 DEF Acquiring, Disturbed

LEMMA GrantStep ==
  ASSUME GInv, Next, NEW t \in Threads, Decides(t, "Allowed")
  PROVE  /\ Millis(calls[t].at) >= own
         /\ gate.fail_closed => Millis(calls[t].at) >= promised
<1>1. Acquiring(t) \/ Disturbed(t)
  BY DecidesItself DEF GInv
<1>2. \/ Grant(t)
      \/ calls[t].step \in {"checked", "staged"} /\ ~gate.fail_closed
  BY <1>1, WhoDecides DEF GInv
<1>3. /\ held /\ Millis(calls[t].at) >= gate.cached_lock_until_ms
      /\ Grant(t) => Millis(calls[t].at) >= promised
  BY <1>2 DEF Grant, GInv, CallOK
<1>4. Millis(calls[t].at) >= own
  BY <1>3, Fields DEF GInv, GateOK
<1> QED
  BY <1>2, <1>3, <1>4

LEMMA BlockStep ==
  ASSUME GInv, Next, NEW t \in Threads, Decides(t, "Blocked")
  PROVE  \/ \E u \in Threads \ {t} : calls[u].step \in Inside
         \/ Millis(calls[t].at) < Greater(record.lock_until_ms, own)
<1>1. Acquiring(t) \/ Disturbed(t)
  BY DecidesItself DEF GInv
<1>2. Contended(t) \/ DenyFromCache(t) \/ DenyFromRecord(t)
  BY <1>1, WhoDecides DEF GInv
<1>3. CASE Contended(t)
  BY <1>3 DEF Contended, MutexHeld, Inside
<1>4. ASSUME DenyFromCache(t) \/ DenyFromRecord(t)
      PROVE  Millis(calls[t].at) < Greater(record.lock_until_ms, own)
  <2>1. held
    BY <1>4 DEF DenyFromCache, DenyFromRecord, CanEnter, GInv, CallOK
  <2>2. /\ gate.cached_lock_until_ms <= record.lock_until_ms \/ gate.cached_lock_until_ms <= own
        /\ Millis(calls[t].at) < Greater(gate.cached_lock_until_ms, record.lock_until_ms)
             \/ Millis(calls[t].at) < gate.cached_lock_until_ms
    BY <1>4, <2>1 DEF GInv, GateOK, DenyFromCache, DenyFromRecord, EffectiveLock
  <2> QED
    BY <2>2, Fields DEF GInv, Greater
<1> QED
  BY <1>2, <1>3, <1>4

(***************************************************************************)
(* No open is granted before the lock the gate granted last has run out;   *)
(* a fail-closed gate keeps the recorded promises of every process before  *)
(* it.                                                                     *)
(***************************************************************************)
THEOREM GrantsRespectLocks == Spec => GrantsKeepPromises
<1>1. GInv /\ [Next]_vars =>
        [\A t \in Threads :
           Decides(t, "Allowed") =>
             /\ Millis(calls[t].at) >= own
             /\ gate.fail_closed => Millis(calls[t].at) >= promised]_vars
  BY GrantStep
<1> QED
  BY <1>1, GateInvariance, PTL DEF Spec, GrantsKeepPromises

(***************************************************************************)
(* A denial has a reason: another thread inside, or a lock somebody took   *)
(* that is active at the caller's time.                                    *)
(***************************************************************************)
THEOREM DenialsHaveAReason == Spec => BlocksForAReason
<1>1. GInv /\ [Next]_vars =>
        [\A t \in Threads :
           Decides(t, "Blocked") =>
             \/ \E u \in Threads \ {t} : calls[u].step \in Inside
             \/ Millis(calls[t].at) < Greater(record.lock_until_ms, own)]_vars
  BY BlockStep
<1> QED
  BY <1>1, GateInvariance, PTL DEF Spec, BlocksForAReason

-----------------------------------------------------------------------------
(***************************************************************************)
(* Refinement.                                                             *)
(***************************************************************************)
Owed == \E t \in Threads : calls[t].step = "committed"

LEMMA InitRefines == Init => Promise!Init
<1> SUFFICES ASSUME Init PROVE Promise!Init
  OBVIOUS
<1>1. record.lock_until_ms = 0 /\ promised = 0 /\ \A t \in Threads : calls[t].step # "committed"
  BY DEF Init, NoCall
<1> QED
  BY <1>1 DEF Promise!Init

\* A step is silent if it keeps the lock, the promise and every committed call.
LEMMA SilentStep ==
  ASSUME record'.lock_until_ms = record.lock_until_ms, promised' = promised,
         \A t \in Threads : calls'[t].step = "committed" <=> calls[t].step = "committed"
  PROVE  UNCHANGED Promise!gvars
<1>1. (\E t \in Threads : calls'[t].step = "committed")
        <=> \E t \in Threads : calls[t].step = "committed"
  OBVIOUS
<1> QED
  BY <1>1 DEF Promise!gvars

LEMMA OpeningSilent ==
  ASSUME Opening \/ Corrupt \/ Tick, GateTypeOK
  PROVE  UNCHANGED Promise!gvars
<1>1. calls' = calls /\ promised' = promised /\ record'.lock_until_ms = record.lock_until_ms
  BY DEF Opening, OpenRefused, OpenFindsNoDir, OpenFails, OpenRejected, Open, OpenLoadFails,
         Corrupt, Tick, durable, history, GateTypeOK
<1> QED
  BY <1>1, SilentStep

LEMMA EndRefines ==
  ASSUME End
  PROVE  [Promise!Next]_(Promise!gvars)
<1>1. /\ record' = record /\ promised' = promised
      /\ \A t \in Threads : calls'[t].step # "committed"
  BY DEF End, NoCall
<1>2. CASE Owed
  BY <1>1, <1>2 DEF Owed, Promise!Next, Promise!Lose
<1>3. CASE ~Owed
  BY <1>1, <1>3, SilentStep DEF Owed
<1> QED
  BY <1>2, <1>3

\* A lock that becomes durable, told to the caller or not.
LEMMA StoredRefines ==
  ASSUME GInv, NEW t \in Threads, calls[t].step = "staged", Stored(t), promised' = promised
  PROVE  Promise!Next
<1> DEFINE lock == LockFrom(calls[t].at)
           at == Millis(calls[t].at)
           window == Millis(gate.window)
<1>1. at >= record.lock_until_ms /\ held
  BY DEF GInv, CallOK
<1>2. window \in {Millis(cfg.window) : cfg \in GateConfigs}
  BY <1>1 DEF GInv, GateOK
<1>3. /\ lock \in U64 /\ at \in U64
      /\ lock = at + window \/ (at + window \notin U64 /\ \A i \in U64 : i <= lock)
  BY LockFromType, Fields DEF GInv
<1>4. record'.lock_until_ms = lock
  BY DEF Stored, GInv, GateTypeOK
<1> HIDE DEF lock, at, window
<1>5. \E a \in U64, w \in {Millis(cfg.window) : cfg \in GateConfigs} : Promise!Lock(a, w)
  BY <1>1, <1>2, <1>3, <1>4 DEF Promise!Lock
<1> QED
  BY <1>5 DEF Promise!Next

LEMMA GrantRefines ==
  ASSUME GInv, NEW t \in Threads, Grant(t)
  PROVE  Promise!Next
<1>1. /\ calls[t].step = "committed" /\ record' = record
      /\ promised' = record.lock_until_ms
  BY DEF Grant, GInv, CallOK, durable
<1>2. \A u \in Threads : calls'[u].step # "committed"
  BY <1>1 DEF Grant, Returns, NoCall, GInv, GateTypeOK, MutexExclusive, Inside
<1> QED
  BY <1>1, <1>2 DEF Promise!Next, Promise!Grant

\* The other steps of a thread neither take a lock nor tell of one.
LEMMA ThreadSilent ==
  ASSUME GateTypeOK, NEW t \in Threads, Ask(t) \/ Acquiring(t) \/ Disturbed(t),
         ~Commit(t), ~Grant(t), WriteFails(t) => UNCHANGED record
  PROVE  UNCHANGED Promise!gvars
<1>1. record' = record /\ promised' = promised
  BY DEF Ask, Acquiring, Disturbed, Contended, FindsPoison, DenyFromCache, Enter,
         DenyFromRecord, Stage, TxnFails, ReadFails, WriteFails, HoldInner,
         ReleaseInner, PanicInner, durable, history
<1>2. calls[t].step # "committed"
  BY DEF Ask, Acquiring, Disturbed, Contended, FindsPoison, DenyFromCache, Enter, CanEnter,
         DenyFromRecord, Stage, TxnFails, ReadFails, WriteFails, HoldInner,
         ReleaseInner, PanicInner
<1>3. calls'[t].step # "committed"
  BY DEF Ask, Acquiring, Disturbed, Contended, FindsPoison, DenyFromCache, Enter,
         DenyFromRecord, Stage, TxnFails, ReadFails, WriteFails, HoldInner, ReleaseInner,
         PanicInner, PersistErrorDecision, Returns, Proceeds, NoCall, GateTypeOK
<1> QED
  BY <1>1, <1>2, <1>3, OwnCallOnly, SilentStep

LEMMA StepRefines == GInv /\ [Next]_vars => [Promise!Next]_(Promise!gvars)
<1> SUFFICES ASSUME GInv, [Next]_vars PROVE [Promise!Next]_(Promise!gvars)
  OBVIOUS
<1>1. CASE Opening \/ Corrupt \/ Tick
  BY <1>1, OpeningSilent DEF GInv
<1>2. CASE End
  BY <1>2, EndRefines
<1>3. ASSUME NEW t \in Threads, Ask(t) \/ Acquiring(t) \/ Disturbed(t)
      PROVE  [Promise!Next]_(Promise!gvars)
  <2>1. CASE Commit(t)
    BY <2>1, StoredRefines DEF Commit, history
  <2>2. CASE Grant(t)
    BY <2>2, GrantRefines
  <2>3. CASE WriteFails(t) /\ Stored(t)
    BY <2>3, StoredRefines DEF WriteFails
  <2>4. CASE ~Commit(t) /\ ~Grant(t) /\ ~(WriteFails(t) /\ Stored(t))
    <3>1. WriteFails(t) => UNCHANGED record
      BY <2>4 DEF WriteFails
    <3> QED
      BY <1>3, <2>4, <3>1, ThreadSilent DEF GInv
  <2> QED
    BY <2>1, <2>2, <2>3, <2>4
<1>4. CASE UNCHANGED vars
  BY <1>4, SilentStep DEF vars
<1> QED
  BY <1>1, <1>2, <1>3, <1>4 DEF Next

(***************************************************************************)
(* The gate implements the abstract one: opens granted after a commit come *)
(* one at a time, each after the lock of the one before, and a lock whose  *)
(* caller never heard of it only costs a window.                           *)
(***************************************************************************)
THEOREM GateImplementsPromise == Spec => ImplementsGate
BY InitRefines, StepRefines, GateInvariance, PTL DEF Spec, ImplementsGate, Promise!Spec
=============================================================================
