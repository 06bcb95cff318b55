--------------------------- MODULE DurableOpenGate ---------------------------
(***************************************************************************)
(* The durable open gate: one process at a time holds the lock file and a  *)
(* gate; its threads share the gate behind a mutex they only try; a record *)
(* in LMDB survives the process.  try_acquire_open is split where a crash, *)
(* an I/O error or another thread can come in between.  Which process it   *)
(* is makes no difference, so only the holder's gate is there.             *)
(*                                                                         *)
(* Times are ticks, TicksPerMilli to a millisecond; the gate stores whole  *)
(* milliseconds.  Statistics are left out: nothing is decided by them.     *)
(***************************************************************************)
EXTENDS Durations

CONSTANTS
  Threads,        \* of the process that holds the lock file
  TicksPerMilli,
  GateConfigs,    \* configurations processes open the gate with
  MaxTime,        \* bound: the clock stops here
  MaxMishaps      \* bound: I/O errors, ends, panics and outside holders

DurableOpenGateConfig == [window : Duration, fail_closed : BOOLEAN]

ASSUME GateAssumption ==
  /\ TicksPerMilli \in Nat \ {0}
  /\ U64Max * TicksPerMilli <= DurationMax
  /\ GateConfigs \subseteq DurableOpenGateConfig
  /\ MaxTime \in Duration
  /\ MaxMishaps \in Nat

\* A step of a call: waiting to try the mutex, or inside it.  "holding" is a
\* thread that locked the mutex itself, through shared_inner.
Inside == {"checked", "staged", "committed", "holding"}
Steps == {"idle", "asking"} \cup Inside

Gate == [window : Duration, fail_closed : BOOLEAN, cached_lock_until_ms : U64, poisoned : BOOLEAN]

NoGate ==
  [window |-> 0, fail_closed |-> TRUE, cached_lock_until_ms |-> 0, poisoned |-> FALSE]

NoCall == [step |-> "idle", at |-> 0]

\* OpenGateDecision and DurableOpenGateError; lock_until is a decision's.
Replies ==
  {"None", "Opened", "AlreadyLocked", "InvalidConfig", "NotFound", "Error",
   "Allowed", "Blocked", "LockPoisoned"}

VARIABLES
  dir_exists,  \* the directory of the gate
  held,        \* some process holds the lock file, and `gate`
  record,      \* what LMDB stores; a missing record reads as 0
  gate,        \* the holder's gate
  calls,       \* [Threads -> step of the call, and the time the caller read]
  reply,       \* what the last call returned
  now,         \* the callers' clock
  mishaps,     \* how many there were
  promised,    \* history: the lock of the last open granted after a commit
  own          \* history: the last lock this gate granted, recorded or not

durable == <<dir_exists, held, record>>
history == <<promised, own>>
vars == <<dir_exists, held, record, gate, calls, reply, now, mishaps, promised, own>>

Init ==
  /\ dir_exists \in BOOLEAN
  /\ held = FALSE
  /\ record = [lock_until_ms |-> 0, readable |-> TRUE]
  /\ gate = NoGate
  /\ calls = [t \in Threads |-> NoCall]
  /\ reply = [kind |-> "None", lock_until |-> 0]
  /\ now = 0
  /\ mishaps = 0
  /\ promised = 0
  /\ own = 0

Mishap == mishaps < MaxMishaps /\ mishaps' = mishaps + 1

\* duration_to_millis drops the fraction; millis_to_duration.
Millis(d) == Lesser(d \div TicksPerMilli, U64Max)
FromMillis(ms) == ms * TicksPerMilli

\* Mutant: an unchecked addition.
LockFromUnchecked(at) == Millis(at) + Millis(gate.window)

LockFrom(at) == SatAdd(Millis(at), Millis(gate.window), U64Max)

Replied(kind, lock_until) == reply' = [kind |-> kind, lock_until |-> lock_until]

Returns(t, kind, lock_until) ==
  /\ calls' = [calls EXCEPT ![t] = NoCall]
  /\ Replied(kind, lock_until)

Proceeds(t, step) == calls' = [calls EXCEPT ![t].step = step] /\ UNCHANGED reply

MutexHeld == \E t \in Threads : calls[t].step \in Inside

-----------------------------------------------------------------------------
(***************************************************************************)
(* open.  The lock file is taken first and given back when a later step    *)
(* fails, so only its outcome is seen by others.                           *)
(***************************************************************************)
OpenRefused ==
  /\ held
  /\ Replied("AlreadyLocked", 0)
  /\ UNCHANGED <<durable, gate, calls, now, mishaps, history>>

\* The lock file is opened in a directory that open only creates afterwards: a
\* gate cannot be opened at a path that is not there, whatever its doc says.
OpenFindsNoDir ==
  /\ ~held
  /\ ~dir_exists
  /\ Replied("NotFound", 0)
  /\ UNCHANGED <<durable, gate, calls, now, mishaps, history>>

\* A map of less than 1 MiB is refused in the same way and left out.
OpenRejected(cfg) ==
  /\ ~held /\ dir_exists
  /\ cfg.window = 0
  /\ Replied("InvalidConfig", 0)
  /\ UNCHANGED <<durable, gate, calls, now, mishaps, history>>

Opened(cfg, cached) ==
  /\ held' = TRUE
  /\ gate' = [window |-> cfg.window, fail_closed |-> cfg.fail_closed,
              cached_lock_until_ms |-> cached, poisoned |-> FALSE]
  /\ Replied("Opened", 0)

Open(cfg) ==
  /\ ~held /\ dir_exists
  /\ cfg.window # 0
  /\ record.readable
  /\ Opened(cfg, record.lock_until_ms)
  /\ UNCHANGED <<dir_exists, record, calls, now, mishaps, history>>

\* The environment or the database cannot be opened.
OpenFails ==
  /\ ~held /\ dir_exists
  /\ Mishap
  /\ Replied("Error", 0)
  /\ UNCHANGED <<durable, gate, calls, now, history>>

\* load_lock_until_ms fails: fail-closed gives up, fail-open starts without a cache.
OpenLoadFails(cfg) ==
  /\ ~held /\ dir_exists
  /\ cfg.window # 0
  /\ \/ ~record.readable /\ UNCHANGED mishaps
     \/ Mishap
  /\ IF cfg.fail_closed
     THEN Replied("Error", 0) /\ UNCHANGED <<held, gate>>
     ELSE Opened(cfg, 0)
  /\ UNCHANGED <<dir_exists, record, calls, now, history>>

-----------------------------------------------------------------------------
(***************************************************************************)
(* try_acquire_open_fail_closed: the caller reads its clock, tries the     *)
(* mutex, and goes on into try_acquire_open.                               *)
(***************************************************************************)
Ask(t) ==
  /\ held
  /\ calls[t].step = "idle"
  /\ calls' = [calls EXCEPT ![t] = [step |-> "asking", at |-> now]]
  /\ UNCHANGED <<durable, gate, reply, now, mishaps, history>>

Contended(t) ==
  /\ calls[t].step = "asking"
  /\ MutexHeld
  /\ Returns(t, "Blocked", calls[t].at)
  /\ UNCHANGED <<durable, gate, now, mishaps, history>>

FindsPoison(t) ==
  /\ calls[t].step = "asking"
  /\ ~MutexHeld /\ gate.poisoned
  /\ Returns(t, "LockPoisoned", 0)
  /\ UNCHANGED <<durable, gate, now, mishaps, history>>

CanEnter(t) == calls[t].step = "asking" /\ ~MutexHeld /\ ~gate.poisoned

\* Mutant: a denied attempt starts the window over.
DenyAndExtend(t) ==
  /\ CanEnter(t)
  /\ Millis(calls[t].at) < gate.cached_lock_until_ms
  /\ gate' = [gate EXCEPT !.cached_lock_until_ms = LockFrom(calls[t].at)]
  /\ Returns(t, "Blocked", FromMillis(gate.cached_lock_until_ms))
  /\ UNCHANGED <<durable, now, mishaps, history>>

\* The hot path: a cached lock denies without touching LMDB.
DenyFromCache(t) ==
  /\ CanEnter(t)
  /\ Millis(calls[t].at) < gate.cached_lock_until_ms
  /\ Returns(t, "Blocked", FromMillis(gate.cached_lock_until_ms))
  /\ UNCHANGED <<durable, gate, now, mishaps, history>>

Enter(t) ==
  /\ CanEnter(t)
  /\ Millis(calls[t].at) >= gate.cached_lock_until_ms
  /\ Proceeds(t, "checked")
  /\ UNCHANGED <<durable, gate, now, mishaps, history>>

\* write_txn fails: the error goes to the caller, also of a fail-open gate.
TxnFails(t) ==
  /\ calls[t].step = "checked"
  /\ Mishap
  /\ Returns(t, "Error", 0)
  /\ UNCHANGED <<durable, gate, now, history>>

\* Mutants: a lock granted on memory alone is not remembered; a denied attempt
\* is cached as if it had been granted.
PersistErrorUncached(t) ==
  IF gate.fail_closed
  THEN /\ Returns(t, "Error", 0)
       /\ UNCHANGED <<gate, own>>
  ELSE /\ own' = LockFrom(calls[t].at)
       /\ Returns(t, "Allowed", FromMillis(LockFrom(calls[t].at)))
       /\ UNCHANGED gate

PersistErrorCachesDenial(t) ==
  /\ gate' = [gate EXCEPT !.cached_lock_until_ms = LockFrom(calls[t].at)]
  /\ IF gate.fail_closed
     THEN /\ Returns(t, "Error", 0)
          /\ UNCHANGED own
     ELSE /\ own' = LockFrom(calls[t].at)
          /\ Returns(t, "Allowed", FromMillis(LockFrom(calls[t].at)))

\* persist_error_decision: a fail-open gate grants on its memory alone.
PersistErrorDecision(t) ==
  IF gate.fail_closed
  THEN /\ Returns(t, "Error", 0)
       /\ UNCHANGED <<gate, own>>
  ELSE /\ gate' = [gate EXCEPT !.cached_lock_until_ms = LockFrom(calls[t].at)]
       /\ own' = LockFrom(calls[t].at)
       /\ Returns(t, "Allowed", FromMillis(LockFrom(calls[t].at)))

ReadFails(t) ==
  /\ calls[t].step = "checked"
  /\ \/ ~record.readable /\ UNCHANGED mishaps
     \/ Mishap
  /\ PersistErrorDecision(t)
  /\ UNCHANGED <<durable, now, promised>>

\* Mutant: the record is not consulted, only what this gate remembers.
CachedLock == gate.cached_lock_until_ms

EffectiveLock == Greater(gate.cached_lock_until_ms, record.lock_until_ms)

DenyFromRecord(t) ==
  /\ calls[t].step = "checked"
  /\ record.readable
  /\ Millis(calls[t].at) < EffectiveLock
  /\ gate' = [gate EXCEPT !.cached_lock_until_ms = EffectiveLock]
  /\ Returns(t, "Blocked", FromMillis(EffectiveLock))
  /\ UNCHANGED <<durable, now, mishaps, history>>

Stage(t) ==
  /\ calls[t].step = "checked"
  /\ record.readable
  /\ Millis(calls[t].at) >= EffectiveLock
  /\ Proceeds(t, "staged")
  /\ UNCHANGED <<durable, gate, now, mishaps, history>>

Stored(t) == record' = [record EXCEPT !.lock_until_ms = LockFrom(calls[t].at)]

\* Encoding, put or commit fails; a failed commit may have become durable.
WriteFails(t) ==
  /\ calls[t].step = "staged"
  /\ Mishap
  /\ Stored(t) \/ UNCHANGED record
  /\ PersistErrorDecision(t)
  /\ UNCHANGED <<dir_exists, held, now, promised>>

\* Mutant: the transaction is left to its drop, which aborts it.
CommitNothing(t) ==
  /\ calls[t].step = "staged"
  /\ Proceeds(t, "committed")
  /\ UNCHANGED <<durable, gate, now, mishaps, history>>

Commit(t) ==
  /\ calls[t].step = "staged"
  /\ Stored(t)
  /\ Proceeds(t, "committed")
  /\ UNCHANGED <<dir_exists, held, gate, now, mishaps, history>>

Grant(t) ==
  LET lock == LockFrom(calls[t].at) IN
  /\ calls[t].step = "committed"
  /\ gate' = [gate EXCEPT !.cached_lock_until_ms = lock]
  /\ Returns(t, "Allowed", FromMillis(lock))
  /\ promised' = lock
  /\ own' = lock
  /\ UNCHANGED <<durable, now, mishaps>>

-----------------------------------------------------------------------------
(***************************************************************************)
(* The surroundings: the shared mutex in other hands, the process's end at *)
(* any step (drop or crash: the system gives the lock file back), a record *)
(* that cannot be decoded, the clock.                                      *)
(***************************************************************************)
HoldInner(t) ==
  /\ held
  /\ calls[t].step = "idle"
  /\ ~MutexHeld /\ ~gate.poisoned
  /\ Mishap
  /\ Proceeds(t, "holding")
  /\ UNCHANGED <<durable, gate, now, history>>

ReleaseInner(t) ==
  /\ calls[t].step = "holding"
  /\ Proceeds(t, "idle")
  /\ UNCHANGED <<durable, gate, now, mishaps, history>>

PanicInner(t) ==
  /\ calls[t].step = "holding"
  /\ gate' = [gate EXCEPT !.poisoned = TRUE]
  /\ Proceeds(t, "idle")
  /\ UNCHANGED <<durable, now, mishaps, history>>

End ==
  /\ held
  /\ Mishap
  /\ held' = FALSE
  /\ gate' = NoGate
  /\ calls' = [t \in Threads |-> NoCall]
  /\ own' = 0
  /\ UNCHANGED <<dir_exists, record, reply, now, promised>>

Corrupt ==
  /\ record.readable
  /\ Mishap
  /\ record' = [record EXCEPT !.readable = FALSE]
  /\ UNCHANGED <<dir_exists, held, gate, calls, reply, now, history>>

Tick ==
  /\ now' \in (now + 1)..MaxTime
  /\ UNCHANGED <<durable, gate, calls, reply, mishaps, history>>

-----------------------------------------------------------------------------
Opening ==
  \/ OpenRefused
  \/ OpenFindsNoDir
  \/ OpenFails
  \/ \E cfg \in GateConfigs : OpenRejected(cfg) \/ Open(cfg) \/ OpenLoadFails(cfg)

\* Steps of a call that need no luck and no mishap.
Acquiring(t) ==
  \/ Contended(t)
  \/ FindsPoison(t)
  \/ DenyFromCache(t)
  \/ Enter(t)
  \/ DenyFromRecord(t)
  \/ Stage(t)
  \/ Commit(t)
  \/ Grant(t)

Disturbed(t) ==
  \/ TxnFails(t)
  \/ ReadFails(t)
  \/ WriteFails(t)
  \/ HoldInner(t)
  \/ ReleaseInner(t)
  \/ PanicInner(t)

Next ==
  \/ Opening
  \/ \E t \in Threads : Ask(t) \/ Acquiring(t) \/ Disturbed(t)
  \/ End
  \/ Corrupt
  \/ Tick

(***************************************************************************)
(* A process that uses the gate opens it and asks again and again; calls   *)
(* run to their end, holders of the mutex let go, and time passes.         *)
(***************************************************************************)
Fairness ==
  /\ WF_vars(\E cfg \in GateConfigs : Open(cfg))
  /\ \A t \in Threads : WF_vars(Ask(t)) /\ WF_vars(Acquiring(t)) /\ WF_vars(ReleaseInner(t))
  /\ WF_vars(Tick)

Spec == Init /\ [][Next]_vars /\ Fairness

-----------------------------------------------------------------------------
GateTypeOK ==
  /\ dir_exists \in BOOLEAN
  /\ held \in BOOLEAN
  /\ record \in [lock_until_ms : U64, readable : BOOLEAN]
  /\ gate \in Gate
  /\ calls \in [Threads -> [step : Steps, at : Duration]]
  /\ reply \in [kind : Replies, lock_until : Duration]
  /\ now \in Duration
  /\ mishaps \in Nat
  /\ promised \in U64
  /\ own \in U64

(***************************************************************************)
(* The durable record covers every open that was granted after a commit,   *)
(* so that a crash at any later moment cannot forget it.                   *)
(***************************************************************************)
RecordCoversPromises == promised <= record.lock_until_ms

\* The call of t returns with this kind of reply.
Decides(t, kind) ==
  /\ calls[t].step \notin {"idle", "holding"}
  /\ calls'[t].step = "idle"
  /\ held'
  /\ reply'.kind = kind

(***************************************************************************)
(* No open is granted before the lock this gate granted last has run out;  *)
(* a fail-closed gate also keeps every recorded promise of any process     *)
(* before it, through crashes, failed loads, failed commits and stale      *)
(* clock readings.                                                         *)
(***************************************************************************)
GrantsKeepPromises ==
  [][\A t \in Threads :
       Decides(t, "Allowed") =>
         /\ Millis(calls[t].at) >= own
         /\ gate.fail_closed => Millis(calls[t].at) >= promised]_vars

(***************************************************************************)
(* An attempt is blocked only by a lock somebody took and that is active   *)
(* at the caller's time, or because another thread is inside: an attempt   *)
(* that failed leaves no lock of its own behind.                           *)
(***************************************************************************)
BlocksForAReason ==
  [][\A t \in Threads :
       Decides(t, "Blocked") =>
         \/ \E u \in Threads \ {t} : calls[u].step \in Inside
         \/ Millis(calls[t].at) < Greater(record.lock_until_ms, own)]_vars

\* No lock is active for a caller that reads its clock now.
GateFree == Millis(now) >= Greater(record.lock_until_ms, own)

Healthy == dir_exists /\ record.readable /\ ~gate.poisoned

(***************************************************************************)
(* The gate reopens: unless the record is unreadable or a thread panicked  *)
(* inside the mutex, a gate whose lock has run out is taken again, whatever *)
(* crashes, I/O errors and contention went before.                         *)
(***************************************************************************)
GateReopens == []Healthy => (GateFree ~> ~GateFree)

(***************************************************************************)
(* The gate implements the abstract one, for opens granted after a commit. *)
(***************************************************************************)
Promise ==
  INSTANCE OpenGate WITH
    Instants <- U64,
    Windows <- {Millis(cfg.window) : cfg \in GateConfigs},
    locked_until <- record.lock_until_ms,
    granted_until <- promised,
    owed <- \E t \in Threads : calls[t].step = "committed"

ImplementsGate == Promise!Spec
=============================================================================
