# A TLA+ model of the rate limiter

This directory specifies the crate in TLA+ (the limiter, the table of operations in
flight, the durable open gate), checks it with TLC on small instances and proves the
central invariants and both refinements with TLAPS for every instance. Paths
such as `src/limiter.rs` are relative to the repository; `PROJECT.json` gives the
source lines of every definition.

## The system

The crate is a client-side rate limiter. A caller asks `try_acquire(route, cost,
now)`, gets a `Permit` or a denial with a wait, does its work, and finalizes the
permit with `commit(permit, outcome, now)` or `refund(permit, now)`. Nothing runs
in the background and nothing reads a clock: the caller passes `now`.

| Part | State | Operations | Model |
|---|---|---|---|
| Fixed window (`src/bucket.rs`) | `window_start`, `reserved`, `spent` | reserve, refund, commit, rollover | `FixedWindow` |
| Token bucket (`src/token_bucket.rs`) | `credits`, `in_flight`, `last_update` | refill, reserve, refund, commit, capacity change | `TokenBucket` |
| Bucket (`src/bucket.rs`) | one of the two, `blocked_until` | dispatch, backoff, configuration change | `Bucket` |
| Slow start (`src/slow_start.rs`) | none; from `started_at` and `now` | scaled limit, wait for a cost | `SlowStart` |
| Limiter (`src/limiter.rs`) | configuration, route map, buckets, fifo, global backoff | `try_acquire`, `commit`, `refund`, `apply_feedback`, `update_config(_unchecked)` | `RateLimiter` |
| `InFlightTable` (`src/in_flight.rs`) | live ids with payload, deadline and waiters; a heap of deadlines | begin, complete, expire, compaction | `InFlightTable`, abstractly `DedupTable` |
| `LimiterInFlight` (`src/in_flight.rs`) | a permit, its deadline, waiters | new, finalize, expire | `ClientServer` |
| `DurableOpenGate` (`src/durable_open_gate.rs`) | lock file, persisted record, cached lock, shared mutex | open, `try_acquire_open`, drop | `DurableOpenGate`, abstractly `OpenGate` |
| Test server (`tests/deterministic_server_model.rs`) | counts and blocks per key as the server sees them | decide, apply an outcome | `DeterministicServer` |
| Observer, clock, configuration builders, hash maps | nothing the limiter decides by | | see "Not modelled" |

How the parts interact. The limiter owns the buckets and calls them; a bucket
never calls back. `LimiterInFlight` carries one permit from `try_acquire` to the answer
or the deadline and then finalizes it with the limiter it is handed. `InFlightTable` is
separate: it deduplicates operations by id for its owner, who performs them. So is
`DurableOpenGate`: it guards one operation across threads, processes and restarts. The
server acts on the limiter only through the outcomes and feedback passed in.

What is hard. A call is one atomic step (`&mut self`), so the interleavings are
those of *callers*: a permit is held across any number of other calls, which roll
windows over, evict keys, remap routes, change the configuration or announce
backoffs before the permit comes back. A permit that no longer fits is dropped in
silence in a release build (`debug_assert!` in a debug build). The rest is
arithmetic at boundaries: windows closing, fractions of credits, ramps, widths. Between
limiter and server requests and answers take time or are lost, and each side counts by its
own clock reading. The in-flight table must not lose a deadline among stale heap items, nor
mistake an old item for a re-begun id. The gate is where a crash, an I/O error, a failed
commit, another thread or the next process can come between two steps of one call.
`PROJECT.json` lists these hazards line by line with the properties aimed at each.

What makes each part correct:

* window: no window hands out more than its maximum, over any mix of outcomes;
* pool: draws are bounded by capacity plus rate times time, rounding included;
* bucket: outstanding capacity is what open permits hold;
* limiter: open permits stay finalizable, backoffs are honoured, memory stays within
  `max_keys`, a denial's wait is enough and not longer than needed;
* slow start: grants stay within the scaled limit, and the wait is exact;
* in-flight table: a bounded heap that keeps every live deadline, waiters in one place
  and always drained, answers that reach those who asked;
* permits in flight: the server sees no more than the limits explain, and its blocks are
  heeded;
* gate: at most one recorded open per window, whatever crashes, and it reopens.

## Modules

```
Durations ── FixedWindow ─┐
         ├── TokenBucket ─┴─ Bucket ─┐
         ├── SlowStart ──────────────┴─ RateLimiter ─┬─ LimiterHistory
         │                                           ├─ RetryHints
         ├── DeterministicServer ────────────────────┴─ ClientServer
         ├── InFlightTable      implements DedupTable
         └── DurableOpenGate    implements OpenGate
BucketProofs (on Bucket) ── RateLimiterProofs (on RateLimiter) ─┬─ EvictionProofs
                                                                ├─ HistoryProofs (and LimiterHistory)
                                                                ├─ HintProofs (and RetryHints)
                                                                └─ ClientServerProofs (and ClientServer)
InFlightProofs (on InFlightTable)
OpenGateProofs (on DurableOpenGate)
MCLimiter, MCHistory, MCRetryHints, MCClientServer, MCOpenGate: values for TLC
```

* **Durations**: the numbers. A `Duration` is a natural number of ticks with
  `NanosPerSec` ticks to a second, saturating at `DurationMax`; counters saturate at
  `U32Max` and `U64Max`.
* **FixedWindow**, **TokenBucket**, **SlowStart**: pure operators over one state record,
  one per function of the source. A reservation answers with the state left behind,
  a reason and a wait, as the code's `Result` and `&mut self` do together.
* **Bucket**: an `AlgoState` is a record tagged `algo`; a configuration is tagged
  `kind`. `StateTryReserve`, `FinalizeState`, `RefundState` and `StateOnUpdate` have the
  arms of the code's `match`es, the mismatch arms too.
* **RateLimiter**: the state machine. `TryAcquire` is the whole of `try_acquire`: the
  global backoff, slow start's denial, the key bound with eviction, and the bucket's
  answer, in that order, each with the guard the earlier returns leave. `Commit`,
  `Refund`, `ApplyFeedback`, `UpdateConfig` and `UpdateConfigUnchecked` are one action
  each. `permits[c]` is the permit caller `c` holds, `reply` what the last call
  returned (the observer's reason and the wait). `Option`s: `blocked_until` and
  `global_blocked_until` are 0 for `None`, which behaves the same.
* **LimiterHistory**: adds what the limiter does not remember, the units granted per
  key and window (`charged`) and the backoffs announced (`promised`), and compares. Its
  updates (`HUpdateConfig`) are those that keep the algorithm and the window length, for which
  `update_config` and `update_config_unchecked` do the same. Disruptive updates, checked or
  unchecked, replace every bucket and are steps of `Spec` only, not of `HSpec`.
* **RetryHints**: adds the first wait each key was told and compares it with what a
  retry would get.
* **DeterministicServer**: the server of the tests, an independent implementation of the
  two algorithms: `Decide` for `decide`, `ApplyOutcome` for `apply_outcome`. The limiter is
  compared with it, not with itself.
* **ClientServer**: the limiter composed with that server. Each caller's permit travels in
  a `LimiterInFlight` (`flights[c]`): acquired, transmitted, arrived, answered; or not sent,
  lost, expired under either policy. `Arrive` is the server's half of `drive_trace`,
  `Answer` the limiter's, and between them any other step may come. The network is assumed to
  deliver a request before its deadline or not at all: the limiter gives up a permit at its
  deadline, so of requests that arrive later it promises nothing. `ServerLoadBounded` and
  `OnlyStragglersRejected` hold under this assumption.
* **DedupTable**, **InFlightTable**: what the table promises (entries by id, gone when
  completed or seen to be due), and how it does it, with sequence numbers and a heap that
  keeps stale items until it is rebuilt or cleared. A heap is a set of items here: its items
  differ in `seq`, and `expire` pops all that are due, so their order decides nothing but the
  order of the answer. The callers are part of the module: who begins an operation performs
  it, and its answer completes the *id*, in time, late or never.
* **OpenGate**, **DurableOpenGate**: what the gate promises (opens granted one after the
  other, each after the lock of the one before has run out; a lock may be taken and its
  grant lost), and how it does it. `try_acquire_open_fail_closed` is split into `Ask` (the
  caller reads its clock), `Contended` / `FindsPoison` / `DenyFromCache` / `Enter`,
  `DenyFromRecord` / `Stage`, `Commit` and `Grant`, with `TxnFails`, `ReadFails` and
  `WriteFails` at the points where an I/O error falls, and `End` (drop or crash) anywhere. A
  failed commit may or may not have become durable. `open` takes the lock file first and
  gives it back on any later failure, so it is one action per outcome. Threads share the
  gate behind the mutex; `HoldInner`, `ReleaseInner` and `PanicInner` are users of
  `shared_inner`. Only the process that holds the lock file has a gate, so `gate` is one
  variable, and a refused process leaves nothing behind.

Operators commented as a *mutant* are plausible mistakes (a dropped guard, a rounding
the other way). They model nothing; replacing the definition that follows them by one
must make a named property fail, which shows the property depends on that code.

### Faithfulness notes

* The model is a release build: where the source has `debug_assert!(false)` and then
  returns, the model returns. `TokenRefund` wraps, as an unchecked `u64` addition does.
* `remaining` of a feedback signal matters only when it is `Some(0)`: `exhausted`.
* `update_config_unchecked` documents that its caller finalizes all permits before a
  disruptive change; that condition is its guard.
* `now` is monotone, as the architecture document asks of the caller. `Tick` is the caller's
  clock, external to the crate's limiter, table and gate alike: each is handed `now`.
* `Permit::issued_at` and `deadline` are never read by the limiter and left out.
* u128 intermediate values are not truncated; the waits they produce are proved to fit.
* The table's heap limit is `HeapFactor` times the live entries plus `HeapSlack`, 4 and 64
  in the code; runs take 1 and 1, so that compaction happens with three operations.
* The gate counts whole milliseconds and the callers' clock is finer: `TicksPerMilli`.

## Runs

Passing runs (all exhaustive):

| Run | Question | Properties |
|---|---|---|
| `accounting` | Do windows, pools, their books, the ramp and backoffs survive any mix of outcomes, late finalizations and changed limits, and does rounding create credit? | `HistoryTypeOK`, `PermitsFinalizable`, `OutstandingIsHeld`, `RateBound`, `WindowBudget`, `RampBudget`, `BackoffHonoured` |
| `eviction` | Does eviction ever take a key with open permits, or lose step with the fifo or the bound? | `PermitsFinalizable`, `OutstandingIsHeld`, `FifoTracksBuckets`, `GrowthBounded` |
| `key_bound` | With keys refused at the bound and routes remapped, are backoffs and bounds kept? | `BackoffHonoured`, `GrowthBounded` |
| `update_config` | Does any update, at any moment, break the inductive invariant of the proofs? | `TypeOK`, `BucketsRunAlgorithm`, `PermitsFinalizable`, `OutstandingIsHeld` |
| `retry_hints` | Is the wait of a denial enough, no longer than needed, exact on a ramp, and when is it zero? | `HintTypeOK`, `WaitSufficesWhenIdle`, `WaitSufficesUnpolled`, `NoLongerThanNeeded`, `RampWaitExact`, `ZeroWaitsExplained` |
| `client_server` | What can delays, losses, expiries and refunds make the server see, and are its blocks heeded? | `CTypeOK`, `ServerLoadBounded`, `OnlyStragglersRejected`, `BlocksAreHeeded` |
| `in_flight` | Does the table keep every deadline and waiter through completions, expiries and compactions, and do answers reach those who asked? | `TableTypeOK`, `EntriesHaveTimers`, `HeapBounded`, `WaitersInOnePlace`, `AnswersReachTheirOwn`, `WaitersAreDrained`, `ImplementsDedup` |
| `open_gate` | Do opens keep the promises made, through crashes, I/O errors and contention, and does the gate reopen? | `GateTypeOK`, `RecordCoversPromises`, `GrantsKeepPromises`, `BlocksForAReason`, `GateReopens`, `ImplementsGate` |

Violated statements: each run checks what the documentation or a test says, and TLC shows
a behaviour of the code that contradicts it.

| Run | Statement | What happens |
|---|---|---|
| `eviction_forgets_backoff` | "Feedback backoff still takes precedence by denying until `blocked_until` is reached" (`docs/architecture/architecture.md:114`) | eviction spares keys with open permits, not blocked ones; the key returns with a new bucket and no backoff |
| `hint_lost_by_polling` | `retry_after` is "How long the caller should wait before retrying" (`src/types.rs:82`) | each poll drops the fraction of a credit earned since the last |
| `slow_start_pool_burst` | "`SlowStart` optionally scales the effective capacity during the first N seconds" (`architecture.md:108`) | a pool created during the ramp starts with the unscaled capacity |
| `refund_beyond_capacity` | "Client thought it was ok, but server rate-limited. This should only occur in tests designed to exercise feedback/backoff convergence" (`tests/deterministic_server_model.rs:291`) | a permit is refunded after its pool has refilled; credits and permits in flight exceed the capacity, and a server with equal limits turns a prompt request away |

Further observations, stated as premises or disjuncts of passing properties:

* `ZeroWaitsExplained` names the cases in which a denial asks for no wait, so that a
  caller who does as told spins: a window held open past its end by a permit
  (`src/bucket.rs:44`), and under slow start a cost above the configured limit once the ramp
  is over (`src/limiter.rs:484`) or a pool with nothing to scale.
* Key feedback that finds no room for its bucket is dropped (`src/limiter.rs:259`). Under a
  fixed bound the key stays out as well (`key_bound`); if the bound is raised before the
  backoff ends, it is let in early. That case is outside the run, whose bound is fixed, and
  outside `BackoffIsHonoured`, which assumes `BoundIsFixed`.
* `OnlyStragglersRejected`: with equal limits the server turns a request away only after a
  late arrival (the limiter charges a request to the window of its acquire, the server to
  that of its arrival), or after a refund as above. `ServerLoadBounded` bounds the damage to
  two windows' worth, of requests that arrive within their deadlines.
* `AnswersReachTheirOwn` holds as long as no answer is late: `complete` takes an id, not an
  operation, so one late answer takes the next operation's entry, and that operation's own
  answer the one after. No property covers what happens then; the hazard is listed without.
* `WaitSufficesUnpolled` is about pools nobody polls before the hinted time. What polling does
  to a hint is the violated `WaitSuffices` of `hint_lost_by_polling`.
* The gate's `open` opens the lock file inside a directory that it only creates afterwards
  (`src/durable_open_gate.rs:180`, `:199`), so it fails where there is no directory, although its
  doc says "Opens or creates" (`OpenFindsNoDir`).
* `write_txn` failing is an error to the caller also of a fail-open gate (`TxnFails`), every
  other failure is a grant there. Grants on memory alone are forgotten with the process.
* An attempt that finds the mutex taken is told `lock_until: now`, which is no lock's end.

### Bounds, and why they are enough

Two callers, one key where keys do not interact, two or three where they do; costs 1
and 2; windows of 2 or 3 ticks; limits of 1 to 3. `MaxTime` bounds the clock; the steps
of `Tick` may have any length, so windows are skipped as well as entered. The interesting
cases need: two permits on one key (late finalization beside an early one), three keys
for two places (an eviction with a choice), a window rolled over at least twice, a rate
that leaves fractions (3 credits per 2 ticks), one slower than a tick (1 per 2 ticks) and
one of 0. `U32Max`, `U64Max` and `DurationMax` are small but not reached by the limiter's runs
except where code returns `Duration::MAX`; what happens at the widths is left to the
proofs. `MaxSupply` stops changes of capacity once the credits supplied come to it.

* `client_server`: three permits on one key, deadlines of 3 and 5 ticks within 5, windows of
  2. A delayed request crosses at least two boundaries, and a permit of the first window is
  still open when the third begins; a limiter with maximum 2 meets a server with 1.
* `in_flight`: three ids for two places, three begins (`MaxBegins`), three waiters, deadlines
  1 and 2. An id is completed and begun again while its old item is in the heap; the heap
  passes its limit of `live + 1`, also without being emptied.
* `open_gate`: `MaxMishaps` is 2, an error or crash beside another; windows of 1 and 2
  milliseconds (of 3 and 4 ticks, so that a fraction is dropped) over 6 ticks; `U64Max` is 4,
  so that locks saturate; gates fail-closed and fail-open in turn on one record.

No state constraint is used. Deadlock is checked in every run. Symmetry over callers and
keys is sound: no property and no value names one of them; runs with liveness properties
use none.

### Fairness

The limiter's properties are safety properties and assume none. Waits are stated as
"due, hence would be granted", not as "eventually granted", so that no scheduling of
callers has to be assumed.

* `InFlightTable`: weak fairness of `Expire` and `Tick`. Time passes, and the owner calls
  `expire` again and again, as it must: the table has no thread of its own. Answers are not
  fair, they may never come.
* `DurableOpenGate`: weak fairness of `Open`, of each thread's `Ask`, of the steps of a call,
  of `ReleaseInner` and of `Tick`. A call runs to its end unless the process does, whoever
  holds the mutex lets go, time passes, and a process that uses the gate opens it and keeps
  asking. Errors and crashes are not fair, and there are `MaxMishaps` of them; `GateReopens`
  excludes, as `Healthy`, a missing directory, an unreadable record and a poisoned mutex,
  from which the code does not recover.

### Refinements

* `InFlightTable` implements `DedupTable` (`ImplementsDedup`): forget heap, sequence numbers
  and the order of waiters. In particular a call of `expire` removes exactly the entries that
  are due.
* `DurableOpenGate` implements `OpenGate` (`ImplementsGate`): the lock is the durable record,
  a grant is owed between `Commit` and `Grant`. Opens a fail-open gate grants without a record
  are no steps of the abstract gate; `GrantsKeepPromises` speaks of those.

## Proofs

TLAPS checks eight modules. Every theorem is about a module's own specification (`Spec`,
`HSpec`, `CSpec`, `TSpec`), for every value of its constants that satisfies the named assumptions; the
bounds are constants too.

| Module | Theorem | Says |
|---|---|---|
| `RateLimiterProofs` | `Invariance` | `Spec => []IInv` |
| | `TypeCorrect`, `PermitsStayFinalizable`, `BooksBalance`, `BucketsFollowConfig` | `TypeOK`, `PermitsFinalizable`, `OutstandingIsHeld`, `BucketsRunAlgorithm` |
| `EvictionProofs` | `FifoListsBuckets`, `MemoryIsBounded` | `FifoTracksBuckets`, `GrowthBounded` |
| `HistoryProofs` | `HistoryTyped`, `LongRunRate`, `WindowKeepsBudget`, `RampKeepsBudget`, `BackoffIsHonoured` | `HistoryTypeOK`, `RateBound`, `WindowBudget`, `RampBudget`, `BackoffHonoured` |
| `HintProofs` | `HintsWellFormed`, `WindowWaitSuffices`, `PoolWaitSuffices`, `WaitIsNecessary`, `RampWaitIsExact`, `NoWaitIsExplained` | `HintTypeOK`, `WaitSufficesWhenIdle`, `WaitSufficesUnpolled`, `NoLongerThanNeeded`, `RampWaitExact`, `ZeroWaitsExplained` |
| `ClientServerProofs` | `CompositionTyped`, `BackoffsAreHeeded`, `ServerSeesTwoWindows`, `OnlyStragglersTurnedAway` | `CTypeOK`, `BlocksAreHeeded`, `ServerLoadBounded`, `OnlyStragglersRejected` |
| | `ComposesLimiter` | `CSpec => Spec` |
| `InFlightProofs` | `TableTypeCorrect`, `NoTimerIsLost`, `HeapStaysBounded`, `AnswersFindTheirOwn` | `TableTypeOK`, `EntriesHaveTimers`, `HeapBounded`, `AnswersReachTheirOwn` |
| | `TableImplementsDedup` | `ImplementsDedup` |
| | `NobodyIsForgotten` | `WaitersInOnePlace` |
| `OpenGateProofs` | `GateTypeCorrect`, `PromisesAreRecorded`, `GrantsRespectLocks`, `DenialsHaveAReason` | `GateTypeOK`, `RecordCoversPromises`, `GrantsKeepPromises`, `BlocksForAReason` |
| | `GateImplementsPromise` | `ImplementsGate` |

### The limiter

Assumptions: `WidthAssumption` (a u64 count of credits, in seconds, fits a `Duration`; true
of Rust's types), `LimiterAssumption` (the constants have their types, `None` is no key) and
`PermitsFitAssumption` (finitely many callers, whose permits of at most `u32::MAX` units
together fit a u64). The last is needed: `in_flight` saturates, so the books of a pool
balance only while the permits open at once fit the counter. For windows it holds by itself,
`reserved` being bounded by the maximum.

None of the properties is inductive alone. `PermitsFinalizable` survives eviction and
rollover only because a key with an open permit has something outstanding, which is
`OutstandingIsHeld`; that in turn survives finalization only if the permit still matches its
bucket, which is `PermitsFinalizable`; both need the bucket to run the configured algorithm.
`IInv` is their conjunction with the types, and `KeyOK(k)` restates it key by key
(`InvByKey`), because an action disturbs one key, evicts at most one idle key (`PlaceEffect`)
and leaves the others (`OtherKey`). What is outstanding is compared with the cardinality of
the set of units held, so that granting adds and finalizing removes a set of `cost` units
(`UnitsOfGrant`, `UnitsOfFinalization`), without a recursive sum. `BucketProofs` says of each
bucket operation what it does to type, outstanding capacity, algorithm and window start; its
hardest leaves are the roundings (`DivBounds`, `DivCeilBounds`) behind the type of every wait.

Memory (`EvictionProofs`): `FifoOK` says that each tracked key has one place in the fifo;
then its length counts the buckets (`FifoCounts`). As far as keys go every step either leaves
them (`KeysStay`) or places one, with an eviction or without (`KeyPlaced`, `PlacedKeys`); an
eviction makes room for one key, an addition finds room, so neither grows past the bound
(`PlacedWithinBound`, `RemapWithinBound`). Keys need not be finite: the tracked ones are.

### The limiter with its history

`HSpec` is `Spec` with history variables and without disruptive updates; each of its steps is
one of `Spec` (`HistoryIsLimiter`), so `IInv` carries over.
`HInv` adds what ties the history to the state: a permit's units are charged to its own key
and, for a window, to one window only. On it rest three invariants:

* `BooksInv`. A window's counters are the units charged to it (under `ClockShortOfMax`, which is
  a premise of that conjunct), so its budget is what its maximum leaves; the *worth* of a pool (credits, what the elapsed time has yet to refill, and
  the fraction lost to rounding) is at most what capacity plus rate times time still entitles
  it to. Rounding goes one way: `refill` floors and moves `last_update` forward
  (`DivBelow`), so the long-run rate is never exceeded.
* the charges of a window never exceed the scaled limit at the time of the last grant, and
  that limit only grows; this is `RampBudget`.
* `PromisesInv`: a promised backoff that still runs is in the bucket or in the global
  backoff; this is `BackoffHonoured`.

The theorems name hypotheses where the property needs them, and each is needed:
`NeverEvicts` (`WindowBudget`, `RateBound`, `RampBudget`, `BackoffHonoured`: eviction forgets a
key's window, pool and backoff, see the run `eviction_forgets_backoff`), `ClockShortOfMax` (at
`Duration::MAX` the end of a window is the window's own start, and it is replaced by itself),
`BoundIsFixed` (feedback without room is dropped, and a bound raised later lets the key in) and
`OnlyWindowsRamp` (a pool starts with its unscaled capacity, see `slow_start_pool_burst`). The
values of the runs that check these properties satisfy them.

### The hints

`TInv` says that a hint speaks of a tracked key and a denial that has happened.
`WindowWaitSuffices` needs no hypothesis: `WindowInv` follows a hinted window until its end,
after which the retry opens a new one. `PoolInv` says that what the pool has and what it will
earn until the hinted time covers the cost (`EarnsBy`); the case that needs care is
a refund between hint and retry, which moves `last_update` and so drops a fraction of a credit,
and gives back at least one credit in exchange (`RefundEarns`). It assumes `RefundsFit`: the
capacity and one permit fit a u64, where `TokenRefund` would wrap. `TightInv` says that until
the hinted time the pool stays short of the cost (`ShortUntil`, `NotEarnedBefore`) unless
capacity came back, and a window stays closed; it assumes `NeverEvicts`, as a key that returns
after eviction is let in early. `RampInv` carries the ramp's wait, whose ceiling is exact
(`RampReaches`). `NoWaitIsExplained` assumes `ClockShortOfMax`.

### The limiter and its server

`CInv` is `IInv` with the types of server and flights; every step of the composition is a step
of the limiter or leaves it alone (`ComposesLimiter`), so `IInv` carries over. `StepShapes` sorts
the steps: an acquisition, a flight that moves, a flight that ends, a tick. On `CInv` rest four
invariants, one for each question:

* `HeedInv`, for `BlocksAreHeeded`: a block the limiter has been told of is over or still in its
  bucket, and the block a rejection on its way back stands for ends no later than the wait it
  announces, counted from any later time.
* `WindowInv`, for `ServerLoadBounded`. `Due(k)` counts the units that may still arrive. While
  the server's window is the limiter's or a later one, what it has counted and what is due fit
  in what the limiter's window has in use (`Covers`), plus one maximum when units of an earlier
  window arrived in the same window: nothing arrives that was not reserved, and the limiter keeps
  its window, with one maximum in use at most, until nothing of it is reserved. Windows of equal
  length are the same or a whole length apart (`AlignedApart`), so no third one is added.
* `BlockInv`, for windows in `OnlyStragglersRejected`: in a server's window without late
  arrivals no key is blocked past the window's start.
* `PoolInv`, for pools. The server's pool is *ahead* of the limiter's (`Ahead`): it has at least as
  many credits now and at every later time, and holds what the permits issued at this instant
  will draw (`Prompt`). Both sides floor what they refill, at different times: refilling twice
  never gives more than refilling once (`GainFacts`, `HasFacts`), and when a prompt arrival refills
  the server's, the limiter's has been refilled in the same instant. Slow start only lowers what
  the limiter refills.

Hypotheses: `NeverEvicts` throughout, since an evicted bucket takes its backoff, its window and
its deficit with it; `ClockShortOfMax` where windows count, as for the history; and, for
`ServerSeesTwoWindows`, `SameWindows`: a server whose window is longer than the limiter's sees
more than two of them. The run `client_server` satisfies all three.

### The table

Assumption: `TableAssumption`; in particular no more than 2^64 operations are begun
(`MaxBegins` is a u64), after which `seq` would wrap. `TInv` adds to the properties that a
heap item which passes for current says what the entry says (`ItemsMatch`): a stale item of
a completed id can be popped at any time, and what keeps it from expiring the id's next entry
is that numbers only grow. `OperationsHaveEntries` says that, while no answer has been late,
an operation in time still owns the entry it began, which makes its answer reach the right
waiters and lets no entry expire early. `DrainInv` covers completion and expiry together.
`WInv`, on top of it, gives each waiter exactly one place.

The refinement maps each step to begin, join, complete or expire of `DedupTable`, or to a
stutter when an answer finds nothing; `ExpireRefines` is the substance: what is popped from
the heap and current is exactly what is due.

### The gate

Assumption: `GateAssumption` (milliseconds of a u64 fit a `Duration`). `GInv` adds to the
types that at most one thread is inside the mutex (`MutexExclusive`), that what a call has
found out stays true until it acts on it (`CallOK`: the cache and the record it compared
itself with do not move behind its back, and after the commit the record is its own lock),
and that the cache lies between the gate's own lock and a lock somebody took (`GateOK`).
`OtherCallsStay` and `OthersAreOutside` separate the thread that moves from the rest;
`FailureInv` covers a failed read and a failed write, durable or not. Any time a caller may
have read, however stale, is allowed for.

The refinement: `Commit` and a failed write that became durable after all map to taking the
lock, `Grant` to granting it, an end between the two to losing it, the rest to stutters.

### Only model-checked

The liveness properties `WaitersAreDrained` and `GateReopens`: liveness under fairness is out of
the prover's reach. Statements by induction over recursive definitions would be too, but none is
used here.

## Not modelled, and why

* Observer callbacks: a denial's reason is kept in `reply`; events change nothing.
* `ManualClock`, `SystemClock` and the `Clock` trait: they hold or read a time, and nothing in
  the crate calls them. `ManualClock::set` may go back; `Tick`, the caller's clock, may not.
* Configuration builders: their one check (a window is not zero) is a type here.
* Hash maps: finite functions, as the code never depends on their order.
* `LimiterInFlight::join` and `complete(self)`: lists of waiters, which `InFlightTable`
  models; `complete` also drops the permit, which then is held for good. No property speaks of
  that.
* The gate's statistics: nothing is decided by them. LMDB and the lock file are modelled as
  the code uses them: transactions are atomic, an exclusive lock ends with its process.
* The server's global block: `decide` only ever announces blocks of a key.
* Refunds of a pool at the very end of `u64`, a clock that starts before `started_at`, and
  waits of `Duration::MAX` while a ramp's rate rounds to zero: see the notes in the list of
  hazards.

## Plan

Done: every component that changes state, the composition with the server, two refinements
with their proofs, liveness of table and gate, the invariants of limiter, eviction, table,
waiters and gate, the budgets, rates, backoffs and waits of the limiter, and what the server sees
of it.

Next: dropping hypotheses where they are stronger than the argument needs. `NeverEvicts` asks
that no key is ever evicted; that the key in question is not would do.

## Running

```
tlc -config accounting.cfg MCHistory     # the module of each run is in PROJECT.json
tlapm EvictionProofs.tla                 # and BucketProofs, RateLimiterProofs, HistoryProofs,
                                         # HintProofs, ClientServerProofs, InFlightProofs,
                                         # OpenGateProofs
```
