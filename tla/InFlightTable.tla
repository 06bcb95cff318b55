---------------------------- MODULE InFlightTable ----------------------------
(***************************************************************************)
(* The table of operations in flight, with the callers that use it.  A     *)
(* caller's begin either starts an operation, which the caller then        *)
(* performs, or joins one; the answer to an operation completes its id,    *)
(* at any time or never; the owner expires what is overdue.  The heap is   *)
(* the set of its items (no two have the same seq), emptied of stale ones  *)
(* only now and then.                                                      *)
(***************************************************************************)
EXTENDS Durations, FiniteSets, Sequences, SequencesExt

CONSTANTS
  Ids,
  Fingerprints,
  Waiters,      \* each waits for one answer at a time
  Deadlines,    \* deadlines callers pass to begin
  MaxInFlight,  \* max_in_flight of new
  HeapFactor,   \* the heap is rebuilt when longer than HeapFactor times the
  HeapSlack,    \* live entries plus HeapSlack: 4 and 64 in the code
  MaxTime,      \* bound: the clock stops here
  MaxBegins     \* bound: operations begun; the code's seq wraps after 2^64

ASSUME TableAssumption ==
  /\ Deadlines \subseteq 0..MaxTime
  /\ MaxTime \in Duration
  /\ MaxInFlight \in Nat /\ HeapFactor \in Nat \ {0} /\ HeapSlack \in Nat
  /\ MaxBegins \in U64

EntryState == [fp : Fingerprints, deadline : Deadlines, waiters : Seq(Waiters), seq : U64]
HeapItem == [deadline : Deadlines, seq : U64, id : Ids]
Operation == [id : Ids, fp : Fingerprints, seq : U64, deadline : Deadlines]

VARIABLES
  map,      \* [the live ids -> EntryState]
  heap,     \* a set of HeapItem
  seq,      \* the number of the last entry
  now,
  ops,      \* history: operations callers were told to perform, unanswered
  waiting,  \* history: [the waiters begin took in, not drained since -> id and payload]
  late      \* history: some answer came at or after its operation's deadline

table == <<map, heap, seq>>
vars == <<map, heap, seq, now, ops, waiting, late>>

Nothing == [x \in {} |-> {}]

Init ==
  /\ map = Nothing
  /\ heap = {}
  /\ seq = 0
  /\ now = 0
  /\ ops = {}
  /\ waiting = Nothing
  /\ late = FALSE

Without(f, xs) == Restrict(f, DOMAIN f \ xs)

Insert(f, x, value) == [y \in DOMAIN f \cup {x} |-> IF y = x THEN value ELSE f[y]]

-----------------------------------------------------------------------------
(***************************************************************************)
(* The heap.                                                               *)
(***************************************************************************)
ItemOf(entries, id) == [deadline |-> entries[id].deadline, seq |-> entries[id].seq, id |-> id]

CompactHeap(entries) == {ItemOf(entries, id) : id \in DOMAIN entries}

HeapLimit(live) == live * HeapFactor + HeapSlack

\* Mutant: a heap that has grown too large is cleared, not rebuilt.
ClearLargeHeap(items, entries) ==
  IF DOMAIN entries = {} \/ Cardinality(items) > HeapLimit(Cardinality(DOMAIN entries))
  THEN {} ELSE items

MaybeCompactHeap(items, entries) ==
  IF DOMAIN entries = {} THEN {}
  ELSE IF Cardinality(items) > HeapLimit(Cardinality(DOMAIN entries)) THEN CompactHeap(entries)
  ELSE items

NextSeq == (seq + 1) % (U64Max + 1)

-----------------------------------------------------------------------------
(***************************************************************************)
(* begin.                                                                  *)
(***************************************************************************)
\* Mutant: one entry too many.
HasSpaceAtLimit == Cardinality(DOMAIN map) <= MaxInFlight

HasSpace == Cardinality(DOMAIN map) < MaxInFlight

Waits(w, id, fp) == waiting' = Insert(waiting, w, [id |-> id, fp |-> fp])

BeginNew(id, fp, deadline, w) ==
  LET entry == [fp |-> fp, deadline |-> deadline, waiters |-> <<w>>, seq |-> NextSeq]
      entries == Insert(map, id, entry)
  IN  /\ id \notin DOMAIN map
      /\ HasSpace
      /\ seq < MaxBegins
      /\ map' = entries
      /\ heap' = MaybeCompactHeap(heap \cup {ItemOf(entries, id)}, entries)
      /\ seq' = NextSeq
      /\ ops' = ops \cup {[id |-> id, fp |-> fp, seq |-> NextSeq, deadline |-> deadline]}
      /\ Waits(w, id, fp)
      /\ UNCHANGED <<now, late>>

\* Mutant: the waiter that was stored inline is lost.
JoinForgettingFirst(id, fp, w) ==
  /\ id \in DOMAIN map /\ map[id].fp = fp
  /\ map' = [map EXCEPT ![id].waiters = Append(Tail(@), w)]
  /\ Waits(w, id, fp)
  /\ UNCHANGED <<heap, seq, now, ops, late>>

\* The deadline the joining caller passes is not looked at.
BeginJoined(id, fp, w) ==
  /\ id \in DOMAIN map /\ map[id].fp = fp
  /\ map' = [map EXCEPT ![id].waiters = Append(@, w)]
  /\ Waits(w, id, fp)
  /\ UNCHANGED <<heap, seq, now, ops, late>>

\* PayloadMismatch and TableFull: the caller is turned away.
BeginRefused(id, fp) ==
  /\ \/ id \in DOMAIN map /\ map[id].fp # fp
     \/ id \notin DOMAIN map /\ ~HasSpace
  /\ UNCHANGED vars

Begin(id, fp, deadline, w) ==
  /\ w \notin DOMAIN waiting
  /\ BeginNew(id, fp, deadline, w) \/ BeginJoined(id, fp, w) \/ BeginRefused(id, fp)

-----------------------------------------------------------------------------
(***************************************************************************)
(* complete and expire.                                                    *)
(***************************************************************************)
\* The entries of ids are removed and their waiters answered.
Drained(ids) ==
  /\ map' = Without(map, ids)
  /\ waiting' = Without(waiting, UNION {ToSet(map[id].waiters) : id \in ids})

\* Mutant: only begin and expire tidy the heap.
CompleteUncompacted(id) ==
  /\ Drained({id} \cap DOMAIN map)
  /\ UNCHANGED <<heap, seq>>

Complete(id) ==
  /\ Drained({id} \cap DOMAIN map)
  /\ heap' = MaybeCompactHeap(heap, map')
  /\ UNCHANGED seq

\* The answer to an operation completes the id, whosever entry it now is.
Answer(op) ==
  /\ op \in ops
  /\ Complete(op.id)
  /\ ops' = ops \ {op}
  /\ late' = (late \/ now >= op.deadline)
  /\ UNCHANGED now

Due == {item \in heap : item.deadline <= now}

\* Mutant: an item that comes due takes the entry of its id, whichever that is.
IsAnyEntry(item) == item.id \in DOMAIN map

IsCurrent(item) == item.id \in DOMAIN map /\ map[item.id].seq = item.seq

\* expire pops all that is due; stale items pass without effect.
Expire ==
  /\ Drained({item.id : item \in {i \in Due : IsCurrent(i)}})
  /\ heap' = MaybeCompactHeap(heap \ Due, map')
  /\ UNCHANGED <<seq, now, ops, late>>

Tick ==
  /\ now' \in (now + 1)..MaxTime
  /\ UNCHANGED <<table, ops, waiting, late>>

-----------------------------------------------------------------------------
Next ==
  \/ \E id \in Ids, fp \in Fingerprints, d \in Deadlines, w \in Waiters : Begin(id, fp, d, w)
  \/ \E op \in ops : Answer(op)
  \/ Expire
  \/ Tick

\* The owner's part: expire is called again and again while time passes.
Fairness == WF_vars(Expire) /\ WF_vars(Tick)

Spec == Init /\ [][Next]_vars /\ Fairness

-----------------------------------------------------------------------------
TableTypeOK ==
  /\ DOMAIN map \subseteq Ids /\ Cardinality(DOMAIN map) <= MaxInFlight
  /\ \A id \in DOMAIN map : map[id] \in EntryState
  /\ heap \subseteq HeapItem
  /\ seq \in U64
  /\ now \in Duration
  /\ ops \subseteq Operation
  /\ DOMAIN waiting \subseteq Waiters
  /\ \A w \in DOMAIN waiting : waiting[w] \in [id : Ids, fp : Fingerprints]
  /\ late \in BOOLEAN

(***************************************************************************)
(* Every live entry has its item in the heap: whatever completions left    *)
(* stale and compactions threw away, no entry is left without a deadline.  *)
(***************************************************************************)
EntriesHaveTimers == CompactHeap(map) \subseteq heap

(***************************************************************************)
(* The heap stays within the compaction limit of the entries there are     *)
(* now, after every call.                                                  *)
(***************************************************************************)
HeapBounded == Cardinality(heap) <= HeapLimit(Cardinality(DOMAIN map))

(***************************************************************************)
(* Every caller that begin took in is in exactly one place of exactly one  *)
(* entry, that of its id and payload, until an answer or an expiry drains  *)
(* it; nobody else is.                                                     *)
(***************************************************************************)
Places(w) ==
  UNION {{<<id, i>> : i \in {j \in DOMAIN map[id].waiters : map[id].waiters[j] = w}} :
           id \in DOMAIN map}

WaitersInOnePlace ==
  \A w \in Waiters :
    /\ Cardinality(Places(w)) = IF w \in DOMAIN waiting THEN 1 ELSE 0
    /\ \A place \in Places(w) :
         waiting[w] = [id |-> place[1], fp |-> map[place[1]].fp]

(***************************************************************************)
(* As long as no answer has come late, an answer finds the entry of its    *)
(* own operation and drains the callers that asked for that payload: no    *)
(* entry expires early, and no id is begun twice at a time.                *)
(***************************************************************************)
AnswersReachTheirOwn ==
  [][\A op \in ops :
       (op \notin ops' /\ ~late') =>
         /\ op.id \in DOMAIN map
         /\ map[op.id].seq = op.seq
         /\ \A w \in ToSet(map[op.id].waiters) :
              waiting[w] = [id |-> op.id, fp |-> op.fp]]_vars

(***************************************************************************)
(* Every caller that waits is drained, though its answer may never come.   *)
(***************************************************************************)
WaitersAreDrained ==
  \A w \in Waiters : (w \in DOMAIN waiting) ~> (w \notin DOMAIN waiting)

(***************************************************************************)
(* The table implements the abstract one: in particular each call of       *)
(* expire removes exactly the entries that are due.                        *)
(***************************************************************************)
Dedup ==
  INSTANCE DedupTable WITH
    entries <- [id \in DOMAIN map |->
                  [fp |-> map[id].fp, deadline |-> map[id].deadline,
                   waiters |-> ToSet(map[id].waiters)]]

ImplementsDedup == Dedup!Spec
=============================================================================
