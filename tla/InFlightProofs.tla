--------------------------- MODULE InFlightProofs ---------------------------
(***************************************************************************)
(* The table of operations in flight, for any ids, payloads, waiters,      *)
(* deadlines and limits: no entry loses its deadline, the heap stays       *)
(* bounded, answers in time reach their own entry, nobody who waits is     *)
(* forgotten, and the table is the abstract one.                           *)
(***************************************************************************)
EXTENDS InFlightTable, FiniteSetTheorems, TLAPS

Finite == IsFiniteSet(DOMAIN map) /\ IsFiniteSet(heap)

\* An item that is current says what its entry says, and none is from the future.
ItemsMatch ==
  \A item \in heap :
    /\ item.seq <= seq
    /\ IsCurrent(item) => item = ItemOf(map, item.id)

\* A waiter of an entry waits for that id and payload.
WaitersKnown ==
  \A id \in DOMAIN map : \A w \in ToSet(map[id].waiters) :
    w \in DOMAIN waiting /\ waiting[w] = [id |-> id, fp |-> map[id].fp]

\* The entry an operation in flight was begun with.
OwnEntry(op) ==
  /\ op.id \in DOMAIN map
  /\ map[op.id].seq = op.seq
  /\ map[op.id].fp = op.fp
  /\ map[op.id].deadline = op.deadline

OperationsHaveEntries ==
  ~late => \A op \in ops : op.deadline > now => OwnEntry(op)

TInv ==
  /\ TableTypeOK
  /\ Finite
  /\ EntriesHaveTimers
  /\ HeapBounded
  /\ ItemsMatch
  /\ WaitersKnown
  /\ OperationsHaveEntries

-----------------------------------------------------------------------------
(***************************************************************************)
(* The heap.                                                               *)
(***************************************************************************)
\* Rebuilt, it has at most one item for each entry.
LEMMA CompactHeapSize ==
  ASSUME NEW entries, IsFiniteSet(DOMAIN entries)
  PROVE  /\ IsFiniteSet(CompactHeap(entries))
         /\ Cardinality(CompactHeap(entries)) <= Cardinality(DOMAIN entries)
<1> DEFINE f == [id \in DOMAIN entries |-> ItemOf(entries, id)]
<1>1. f \in Surjection(DOMAIN entries, CompactHeap(entries))
  BY DEF Surjection, CompactHeap
<1> QED
  BY <1>1, FS_Surjection

\* Compaction keeps the heap within its limit,
LEMMA MaybeCompactBounded ==
  ASSUME NEW items, NEW entries, IsFiniteSet(items), IsFiniteSet(DOMAIN entries)
  PROVE  /\ IsFiniteSet(MaybeCompactHeap(items, entries))
         /\ Cardinality(MaybeCompactHeap(items, entries))
              <= HeapLimit(Cardinality(DOMAIN entries))
<1> DEFINE live == Cardinality(DOMAIN entries)
<1>1. live \in Nat /\ Cardinality(items) \in Nat
  BY FS_CardinalityType
<1>2. HeapFactor \in Nat \ {0} /\ HeapSlack \in Nat
  BY TableAssumption
<1>3. live <= HeapLimit(live) /\ 0 <= HeapLimit(live) /\ HeapLimit(live) \in Nat
  <2>1. ASSUME NEW n \in Nat, NEW k \in Nat \ {0}, NEW s \in Nat
        PROVE  n <= n * k + s /\ n * k + s \in Nat
    BY <2>1
  <2> HIDE DEF live
  <2> QED
    BY <1>1, <1>2, <2>1 DEF HeapLimit
<1>4. Cardinality(CompactHeap(entries)) \in Nat
  BY CompactHeapSize, FS_CardinalityType
<1>5. CASE DOMAIN entries = {}
  BY <1>3, <1>5, FS_EmptySet DEF MaybeCompactHeap
<1>6. CASE DOMAIN entries # {} /\ Cardinality(items) > HeapLimit(live)
  BY <1>1, <1>3, <1>4, <1>6, CompactHeapSize DEF MaybeCompactHeap
<1>7. CASE DOMAIN entries # {} /\ ~(Cardinality(items) > HeapLimit(live))
  BY <1>1, <1>3, <1>7 DEF MaybeCompactHeap
<1> QED
  BY <1>5, <1>6, <1>7

\* and throws away stale items only.
LEMMA MaybeCompactKeepsTimers ==
  ASSUME NEW items, NEW entries, CompactHeap(entries) \subseteq items
  PROVE  /\ CompactHeap(entries) \subseteq MaybeCompactHeap(items, entries)
         /\ MaybeCompactHeap(items, entries) \subseteq items
BY DEF MaybeCompactHeap, CompactHeap

-----------------------------------------------------------------------------
(***************************************************************************)
(* The inductive invariant.                                                *)
(***************************************************************************)
LEMMA Numbers ==
  ASSUME TableTypeOK
  PROVE  /\ now \in Nat /\ seq \in Nat
         /\ \A item \in heap : item.deadline \in Nat /\ item.seq \in Nat
         /\ \A op \in ops : op.deadline \in Nat /\ op.seq \in Nat
         /\ \A id \in DOMAIN map : map[id].deadline \in Nat /\ map[id].seq \in Nat
<1>1. U64 \subseteq Nat /\ Deadlines \subseteq Nat /\ Duration \subseteq Nat
  BY TableAssumption, WidthAssumption DEF U64, Duration
<1>2. now \in Nat /\ seq \in Nat
  BY <1>1 DEF TableTypeOK
<1>3. \A item \in heap : item \in HeapItem
  BY DEF TableTypeOK
<1>4. \A op \in ops : op \in Operation
  BY DEF TableTypeOK
<1>5. \A id \in DOMAIN map : map[id] \in EntryState
  BY DEF TableTypeOK
<1> QED
  BY <1>1, <1>2, <1>3, <1>4, <1>5 DEF HeapItem, Operation, EntryState

LEMMA InitInv == Init => TInv
<1> SUFFICES ASSUME Init PROVE TInv
  OBVIOUS
<1>1. DOMAIN map = {} /\ DOMAIN waiting = {}
  BY DEF Init, Nothing
<1>2. IsFiniteSet({}) /\ Cardinality({}) = 0
  BY FS_EmptySet
<1>3. TableTypeOK
  <2>1. late \in BOOLEAN
    BY DEF Init
  <2>2. Cardinality(DOMAIN map) <= MaxInFlight
    BY <1>1, <1>2, TableAssumption
  <2>3. seq \in U64 /\ now \in Duration
    BY WidthAssumption DEF Init, U64, Duration
  <2> QED
    BY <1>1, <2>1, <2>2, <2>3 DEF Init, TableTypeOK
<1>4. HeapBounded
  <2>1. HeapLimit(0) = HeapSlack
    BY TableAssumption DEF HeapLimit
  <2> QED
    BY <1>1, <1>2, <2>1, TableAssumption DEF HeapBounded, Init
<1> QED
  BY <1>1, <1>2, <1>3, <1>4 DEF TInv, Init, Finite, EntriesHaveTimers, CompactHeap,
     ItemsMatch, WaitersKnown, OperationsHaveEntries

\* What is left when entries are drained is as it was.
LEMMA DrainedKeepsTheRest ==
  ASSUME TInv, NEW ids \in SUBSET (DOMAIN map), Drained(ids)
  PROVE  /\ DOMAIN map' = DOMAIN map \ ids
         /\ \A id \in DOMAIN map' : map'[id] = map[id]
         /\ IsFiniteSet(DOMAIN map')
         /\ Cardinality(DOMAIN map') <= MaxInFlight
         /\ \A w \in DOMAIN waiting' : w \in DOMAIN waiting /\ waiting'[w] = waiting[w]
         /\ WaitersKnown'
<1> DEFINE gone == UNION {ToSet(map[id].waiters) : id \in ids}
<1>1. /\ DOMAIN map' = DOMAIN map \ ids
      /\ \A id \in DOMAIN map' : map'[id] = map[id]
  BY DEF Drained, Without, Restrict
<1>2. /\ DOMAIN waiting' = DOMAIN waiting \ gone
      /\ \A w \in DOMAIN waiting' : waiting'[w] = waiting[w]
  BY DEF Drained, Without, Restrict
<1>3. IsFiniteSet(DOMAIN map') /\ Cardinality(DOMAIN map') <= MaxInFlight
  <2>1. IsFiniteSet(DOMAIN map) /\ Cardinality(DOMAIN map) <= MaxInFlight
    BY DEF TInv, Finite, TableTypeOK
  <2>2. /\ IsFiniteSet(DOMAIN map')
        /\ Cardinality(DOMAIN map') <= Cardinality(DOMAIN map)
    <3> DEFINE D == DOMAIN map'
    <3>1. D \in SUBSET (DOMAIN map)
      BY <1>1
    <3> HIDE DEF D
    <3>2. IsFiniteSet(D) /\ Cardinality(D) <= Cardinality(DOMAIN map)
      BY <2>1, <3>1, FS_Subset
    <3> QED
      BY <3>2 DEF D
  <2>3. Cardinality(DOMAIN map) \in Nat /\ Cardinality(DOMAIN map') \in Nat
    BY <2>1, <2>2, FS_CardinalityType
  <2> QED
    BY <2>1, <2>2, <2>3, TableAssumption
<1>4. WaitersKnown'
  <2> SUFFICES ASSUME NEW id \in DOMAIN map', NEW w \in ToSet(map'[id].waiters)
               PROVE  w \in DOMAIN waiting' /\ waiting'[w] = [id |-> id, fp |-> map'[id].fp]
    BY DEF WaitersKnown
  <2>1. id \in DOMAIN map /\ id \notin ids /\ map'[id] = map[id]
    BY <1>1
  <2>2. w \in DOMAIN waiting /\ waiting[w] = [id |-> id, fp |-> map[id].fp]
    BY <2>1 DEF TInv, WaitersKnown
  <2>3. w \notin gone
    <3> SUFFICES ASSUME NEW j \in ids, w \in ToSet(map[j].waiters) PROVE FALSE
      OBVIOUS
    <3>1. waiting[w] = [id |-> j, fp |-> map[j].fp]
      BY DEF TInv, WaitersKnown
    <3>2. j = id
      BY <2>2, <3>1
    <3> QED
      BY <2>1, <3>2
  <2> QED
    BY <1>2, <2>1, <2>2, <2>3
<1> QED
  BY <1>1, <1>2, <1>3, <1>4

LEMMA TickInv ==
  ASSUME TInv, Tick
  PROVE  TInv'
<1> USE DEF TInv
<1>1. /\ UNCHANGED <<map, heap, seq, ops, waiting, late>>
      /\ now \in Nat /\ now' \in Duration /\ now' > now
  <2>1. now \in Nat
    BY Numbers
  <2>2. now' \in Nat /\ now' > now /\ now' <= MaxTime
    BY <2>1, TableAssumption, WidthAssumption DEF Tick, Duration
  <2>3. now' \in Duration
    BY <2>2, TableAssumption, WidthAssumption DEF Duration
  <2> QED
    BY <2>1, <2>2, <2>3 DEF Tick, table
<1>2. TableTypeOK'
  BY <1>1 DEF TInv, TableTypeOK
<1>3. OperationsHaveEntries'
  <2> SUFFICES ASSUME ~late, NEW op \in ops, op.deadline > now'
               PROVE  OwnEntry(op)'
    BY <1>1 DEF OperationsHaveEntries
  <2>1. op.deadline \in Nat
    BY Numbers
  <2>2. op.deadline > now
    BY <1>1, <2>1, WidthAssumption DEF Duration
  <2> QED
    BY <1>1, <2>2 DEF TInv, OperationsHaveEntries, OwnEntry
<1> QED
  BY <1>1, <1>2, <1>3 DEF TInv, Finite, EntriesHaveTimers, CompactHeap, ItemOf, HeapBounded,
     ItemsMatch, IsCurrent, WaitersKnown

LEMMA BeginNewInv ==
  ASSUME TInv,
         NEW id \in Ids, NEW fp \in Fingerprints, NEW d \in Deadlines, NEW w \in Waiters,
         w \notin DOMAIN waiting, BeginNew(id, fp, d, w)
  PROVE  TInv'
<1> DEFINE entry == [fp |-> fp, deadline |-> d, waiters |-> <<w>>, seq |-> seq + 1]
           entries == Insert(map, id, entry)
           op == [id |-> id, fp |-> fp, seq |-> seq + 1, deadline |-> d]
           item == [deadline |-> d, seq |-> seq + 1, id |-> id]
<1> USE DEF TInv
<1>1. seq \in Nat /\ now \in Nat /\ d \in Nat
  BY Numbers, TableAssumption
<1>2. NextSeq = seq + 1 /\ seq + 1 \in U64
  <2>1. seq + 1 <= U64Max
    BY <1>1, TableAssumption, WidthAssumption DEF BeginNew, U64
  <2> QED
    BY <1>1, <2>1, WidthAssumption DEF NextSeq, U64
<1>3. /\ id \notin DOMAIN map /\ HasSpace
      /\ map' = entries /\ seq' = seq + 1
      /\ heap' = MaybeCompactHeap(heap \cup {ItemOf(entries, id)}, entries)
      /\ ops' = ops \cup {op}
      /\ waiting' = Insert(waiting, w, [id |-> id, fp |-> fp])
      /\ now' = now /\ UNCHANGED late
  BY <1>2 DEF BeginNew, Waits
<1>4. /\ DOMAIN entries = DOMAIN map \cup {id} /\ entries[id] = entry
      /\ \A i \in DOMAIN map : entries[i] = map[i]
  BY <1>3 DEF Insert
<1>5. ItemOf(entries, id) = item
  BY <1>4 DEF ItemOf
<1>6. entry \in EntryState /\ item \in HeapItem /\ op \in Operation
  BY <1>2 DEF EntryState, HeapItem, Operation
<1>7. /\ DOMAIN waiting' = DOMAIN waiting \cup {w} /\ waiting'[w] = [id |-> id, fp |-> fp]
      /\ \A v \in DOMAIN waiting : waiting'[v] = waiting[v]
  BY <1>3 DEF Insert
<1> HIDE DEF entry, entries, op, item
<1>8. CompactHeap(entries) \subseteq heap \cup {item}
  BY <1>3, <1>4, <1>5 DEF EntriesHaveTimers, CompactHeap, ItemOf
<1>9. EntriesHaveTimers' /\ heap' \subseteq heap \cup {item}
  BY <1>3, <1>5, <1>8, MaybeCompactKeepsTimers DEF EntriesHaveTimers, CompactHeap, ItemOf
<1>10. IsFiniteSet(DOMAIN entries) /\ Cardinality(DOMAIN entries) <= MaxInFlight
  <2>1. IsFiniteSet(DOMAIN map) /\ Cardinality(DOMAIN map) \in Nat
    BY FS_CardinalityType DEF Finite
  <2>2. /\ IsFiniteSet(DOMAIN map \cup {id})
        /\ Cardinality(DOMAIN map \cup {id}) = Cardinality(DOMAIN map) + 1
    BY <1>3, <2>1, FS_AddElement
  <2> QED
    BY <1>3, <1>4, <2>1, <2>2, TableAssumption DEF HasSpace
<1>11. Finite' /\ HeapBounded'
  <2>1. IsFiniteSet(heap \cup {item})
    BY FS_AddElement DEF Finite
  <2> QED
    BY <1>3, <1>5, <1>10, <2>1, MaybeCompactBounded DEF Finite, HeapBounded
<1>12. TableTypeOK'
  <2>1. DOMAIN map' \subseteq Ids /\ Cardinality(DOMAIN map') <= MaxInFlight
    BY <1>3, <1>4, <1>10 DEF TableTypeOK
  <2>2. \A i \in DOMAIN map' : map'[i] \in EntryState
    BY <1>3, <1>4, <1>6 DEF TableTypeOK
  <2>3. heap' \subseteq HeapItem /\ ops' \subseteq Operation
    BY <1>3, <1>6, <1>9 DEF TableTypeOK
  <2>4. /\ DOMAIN waiting' \subseteq Waiters
        /\ \A v \in DOMAIN waiting' : waiting'[v] \in [id : Ids, fp : Fingerprints]
    BY <1>7 DEF TableTypeOK
  <2> QED
    BY <1>2, <1>3, <2>1, <2>2, <2>3, <2>4 DEF TableTypeOK
<1>13. ItemsMatch'
  <2> SUFFICES ASSUME NEW i \in heap'
               PROVE  /\ i.seq <= seq + 1
                      /\ (i.id \in DOMAIN map' /\ map'[i.id].seq = i.seq) => i = ItemOf(map', i.id)
    BY <1>3 DEF ItemsMatch, IsCurrent, ItemOf
  <2>1. CASE i = item
    BY <1>1, <1>3, <1>5, <2>1 DEF item
  <2>2. CASE i # item
    <3>1. i \in heap /\ i.seq \in Nat /\ i.seq <= seq
      BY <1>9, <2>2, Numbers DEF ItemsMatch
    <3>2. i.id # id \/ map'[i.id].seq # i.seq
      BY <1>1, <1>3, <1>4, <3>1 DEF entry
    <3>3. (i.id \in DOMAIN map /\ map[i.id].seq = i.seq) => i = ItemOf(map, i.id)
      BY <3>1 DEF ItemsMatch, IsCurrent
    <3> QED
      BY <1>1, <1>3, <1>4, <3>1, <3>2, <3>3 DEF ItemOf
  <2> QED
    BY <2>1, <2>2
<1>14. WaitersKnown'
  <2> SUFFICES ASSUME NEW i \in DOMAIN map', NEW v \in ToSet(map'[i].waiters)
               PROVE  v \in DOMAIN waiting' /\ waiting'[v] = [id |-> i, fp |-> map'[i].fp]
    BY DEF WaitersKnown
  <2>1. CASE i = id
    <3>1. map'[i] = entry /\ v = w
      BY <1>3, <1>4, <2>1 DEF entry, ToSet
    <3> QED
      BY <1>7, <2>1, <3>1 DEF entry
  <2>2. CASE i # id
    <3>1. i \in DOMAIN map /\ map'[i] = map[i]
      BY <1>3, <1>4, <2>2
    <3> QED
      BY <1>7, <3>1 DEF WaitersKnown
  <2> QED
    BY <2>1, <2>2
<1>15. OperationsHaveEntries'
  <2> SUFFICES ASSUME ~late, NEW o \in ops', o.deadline > now
               PROVE  /\ o.id \in DOMAIN map' /\ map'[o.id].seq = o.seq
                      /\ map'[o.id].fp = o.fp /\ map'[o.id].deadline = o.deadline
    BY <1>3 DEF OperationsHaveEntries, OwnEntry
  <2>1. CASE o = op
    BY <1>3, <1>4, <2>1 DEF op, entry
  <2>2. CASE o # op
    BY <1>3, <1>4, <2>2 DEF OperationsHaveEntries, OwnEntry
  <2> QED
    BY <2>1, <2>2
<1> QED
  BY <1>9, <1>11, <1>12, <1>13, <1>14, <1>15

LEMMA AppendToSet ==
  ASSUME NEW S, NEW q \in Seq(S), NEW w
  PROVE  ToSet(Append(q, w)) = ToSet(q) \cup {w}
<1>1. /\ DOMAIN Append(q, w) = DOMAIN q \cup {Len(q) + 1}
      /\ Append(q, w)[Len(q) + 1] = w
      /\ \A i \in DOMAIN q : Append(q, w)[i] = q[i]
  OBVIOUS
<1> QED
  BY <1>1 DEF ToSet

LEMMA BeginJoinedInv ==
  ASSUME TInv,
         NEW id \in Ids, NEW fp \in Fingerprints, NEW w \in Waiters,
         w \notin DOMAIN waiting, BeginJoined(id, fp, w)
  PROVE  TInv'
<1> USE DEF TInv
<1>1. /\ id \in DOMAIN map /\ map[id].fp = fp
      /\ map' = [map EXCEPT ![id].waiters = Append(@, w)]
      /\ waiting' = Insert(waiting, w, [id |-> id, fp |-> fp])
      /\ UNCHANGED <<heap, seq, now, ops, late>>
  BY DEF BeginJoined, Waits
<1>2. map[id] \in EntryState /\ map[id].waiters \in Seq(Waiters)
  BY <1>1 DEF TableTypeOK, EntryState
<1>3. /\ DOMAIN map' = DOMAIN map
      /\ \A i \in DOMAIN map \ {id} : map'[i] = map[i]
      /\ map'[id] = [map[id] EXCEPT !.waiters = Append(map[id].waiters, w)]
  BY <1>1
<1>4. map'[id] \in EntryState /\ map'[id].waiters = Append(map[id].waiters, w)
  <2> DEFINE more == Append(map[id].waiters, w)
  <2>1. more \in Seq(Waiters)
    BY <1>2
  <2> HIDE DEF more
  <2>2. map'[id] = [map[id] EXCEPT !.waiters = more]
    BY <1>3 DEF more
  <2>3. map'[id] \in EntryState /\ map'[id].waiters = more
    BY <1>2, <2>1, <2>2 DEF EntryState
  <2> QED
    BY <2>3 DEF more
<1>5. \A i \in DOMAIN map' :
        map'[i].seq = map[i].seq /\ map'[i].fp = map[i].fp /\ map'[i].deadline = map[i].deadline
  BY <1>2, <1>3 DEF EntryState
<1>6. /\ DOMAIN waiting' = DOMAIN waiting \cup {w} /\ waiting'[w] = [id |-> id, fp |-> fp]
      /\ \A v \in DOMAIN waiting : waiting'[v] = waiting[v]
  BY <1>1 DEF Insert
<1>7. TableTypeOK'
  <2>1. \A i \in DOMAIN map' : map'[i] \in EntryState
    BY <1>3, <1>4 DEF TableTypeOK
  <2>2. /\ DOMAIN waiting' \subseteq Waiters
        /\ \A v \in DOMAIN waiting' : waiting'[v] \in [id : Ids, fp : Fingerprints]
    BY <1>6 DEF TableTypeOK
  <2> QED
    BY <1>1, <1>3, <2>1, <2>2 DEF TableTypeOK
<1>8. Finite' /\ EntriesHaveTimers' /\ HeapBounded' /\ ItemsMatch'
  <2>1. Finite' /\ HeapBounded'
    BY <1>1, <1>3 DEF Finite, HeapBounded
  <2>2. \A i \in DOMAIN map' : ItemOf(map', i) = ItemOf(map, i)
    BY <1>5 DEF ItemOf
  <2>3. EntriesHaveTimers'
    <3>1. heap' = heap
      BY <1>1
    <3>2. \A i \in DOMAIN map : ItemOf(map, i) \in heap
      BY DEF EntriesHaveTimers, CompactHeap
    <3>3. \A i \in DOMAIN map' : ItemOf(map', i) \in heap'
      BY <1>3, <2>2, <3>1, <3>2
    <3> QED
      BY <3>3 DEF EntriesHaveTimers, CompactHeap
  <2>4. ItemsMatch'
    BY <1>1, <1>3, <1>5, <2>2 DEF ItemsMatch, IsCurrent
  <2> QED
    BY <2>1, <2>3, <2>4
<1>9. WaitersKnown'
  <2> SUFFICES ASSUME NEW i \in DOMAIN map', NEW v \in ToSet(map'[i].waiters)
               PROVE  v \in DOMAIN waiting' /\ waiting'[v] = [id |-> i, fp |-> map'[i].fp]
    BY DEF WaitersKnown
  <2>1. CASE i = id
    <3>1. v \in ToSet(map[id].waiters) \cup {w}
      BY <1>2, <1>4, <2>1, AppendToSet
    <3>2. map'[i].fp = fp /\ map[id].fp = fp
      BY <1>1, <1>3, <1>5, <2>1
    <3>3. CASE v = w
      BY <1>6, <2>1, <3>2, <3>3
    <3>4. CASE v \in ToSet(map[id].waiters)
      <4>1. v \in DOMAIN waiting /\ waiting[v] = [id |-> id, fp |-> fp]
        BY <1>1, <3>2, <3>4 DEF WaitersKnown
      <4> QED
        BY <1>6, <2>1, <3>2, <4>1
    <3> QED
      BY <3>1, <3>3, <3>4
  <2>2. CASE i # id
    BY <1>3, <1>6, <2>2 DEF WaitersKnown
  <2> QED
    BY <2>1, <2>2
<1>10. OperationsHaveEntries'
  BY <1>1, <1>3, <1>5 DEF OperationsHaveEntries, OwnEntry
<1> QED
  BY <1>7, <1>8, <1>9, <1>10

-----------------------------------------------------------------------------
\* What completions and expiries share: entries are drained, some items go, and
\* no operation in time loses its entry.
LEMMA DrainInv ==
  ASSUME TInv, NEW ids \in SUBSET (DOMAIN map), Drained(ids),
         NEW items \in SUBSET heap, heap' = MaybeCompactHeap(items, map'),
         CompactHeap(map') \subseteq items,
         UNCHANGED <<seq, now>>, ops' \subseteq ops, late' \in BOOLEAN, late => late',
         ~late' => \A op \in ops' : op.deadline > now => op.id \notin ids
  PROVE  TInv'
<1> USE DEF TInv
<1>1. /\ DOMAIN map' = DOMAIN map \ ids
      /\ \A id \in DOMAIN map' : map'[id] = map[id]
      /\ IsFiniteSet(DOMAIN map')
      /\ Cardinality(DOMAIN map') <= MaxInFlight
      /\ \A w \in DOMAIN waiting' : w \in DOMAIN waiting /\ waiting'[w] = waiting[w]
      /\ WaitersKnown'
  BY DrainedKeepsTheRest
<1>2. heap' \subseteq heap /\ EntriesHaveTimers'
  BY MaybeCompactKeepsTimers DEF EntriesHaveTimers, CompactHeap
<1>3. Finite' /\ HeapBounded'
  <2>1. IsFiniteSet(items)
    BY FS_Subset DEF Finite
  <2> QED
    BY <1>1, <2>1, MaybeCompactBounded DEF Finite, HeapBounded
<1>4. TableTypeOK'
  <2>1. DOMAIN map' \subseteq Ids /\ \A id \in DOMAIN map' : map'[id] \in EntryState
    BY <1>1 DEF TableTypeOK
  <2>2. heap' \subseteq HeapItem /\ ops' \subseteq Operation
    BY <1>2 DEF TableTypeOK
  <2>3. /\ DOMAIN waiting' \subseteq Waiters
        /\ \A v \in DOMAIN waiting' : waiting'[v] \in [id : Ids, fp : Fingerprints]
    BY <1>1 DEF TableTypeOK
  <2> QED
    BY <1>1, <2>1, <2>2, <2>3 DEF TableTypeOK
<1>5. ItemsMatch'
  BY <1>1, <1>2 DEF ItemsMatch, IsCurrent, ItemOf
<1>6. OperationsHaveEntries'
  <2> SUFFICES ASSUME ~late', NEW op \in ops', op.deadline > now
               PROVE  OwnEntry(op)'
    BY DEF OperationsHaveEntries
  <2>1. OwnEntry(op)
    BY DEF OperationsHaveEntries
  <2> QED
    BY <1>1, <2>1 DEF OwnEntry
<1> QED
  BY <1>1, <1>2, <1>3, <1>4, <1>5, <1>6

LEMMA AnswerInv ==
  ASSUME TInv, NEW op \in ops, Answer(op)
  PROVE  TInv'
<1> USE DEF TInv
<1> DEFINE ids == {op.id} \cap DOMAIN map
<1>1. /\ Drained(ids) /\ heap' = MaybeCompactHeap(heap, map') /\ UNCHANGED <<seq, now>>
      /\ ops' = ops \ {op}
  BY DEF Answer, Complete
<1>2. CompactHeap(map') \subseteq heap
  <2>1. DOMAIN map' \subseteq DOMAIN map /\ \A id \in DOMAIN map' : map'[id] = map[id]
    BY <1>1, DrainedKeepsTheRest
  <2> QED
    BY <2>1 DEF EntriesHaveTimers, CompactHeap, ItemOf
<1>3. late' = (late \/ now >= op.deadline)
  BY DEF Answer
<1>4. late' \in BOOLEAN /\ (late => late')
  BY <1>3
\* Two operations in time with the same entry are one.
<1>5. ASSUME ~late', NEW other \in ops', other.deadline > now, other.id \in ids
      PROVE  FALSE
  <2>1. ~late /\ ~(now >= op.deadline)
    BY <1>3, <1>5
  <2>2. now \in Nat /\ op.deadline \in Nat /\ other \in ops /\ other # op
    BY <1>1, <1>5, Numbers
  <2>3. op.deadline > now
    BY <2>1, <2>2
  <2>4. OwnEntry(op) /\ OwnEntry(other)
    BY <1>5, <2>1, <2>2, <2>3 DEF OperationsHaveEntries
  <2>5. /\ other.id = op.id /\ other.seq = op.seq /\ other.fp = op.fp
        /\ other.deadline = op.deadline
    BY <1>5, <2>4 DEF OwnEntry
  <2>6. op \in Operation /\ other \in Operation
    BY <2>2 DEF TableTypeOK
  <2> QED
    BY <2>2, <2>5, <2>6 DEF Operation
<1> HIDE DEF ids
<1>6. ids \in SUBSET (DOMAIN map)
  BY DEF ids
<1> QED
  BY <1>1, <1>2, <1>4, <1>5, <1>6, DrainInv

LEMMA ExpireInv ==
  ASSUME TInv, Expire
  PROVE  TInv'
<1> USE DEF TInv
<1> DEFINE ids == {item.id : item \in {i \in Due : IsCurrent(i)}}
           items == heap \ Due
<1>1. Drained(ids) /\ heap' = MaybeCompactHeap(items, map') /\ UNCHANGED <<seq, now, ops, late>>
  BY DEF Expire
<1>2. ids \in SUBSET (DOMAIN map)
  BY DEF IsCurrent
<1>3. CompactHeap(map') \subseteq items
  <2> SUFFICES ASSUME NEW id \in DOMAIN map' PROVE ItemOf(map', id) \in items
    BY DEF CompactHeap
  <2>1. id \in DOMAIN map /\ id \notin ids /\ map'[id] = map[id]
    BY <1>1, <1>2, DrainedKeepsTheRest
  <2>2. ItemOf(map', id) = ItemOf(map, id) /\ ItemOf(map, id) \in heap
    BY <2>1 DEF EntriesHaveTimers, CompactHeap, ItemOf
  <2>3. IsCurrent(ItemOf(map, id)) /\ ItemOf(map, id).id = id
    BY <2>1 DEF IsCurrent, ItemOf
  <2>4. ItemOf(map, id) \notin Due
    BY <2>1, <2>3
  <2> QED
    BY <2>2, <2>4
<1>4. ASSUME ~late', NEW op \in ops', op.deadline > now, op.id \in ids
      PROVE  FALSE
  <2>1. OwnEntry(op)
    BY <1>1, <1>4 DEF OperationsHaveEntries
  <2>2. PICK item \in heap : item.deadline <= now /\ IsCurrent(item) /\ item.id = op.id
    BY <1>4 DEF Due
  <2>3. item.deadline = op.deadline
    BY <2>1, <2>2 DEF ItemsMatch, OwnEntry, ItemOf
  <2>4. now \in Nat /\ op.deadline \in Nat
    BY <1>1, Numbers
  <2> QED
    BY <1>4, <2>2, <2>3, <2>4
<1> HIDE DEF ids, items
<1>5. items \in SUBSET heap
  BY DEF items
<1>6. late' \in BOOLEAN /\ (late => late')
  BY <1>1 DEF TableTypeOK
<1> QED
  BY <1>1, <1>2, <1>3, <1>4, <1>5, <1>6, DrainInv

LEMMA StutterInv ==
  ASSUME TInv, UNCHANGED vars
  PROVE  TInv'
BY DEF TInv, vars, TableTypeOK, Finite, EntriesHaveTimers, CompactHeap, ItemOf, HeapBounded,
       ItemsMatch, IsCurrent, WaitersKnown, OperationsHaveEntries, OwnEntry

LEMMA NextInv == TInv /\ [Next]_vars => TInv'
<1> SUFFICES ASSUME TInv, [Next]_vars PROVE TInv'
  OBVIOUS
<1>1. ASSUME NEW id \in Ids, NEW fp \in Fingerprints, NEW d \in Deadlines, NEW w \in Waiters,
             Begin(id, fp, d, w)
      PROVE  TInv'
  <2>1. CASE BeginRefused(id, fp)
    BY <2>1, StutterInv DEF BeginRefused
  <2> QED
    BY <1>1, <2>1, BeginNewInv, BeginJoinedInv DEF Begin
<1>2. ASSUME NEW op \in ops, Answer(op)
      PROVE  TInv'
  BY <1>2, AnswerInv
<1> QED
  BY <1>1, <1>2, ExpireInv, TickInv, StutterInv DEF Next

-----------------------------------------------------------------------------
(***************************************************************************)
(* The inductive invariant holds always; with it, every live entry has its *)
(* deadline in the heap, and the heap is bounded (in_flight.rs, begin,     *)
(* complete, expire and maybe_compact_heap).                               *)
(***************************************************************************)
THEOREM TableInvariance == Spec => []TInv
<1>1. Init => TInv
  BY InitInv
<1>2. TInv /\ [Next]_vars => TInv'
  BY NextInv
<1> QED
  BY <1>1, <1>2, PTL DEF Spec

(***************************************************************************)
(* The variables of the table keep their types and the table its bound.    *)
(***************************************************************************)
THEOREM TableTypeCorrect == Spec => []TableTypeOK
<1>1. TInv => TableTypeOK
  BY DEF TInv
<1> QED
  BY <1>1, TableInvariance, PTL

(***************************************************************************)
(* No entry is left without a deadline by compaction, completion or expiry. *)
(***************************************************************************)
THEOREM NoTimerIsLost == Spec => []EntriesHaveTimers
<1>1. TInv => EntriesHaveTimers
  BY DEF TInv
<1> QED
  BY <1>1, TableInvariance, PTL

(***************************************************************************)
(* The heap stays within its limit after every call.                       *)
(***************************************************************************)
THEOREM HeapStaysBounded == Spec => []HeapBounded
<1>1. TInv => HeapBounded
  BY DEF TInv
<1> QED
  BY <1>1, TableInvariance, PTL

(***************************************************************************)
(* As long as no answer has come late, an answer drains the entry of its   *)
(* own operation and the waiters of its payload.                           *)
(***************************************************************************)
THEOREM AnswersFindTheirOwn == Spec => AnswersReachTheirOwn
<1> DEFINE A == \A op \in ops :
       (op \notin ops' /\ ~late') =>
         /\ op.id \in DOMAIN map
         /\ map[op.id].seq = op.seq
         /\ \A w \in ToSet(map[op.id].waiters) : waiting[w] = [id |-> op.id, fp |-> op.fp]
<1>1. ASSUME TInv, [Next]_vars, NEW op \in ops, op \notin ops', ~late'
      PROVE  /\ op.id \in DOMAIN map
             /\ map[op.id].seq = op.seq
             /\ \A w \in ToSet(map[op.id].waiters) : waiting[w] = [id |-> op.id, fp |-> op.fp]
  <2>1. Answer(op)
    <3>1. ASSUME NEW id \in Ids, NEW fp \in Fingerprints, NEW d \in Deadlines,
                 NEW w \in Waiters, Begin(id, fp, d, w)
          PROVE  ops \subseteq ops'
      BY <3>1 DEF Begin, BeginNew, BeginJoined, BeginRefused, vars
    <3>2. Expire \/ Tick \/ UNCHANGED vars => ops' = ops
      BY DEF Expire, Tick, vars
    <3>3. PICK o \in ops : Answer(o)
      BY <1>1, <3>1, <3>2 DEF Next
    <3>4. ops' = ops \ {o}
      BY <3>3 DEF Answer
    <3>5. op = o
      BY <1>1, <3>4
    <3> QED
      BY <3>3, <3>5
  <2>2. ~late /\ ~(now >= op.deadline)
    BY <1>1, <2>1 DEF Answer
  <2>3. op.deadline > now
    BY <1>1, <2>2, Numbers DEF TInv
  <2>4. OwnEntry(op)
    BY <1>1, <2>2, <2>3 DEF TInv, OperationsHaveEntries
  <2> QED
    BY <1>1, <2>4 DEF TInv, OwnEntry, WaitersKnown
<1>2. TInv /\ [Next]_vars => [A]_vars
  BY <1>1
<1> QED
  BY <1>2, TableInvariance, PTL DEF Spec, AnswersReachTheirOwn

-----------------------------------------------------------------------------
(***************************************************************************)
(* Refinement.                                                             *)
(***************************************************************************)
\* What the abstract table sees.
Seen(entry) == [fp |-> entry.fp, deadline |-> entry.deadline, waiters |-> ToSet(entry.waiters)]
Abs(m) == [id \in DOMAIN m |-> Seen(m[id])]

LEMMA BeginNewRefines ==
  ASSUME TInv,
         NEW id \in Ids, NEW fp \in Fingerprints, NEW d \in Deadlines, NEW w \in Waiters,
         BeginNew(id, fp, d, w)
  PROVE  /\ id \notin DOMAIN map /\ Cardinality(DOMAIN map) < MaxInFlight
         /\ Abs(map') = [i \in DOMAIN map \cup {id} |->
                           IF i = id THEN [fp |-> fp, deadline |-> d, waiters |-> {w}]
                           ELSE Abs(map)[i]]
         /\ now' = now
<1> DEFINE entry == [fp |-> fp, deadline |-> d, waiters |-> <<w>>, seq |-> NextSeq]
<1>1. /\ id \notin DOMAIN map /\ HasSpace /\ now' = now
      /\ map' = Insert(map, id, entry)
  BY DEF BeginNew
<1>2. Seen(entry) = [fp |-> fp, deadline |-> d, waiters |-> {w}]
  <2>1. ToSet(<<w>>) = {w}
    BY DEF ToSet
  <2> QED
    BY <2>1 DEF Seen
<1> HIDE DEF entry
<1>3. /\ DOMAIN map' = DOMAIN map \cup {id} /\ map'[id] = entry
      /\ \A i \in DOMAIN map : map'[i] = map[i]
  BY <1>1 DEF Insert
<1>4. Abs(map') = [i \in DOMAIN map \cup {id} |->
                     IF i = id THEN [fp |-> fp, deadline |-> d, waiters |-> {w}]
                     ELSE Abs(map)[i]]
  BY <1>1, <1>2, <1>3 DEF Abs
<1> QED
  BY <1>1, <1>4 DEF HasSpace

LEMMA BeginJoinedRefines ==
  ASSUME TInv,
         NEW id \in Ids, NEW fp \in Fingerprints, NEW w \in Waiters,
         w \notin DOMAIN waiting, BeginJoined(id, fp, w)
  PROVE  /\ id \in DOMAIN map /\ map[id].fp = fp
         /\ \A i \in DOMAIN map : w \notin Seen(map[i]).waiters
         /\ Abs(map') = [Abs(map) EXCEPT ![id].waiters = @ \cup {w}]
         /\ now' = now
<1> USE DEF TInv
<1>1. /\ id \in DOMAIN map /\ map[id].fp = fp /\ now' = now
      /\ map' = [map EXCEPT ![id].waiters = Append(@, w)]
  BY DEF BeginJoined
<1>2. map[id] \in EntryState /\ map[id].waiters \in Seq(Waiters)
  BY <1>1 DEF TableTypeOK, EntryState
<1>3. /\ DOMAIN map' = DOMAIN map
      /\ \A i \in DOMAIN map \ {id} : map'[i] = map[i]
      /\ map'[id] = [map[id] EXCEPT !.waiters = Append(map[id].waiters, w)]
  BY <1>1
<1>4. Seen(map'[id]) = [Seen(map[id]) EXCEPT !.waiters = @ \cup {w}]
  <2>1. ToSet(Append(map[id].waiters, w)) = ToSet(map[id].waiters) \cup {w}
    BY <1>2, AppendToSet
  <2>2. /\ map'[id].fp = map[id].fp /\ map'[id].deadline = map[id].deadline
        /\ map'[id].waiters = Append(map[id].waiters, w)
    BY <1>2, <1>3 DEF EntryState
  <2>3. Seen(map'[id]) = [fp |-> map[id].fp, deadline |-> map[id].deadline,
                          waiters |-> ToSet(map[id].waiters) \cup {w}]
    BY <2>1, <2>2 DEF Seen
  <2> QED
    BY <2>3 DEF Seen
<1>5. Abs(map') = [Abs(map) EXCEPT ![id].waiters = @ \cup {w}]
  BY <1>1, <1>3, <1>4 DEF Abs
<1>6. \A i \in DOMAIN map : w \notin Seen(map[i]).waiters
  BY DEF WaitersKnown, Seen
<1> QED
  BY <1>1, <1>5, <1>6

LEMMA DrainedRefines ==
  ASSUME TInv, NEW ids \in SUBSET (DOMAIN map), Drained(ids)
  PROVE  Abs(map') = [id \in DOMAIN map \ ids |-> Abs(map)[id]]
BY DrainedKeepsTheRest DEF Abs

\* expire takes exactly what is due.
LEMMA ExpireRefines ==
  ASSUME TInv, Expire
  PROVE  /\ Abs(map') = [id \in DOMAIN map \ {i \in DOMAIN map : map[i].deadline <= now} |->
                           Abs(map)[id]]
         /\ now' = now
<1> USE DEF TInv
<1> DEFINE ids == {item.id : item \in {i \in Due : IsCurrent(i)}}
           due == {i \in DOMAIN map : map[i].deadline <= now}
<1>1. Drained(ids) /\ now' = now
  BY DEF Expire
<1>2. ids \subseteq due
  <2> SUFFICES ASSUME NEW item \in heap, item.deadline <= now, IsCurrent(item)
               PROVE  item.id \in due
    BY DEF Due
  <2>1. item.id \in DOMAIN map /\ item = ItemOf(map, item.id)
    BY DEF ItemsMatch, IsCurrent
  <2>2. item.deadline = map[item.id].deadline
    BY <2>1 DEF ItemOf
  <2> QED
    BY <2>1, <2>2
<1>3. due \subseteq ids
  <2> SUFFICES ASSUME NEW id \in due PROVE id \in ids
    OBVIOUS
  <2> DEFINE item == ItemOf(map, id)
  <2>1. item \in heap /\ item.id = id /\ item.seq = map[id].seq /\ item.deadline = map[id].deadline
    BY DEF EntriesHaveTimers, CompactHeap, ItemOf
  <2>2. item \in Due /\ IsCurrent(item)
    BY <2>1 DEF Due, IsCurrent
  <2> QED
    BY <2>1, <2>2
<1>4. due \in SUBSET (DOMAIN map) /\ ids = due
  BY <1>2, <1>3
<1> HIDE DEF ids, due
<1>5. Abs(map') = [id \in DOMAIN map \ due |-> Abs(map)[id]]
  BY <1>1, <1>4, DrainedRefines
<1> QED
  BY <1>1, <1>5 DEF due

LEMMA InitRefines == Init => Dedup!Init
BY DEF Init, Nothing, Dedup!Init

LEMMA StepRefines == TInv /\ [Next]_vars => [Dedup!Next]_(Dedup!dvars)
<1> SUFFICES ASSUME TInv, [Next]_vars PROVE [Dedup!Next]_(Dedup!dvars)
  OBVIOUS
<1>0. /\ Abs(map) = [id \in DOMAIN map |->
                  [fp |-> map[id].fp, deadline |-> map[id].deadline,
                   waiters |-> ToSet(map[id].waiters)]]
      /\ Abs(map') = [id \in DOMAIN map' |->
                  [fp |-> map'[id].fp, deadline |-> map'[id].deadline,
                   waiters |-> ToSet(map'[id].waiters)]]
      /\ DOMAIN Abs(map) = DOMAIN map
      /\ \A id \in DOMAIN map : Abs(map)[id] = Seen(map[id])
  BY DEF Abs, Seen
<1>1. ASSUME NEW id \in Ids, NEW fp \in Fingerprints, NEW d \in Deadlines, NEW w \in Waiters,
             Begin(id, fp, d, w)
      PROVE  [Dedup!Next]_(Dedup!dvars)
  <2>1. CASE BeginNew(id, fp, d, w)
    <3>1. Dedup!Begin(id, fp, d, w)
      <4>1. /\ id \notin DOMAIN map /\ Cardinality(DOMAIN map) < MaxInFlight
            /\ Abs(map') = [i \in DOMAIN map \cup {id} |->
                              IF i = id THEN [fp |-> fp, deadline |-> d, waiters |-> {w}]
                              ELSE Abs(map)[i]]
            /\ now' = now
        BY <2>1, BeginNewRefines
      <4>2. DOMAIN Abs(map) = DOMAIN map
        BY <1>0
      <4>3. /\ id \notin DOMAIN Abs(map) /\ Cardinality(DOMAIN Abs(map)) < MaxInFlight
            /\ Abs(map') = [i \in DOMAIN Abs(map) \cup {id} |->
                              IF i = id THEN [fp |-> fp, deadline |-> d, waiters |-> {w}]
                              ELSE Abs(map)[i]]
        BY <4>1, <4>2, Zenon
      <4>4. Dedup!Cardinality(DOMAIN Abs(map)) = Cardinality(DOMAIN Abs(map))
        BY DEF Dedup!Cardinality, Cardinality
      <4> QED
        BY <4>1, <4>3, <4>4, Zenon DEF Dedup!Begin, Dedup!Live, Abs, Seen
    <3> QED
      BY <3>1 DEF Dedup!Next
  <2>2. CASE BeginJoined(id, fp, w)
    <3>1. Dedup!Join(id, fp, w)
      <4>1. w \notin DOMAIN waiting
        BY <1>1 DEF Begin
      <4>2. Seen(map[id]).fp = map[id].fp
        BY DEF Seen
      <4>3. /\ id \in DOMAIN Abs(map) /\ Abs(map)[id].fp = fp
            /\ \A i \in DOMAIN Abs(map) : w \notin Abs(map)[i].waiters
            /\ Abs(map') = [Abs(map) EXCEPT ![id].waiters = @ \cup {w}]
            /\ now' = now
        <5>1. /\ id \in DOMAIN map /\ map[id].fp = fp
              /\ \A i \in DOMAIN map : w \notin Seen(map[i]).waiters
              /\ Abs(map') = [Abs(map) EXCEPT ![id].waiters = @ \cup {w}]
              /\ now' = now
          BY <2>2, <4>1, BeginJoinedRefines
        <5> QED
          BY <1>0, <4>2, <5>1
      <4> QED
        BY <4>3 DEF Dedup!Join, Dedup!Live, Abs, Seen
    <3> QED
      BY <3>1 DEF Dedup!Next
  <2>3. CASE BeginRefused(id, fp)
    BY <2>3 DEF BeginRefused, vars, Dedup!dvars
  <2> QED
    BY <1>1, <2>1, <2>2, <2>3 DEF Begin
<1>2. ASSUME NEW op \in ops, Answer(op)
      PROVE  [Dedup!Next]_(Dedup!dvars)
  <2>1. Drained({op.id} \cap DOMAIN map) /\ now' = now
    BY <1>2 DEF Answer, Complete
  <2>2. Abs(map') = [id \in DOMAIN map \ ({op.id} \cap DOMAIN map) |-> Abs(map)[id]]
    BY <2>1, DrainedRefines
  <2>3. CASE op.id \in DOMAIN map
    <3>1. Dedup!Complete(op.id)
      BY <1>0, <2>1, <2>2, <2>3 DEF Dedup!Complete, Dedup!Without, Dedup!Live
    <3> QED
      BY <2>3, <3>1 DEF Dedup!Next, Dedup!Live
  <2>4. CASE op.id \notin DOMAIN map
    <3>1. DOMAIN map \ ({op.id} \cap DOMAIN map) = DOMAIN map
      BY <2>4
    <3>2. Abs(map') = [id \in DOMAIN map |-> Abs(map)[id]]
      BY <2>2, <3>1, Zenon
    <3>3. Abs(map') = Abs(map)
      BY <3>2 DEF Abs
    <3> QED
      BY <1>0, <2>1, <3>3 DEF Dedup!dvars
  <2> QED
    BY <2>3, <2>4
<1>3. CASE Expire
  <2>1. Dedup!Expire
    BY <1>0, <1>3, ExpireRefines DEF Dedup!Expire, Dedup!Without, Dedup!Live, Seen
  <2> QED
    BY <2>1 DEF Dedup!Next
<1>4. CASE Tick
  <2>1. now' > now /\ map' = map
    BY <1>4, Numbers, TableAssumption, WidthAssumption DEF Tick, table, Duration, TInv
  <2>2. Dedup!Tick
    BY <2>1 DEF Dedup!Tick
  <2> QED
    BY <2>2 DEF Dedup!Next
<1>5. CASE UNCHANGED vars
  BY <1>5 DEF vars, Dedup!dvars
<1> QED
  BY <1>1, <1>2, <1>3, <1>4, <1>5 DEF Next

(***************************************************************************)
(* The table, heap and sequence numbers and all, implements the abstract   *)
(* one.                                                                    *)
(***************************************************************************)
THEOREM TableImplementsDedup == Spec => ImplementsDedup
BY InitRefines, StepRefines, TableInvariance, PTL DEF Spec, ImplementsDedup, Dedup!Spec

-----------------------------------------------------------------------------
(***************************************************************************)
(* No caller of begin is lost or answered twice: whoever it took in is in  *)
(* one place of one entry until drained.                                   *)
(***************************************************************************)
\* Within an entry no waiter has two places.
PlacesDiffer ==
  \A id \in DOMAIN map :
    \A i, j \in DOMAIN map[id].waiters : map[id].waiters[i] = map[id].waiters[j] => i = j

\* A caller that waits is in the entry of its id.
WaitersStored ==
  \A w \in DOMAIN waiting :
    waiting[w].id \in DOMAIN map /\ w \in ToSet(map[waiting[w].id].waiters)

\* The inductive invariant of this module, with TInv for the waiters' payloads.
WInv == PlacesDiffer /\ WaitersStored

-----------------------------------------------------------------------------
\* A new waiter's place at the end differs from the others.
LEMMA AppendPlaces ==
  ASSUME NEW S, NEW q \in Seq(S), NEW w, w \notin ToSet(q),
         \A i, j \in DOMAIN q : q[i] = q[j] => i = j
  PROVE  \A i, j \in DOMAIN Append(q, w) : Append(q, w)[i] = Append(q, w)[j] => i = j
<1> DEFINE r == Append(q, w)
<1>1. /\ DOMAIN r = DOMAIN q \cup {Len(q) + 1}
      /\ r[Len(q) + 1] = w
      /\ \A i \in DOMAIN q : r[i] = q[i]
  OBVIOUS
<1>2. \A i \in DOMAIN q : q[i] # w
  BY DEF ToSet
<1> HIDE DEF r
<1>3. \A i, j \in DOMAIN r : r[i] = r[j] => i = j
  BY <1>1, <1>2
<1> QED
  BY <1>3 DEF r

LEMMA BeginNewWaiters ==
  ASSUME TInv, WInv,
         NEW id \in Ids, NEW fp \in Fingerprints, NEW d \in Deadlines, NEW w \in Waiters,
         w \notin DOMAIN waiting, BeginNew(id, fp, d, w)
  PROVE  WInv'
<1> DEFINE entry == [fp |-> fp, deadline |-> d, waiters |-> <<w>>, seq |-> NextSeq]
<1>1. /\ id \notin DOMAIN map
      /\ DOMAIN map' = DOMAIN map \cup {id} /\ map'[id] = entry
      /\ \A i \in DOMAIN map : map'[i] = map[i]
  BY DEF BeginNew, Insert
<1>2. /\ DOMAIN waiting' = DOMAIN waiting \cup {w} /\ waiting'[w] = [id |-> id, fp |-> fp]
      /\ \A v \in DOMAIN waiting : waiting'[v] = waiting[v]
  BY DEF BeginNew, Waits, Insert
<1>3. entry.waiters = <<w>> /\ DOMAIN <<w>> = {1} /\ <<w>>[1] = w
  OBVIOUS
<1> HIDE DEF entry
<1>4. PlacesDiffer'
  BY <1>1, <1>3 DEF WInv, PlacesDiffer
<1>5. w \in ToSet(entry.waiters)
  BY <1>3 DEF ToSet
<1>6. WaitersStored'
  BY <1>1, <1>2, <1>5 DEF WInv, WaitersStored
<1> QED
  BY <1>4, <1>6 DEF WInv

LEMMA BeginJoinedWaiters ==
  ASSUME TInv, WInv,
         NEW id \in Ids, NEW fp \in Fingerprints, NEW w \in Waiters,
         w \notin DOMAIN waiting, BeginJoined(id, fp, w)
  PROVE  WInv'
<1>1. /\ id \in DOMAIN map /\ map' = [map EXCEPT ![id].waiters = Append(@, w)]
      /\ waiting' = Insert(waiting, w, [id |-> id, fp |-> fp])
  BY DEF BeginJoined, Waits
<1>2. map[id] \in EntryState /\ map[id].waiters \in Seq(Waiters)
  BY <1>1 DEF TInv, TableTypeOK, EntryState
<1>3. /\ DOMAIN map' = DOMAIN map
      /\ \A i \in DOMAIN map \ {id} : map'[i] = map[i]
      /\ map'[id].waiters = Append(map[id].waiters, w)
  BY <1>1, <1>2 DEF EntryState
<1>4. /\ DOMAIN waiting' = DOMAIN waiting \cup {w} /\ waiting'[w] = [id |-> id, fp |-> fp]
      /\ \A v \in DOMAIN waiting : waiting'[v] = waiting[v]
  BY <1>1 DEF Insert
<1>5. w \notin ToSet(map[id].waiters)
  BY <1>1 DEF TInv, WaitersKnown
<1>6. PlacesDiffer'
  <2> SUFFICES ASSUME NEW e \in DOMAIN map'
               PROVE  \A i, j \in DOMAIN map'[e].waiters :
                        map'[e].waiters[i] = map'[e].waiters[j] => i = j
    BY DEF PlacesDiffer
  <2>1. CASE e = id
    <3> DEFINE q == map[id].waiters
    <3>1. \A i, j \in DOMAIN q : q[i] = q[j] => i = j
      BY <1>1 DEF WInv, PlacesDiffer
    <3>2. q \in Seq(Waiters) /\ w \notin ToSet(q) /\ map'[e].waiters = Append(q, w)
      BY <1>2, <1>3, <1>5, <2>1
    <3> HIDE DEF q
    <3> QED
      BY <3>1, <3>2, AppendPlaces
  <2>2. CASE e # id
    BY <1>3, <2>2 DEF WInv, PlacesDiffer
  <2> QED
    BY <2>1, <2>2
<1>7. ToSet(map'[id].waiters) = ToSet(map[id].waiters) \cup {w}
  BY <1>2, <1>3, AppendToSet
<1>8. ASSUME NEW v \in DOMAIN waiting'
      PROVE  waiting'[v].id \in DOMAIN map' /\ v \in ToSet(map'[waiting'[v].id].waiters)
  <2>1. CASE v = w
    <3>1. waiting'[v].id = id
      BY <1>4, <2>1
    <3>2. id \in DOMAIN map' /\ w \in ToSet(map'[id].waiters)
      BY <1>1, <1>3, <1>7
    <3> QED
      BY <2>1, <3>1, <3>2, Zenon
  <2>2. CASE v # w
    <3>1. /\ v \in DOMAIN waiting /\ waiting'[v] = waiting[v]
          /\ waiting[v].id \in DOMAIN map /\ v \in ToSet(map[waiting[v].id].waiters)
      BY <1>4, <2>2 DEF WInv, WaitersStored
    <3>2. CASE waiting[v].id = id
      BY <1>3, <1>7, <3>1, <3>2
    <3>3. CASE waiting[v].id # id
      BY <1>3, <3>1, <3>3
    <3> QED
      BY <3>2, <3>3
  <2> QED
    BY <2>1, <2>2
<1> QED
  BY <1>6, <1>8 DEF WInv, WaitersStored

\* Draining takes entries and their waiters together.
LEMMA DrainedWaiters ==
  ASSUME TInv, WInv, NEW ids \in SUBSET (DOMAIN map), Drained(ids)
  PROVE  WInv'
<1> DEFINE gone == UNION {ToSet(map[id].waiters) : id \in ids}
<1>1. /\ DOMAIN map' = DOMAIN map \ ids
      /\ \A id \in DOMAIN map' : map'[id] = map[id]
  BY DEF Drained, Without, Restrict
<1>2. /\ DOMAIN waiting' = DOMAIN waiting \ gone
      /\ \A w \in DOMAIN waiting' : waiting'[w] = waiting[w]
  BY DEF Drained, Without, Restrict
<1>3. PlacesDiffer'
  BY <1>1 DEF WInv, PlacesDiffer
<1>4. ASSUME NEW w \in DOMAIN waiting'
      PROVE  waiting'[w].id \in DOMAIN map' /\ w \in ToSet(map'[waiting'[w].id].waiters)
  <2>1. /\ w \in DOMAIN waiting /\ waiting'[w] = waiting[w] /\ w \notin gone
        /\ waiting[w].id \in DOMAIN map /\ w \in ToSet(map[waiting[w].id].waiters)
    BY <1>2 DEF WInv, WaitersStored
  <2>2. waiting[w].id \notin ids
    BY <2>1
  <2> QED
    BY <1>1, <2>1, <2>2
<1> QED
  BY <1>3, <1>4 DEF WInv, WaitersStored

LEMMA NextWaiters == TInv /\ WInv /\ [Next]_vars => WInv'
<1> SUFFICES ASSUME TInv, WInv, [Next]_vars PROVE WInv'
  OBVIOUS
<1>1. CASE UNCHANGED <<map, waiting>>
  BY <1>1 DEF WInv, PlacesDiffer, WaitersStored
<1>2. ASSUME NEW id \in Ids, NEW fp \in Fingerprints, NEW d \in Deadlines, NEW w \in Waiters,
             Begin(id, fp, d, w)
      PROVE  WInv'
  <2>1. BeginRefused(id, fp) => UNCHANGED <<map, waiting>>
    BY DEF BeginRefused, vars
  <2> QED
    BY <1>1, <1>2, <2>1, BeginNewWaiters, BeginJoinedWaiters DEF Begin
<1>3. ASSUME NEW op \in ops, Answer(op)
      PROVE  WInv'
  <2>1. Drained({op.id} \cap DOMAIN map)
    BY <1>3 DEF Answer, Complete
  <2> QED
    BY <2>1, DrainedWaiters
<1>4. CASE Expire
  <2> DEFINE ids == {item.id : item \in {i \in Due : IsCurrent(i)}}
  <2>1. Drained(ids) /\ ids \in SUBSET (DOMAIN map)
    BY <1>4 DEF Expire, IsCurrent
  <2> HIDE DEF ids
  <2> QED
    BY <2>1, DrainedWaiters
<1>5. Tick \/ UNCHANGED vars => UNCHANGED <<map, waiting>>
  BY DEF Tick, vars, table
<1> QED
  BY <1>1, <1>2, <1>3, <1>4, <1>5 DEF Next

\* The invariant puts every waiting caller in one place and nobody else in any.
LEMMA OnePlace ==
  ASSUME TInv, WInv
  PROVE  WaitersInOnePlace
<1> SUFFICES ASSUME NEW w \in Waiters
             PROVE  /\ Cardinality(Places(w)) = IF w \in DOMAIN waiting THEN 1 ELSE 0
                    /\ \A place \in Places(w) :
                         waiting[w] = [id |-> place[1], fp |-> map[place[1]].fp]
  BY DEF WaitersInOnePlace
<1>1. \A place : place \in Places(w) <=>
        \E id \in DOMAIN map : \E i \in DOMAIN map[id].waiters :
          map[id].waiters[i] = w /\ place = <<id, i>>
  BY DEF Places
<1>2. ASSUME NEW id \in DOMAIN map, NEW i \in DOMAIN map[id].waiters, map[id].waiters[i] = w
      PROVE  w \in DOMAIN waiting /\ waiting[w] = [id |-> id, fp |-> map[id].fp]
  BY <1>2 DEF TInv, WaitersKnown, ToSet
<1>3. ASSUME NEW place \in Places(w)
      PROVE  w \in DOMAIN waiting /\ waiting[w] = [id |-> place[1], fp |-> map[place[1]].fp]
  BY <1>1, <1>2
<1>4. CASE w \notin DOMAIN waiting
  <2>1. Places(w) = {}
    BY <1>3, <1>4
  <2> QED
    BY <1>3, <1>4, <2>1, FS_EmptySet
<1>5. CASE w \in DOMAIN waiting
  <2> DEFINE id == waiting[w].id
  <2>1. id \in DOMAIN map /\ w \in ToSet(map[id].waiters)
    BY <1>5 DEF WInv, WaitersStored
  <2>2. PICK i \in DOMAIN map[id].waiters : map[id].waiters[i] = w
    BY <2>1 DEF ToSet
  <2>3. ASSUME NEW place \in Places(w)
        PROVE  place = <<id, i>>
    <3>1. PICK e \in DOMAIN map : \E j \in DOMAIN map[e].waiters :
            map[e].waiters[j] = w /\ place = <<e, j>>
      BY <1>1
    <3>2. PICK j \in DOMAIN map[e].waiters : map[e].waiters[j] = w /\ place = <<e, j>>
      BY <3>1
    <3>3. waiting[w] = [id |-> e, fp |-> map[e].fp]
      BY <1>2, <3>2
    <3>4. e = id
      BY <3>3
    <3> HIDE DEF id
    <3>5. j = i
      BY <2>1, <2>2, <3>2, <3>4 DEF WInv, PlacesDiffer
    <3> QED
      BY <3>2, <3>4, <3>5
  <2>4. <<id, i>> \in Places(w)
    BY <1>1, <2>1, <2>2
  <2>5. Places(w) = {<<id, i>>}
    BY <2>3, <2>4
  <2>6. Cardinality(Places(w)) = 1
    BY <2>5, FS_Singleton
  <2> QED
    BY <1>3, <1>5, <2>6
<1> QED
  BY <1>4, <1>5

(***************************************************************************)
(* Every caller begin took in is in one place of the entry of its id and   *)
(* payload until an answer or an expiry drains it, and nobody else is in   *)
(* the table: no caller is forgotten, none is answered twice.              *)
(***************************************************************************)
THEOREM NobodyIsForgotten == Spec => []WaitersInOnePlace
<1>1. Init => WInv
  BY DEF Init, Nothing, WInv, PlacesDiffer, WaitersStored
<1>2. TInv /\ WInv /\ [Next]_vars => WInv'
  BY NextWaiters
<1>3. TInv /\ WInv => WaitersInOnePlace
  BY OnePlace
<1> QED
  BY <1>1, <1>2, <1>3, TableInvariance, PTL DEF Spec
=============================================================================
