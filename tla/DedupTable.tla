------------------------------ MODULE DedupTable ------------------------------
(***************************************************************************)
(* What a table of operations in flight promises, with no word on how it   *)
(* finds what is due: one entry per id, begun by one caller and joined by  *)
(* others with the same payload; its waiters all leave together, when the  *)
(* operation completes or when the entry's deadline is seen to have come.  *)
(***************************************************************************)
EXTENDS Integers, FiniteSets

CONSTANTS Ids, Fingerprints, Waiters, Deadlines, MaxInFlight

VARIABLES
  entries,  \* [the ids in flight -> payload, deadline and waiters]
  now

dvars == <<entries, now>>

Entry == [fp : Fingerprints, deadline : Deadlines, waiters : SUBSET Waiters]

Init ==
  /\ entries = [id \in {} |-> {}]
  /\ now = 0

Live == DOMAIN entries

Without(ids) == [id \in Live \ ids |-> entries[id]]

Begin(id, fp, deadline, w) ==
  /\ id \notin Live
  /\ Cardinality(Live) < MaxInFlight
  /\ entries' = [i \in Live \cup {id} |->
                   IF i = id THEN [fp |-> fp, deadline |-> deadline, waiters |-> {w}]
                   ELSE entries[i]]
  /\ UNCHANGED now

Join(id, fp, w) ==
  /\ id \in Live /\ entries[id].fp = fp
  /\ \A i \in Live : w \notin entries[i].waiters
  /\ entries' = [entries EXCEPT ![id].waiters = @ \cup {w}]
  /\ UNCHANGED now

Complete(id) ==
  /\ entries' = Without({id})
  /\ UNCHANGED now

\* Whatever is due goes, and nothing else.
Expire ==
  /\ entries' = Without({id \in Live : entries[id].deadline <= now})
  /\ UNCHANGED now

Tick ==
  /\ now' > now
  /\ UNCHANGED entries

Next ==
  \/ \E id \in Ids, fp \in Fingerprints, d \in Deadlines, w \in Waiters : Begin(id, fp, d, w)
  \/ \E id \in Ids, fp \in Fingerprints, w \in Waiters : Join(id, fp, w)
  \/ \E id \in Live : Complete(id)
  \/ Expire
  \/ Tick

Spec == Init /\ [][Next]_dvars
=============================================================================
