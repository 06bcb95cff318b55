------------------------------- MODULE OpenGate -------------------------------
(***************************************************************************)
(* What a durable open gate promises, whatever crashes in between: opens   *)
(* are granted one at a time, each only after the lock of the one before   *)
(* has run out.  Taking the lock and telling the caller are two steps, and *)
(* the second may never happen: then the window passes without an open.    *)
(* Nothing is assumed about the times callers present.                     *)
(***************************************************************************)
EXTENDS Integers

CONSTANTS
  Instants,  \* times, in milliseconds, up to the last one
  Windows    \* lengths of the windows gates are configured with

VARIABLES
  locked_until,  \* the end of the lock taken last
  granted_until, \* the end of the lock of the last open that was granted
  owed           \* a lock was taken for a caller that has not been told

gvars == <<locked_until, granted_until, owed>>

Init ==
  /\ locked_until = 0
  /\ granted_until = 0
  /\ owed = FALSE

\* The lock is taken at `at`; it may be lost at once, and is owed to nobody then.
Lock(at, window) ==
  /\ at >= locked_until
  /\ locked_until' \in Instants
  /\ \/ locked_until' = at + window
     \/ at + window \notin Instants /\ \A i \in Instants : i <= locked_until'
  /\ owed' \in BOOLEAN
  /\ UNCHANGED granted_until

Grant ==
  /\ owed
  /\ granted_until' = locked_until
  /\ owed' = FALSE
  /\ UNCHANGED locked_until

Lose ==
  /\ owed
  /\ owed' = FALSE
  /\ UNCHANGED <<locked_until, granted_until>>

Next ==
  \/ \E at \in Instants, window \in Windows : Lock(at, window)
  \/ Grant
  \/ Lose

Spec == Init /\ [][Next]_gvars
=============================================================================
