----------------------------- MODULE MCOpenGate -----------------------------
(***************************************************************************)
(* Gate configurations for TLC, two ticks to a millisecond.                *)
(***************************************************************************)
EXTENDS DurableOpenGate

GateOf(window, fail_closed) == [window |-> window, fail_closed |-> fail_closed]

\* Windows of 3 and 4 ticks: 1 and 2 whole milliseconds; one that is refused.
MixedGates == {GateOf(3, TRUE), GateOf(4, FALSE), GateOf(0, TRUE)}
=============================================================================
