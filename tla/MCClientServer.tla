---------------------------- MODULE MCClientServer ----------------------------
(***************************************************************************)
(* Limiters and servers with the same limits, and a limiter that believes  *)
(* in a larger maximum than the server has.                                *)
(***************************************************************************)
EXTENDS MCLimiter, ClientServer

ClientConfigs == {Plain(Window(1, 2)), Plain(Window(2, 2)), Plain(Pool(2, 1))}
ServerLimits == {Window(1, 2), Pool(2, 1)}

\* A pool and a server of the same limits.
PoolAlone == {Plain(Pool(2, 1))}

\* The waits a server announces.
AnyWait == 0..DurationMax
=============================================================================
