------------------------------ MODULE MCHistory ------------------------------
(***************************************************************************)
(* The values of MCLimiter for the specification with history variables.   *)
(***************************************************************************)
EXTENDS MCLimiter, LimiterHistory
=============================================================================
