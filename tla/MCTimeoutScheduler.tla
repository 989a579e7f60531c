------------------------- MODULE MCTimeoutScheduler -------------------------
(***************************************************************************)
(* An instance of TimeoutScheduler.                                         *)
(***************************************************************************)
EXTENDS TimeoutScheduler

CONSTANTS u1, u2, t1, t2, h1, h2

=============================================================================
