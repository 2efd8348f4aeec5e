------------------------------ MODULE MCClient ------------------------------
(***************************************************************************)
(* One tracker.  The durations keep their order: a HELLO is repeated before*)
(* the deadline, the watchdog outlasts the period of STATUS, the delay     *)
(* between two attempts to connect doubles once, a sweep takes several     *)
(* read timeouts.                                                          *)
(***************************************************************************)
EXTENDS Client

CONSTANT i1
=============================================================================
