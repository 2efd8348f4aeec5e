---------------------------- MODULE MCStabilizer ----------------------------
(***************************************************************************)
(* A gap is longer than two units of time.  Every time of the options is   *)
(* longer than a gap, and those of the tap are equal, as in the code; one  *)
(* kind of request stands for the three.                                   *)
(***************************************************************************)
EXTENDS Stabilizer

CONSTANT k1
=============================================================================
