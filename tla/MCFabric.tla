------------------------------ MODULE MCFabric ------------------------------
(***************************************************************************)
(* One or two heads and dongles, as each configuration says.  The time     *)
(* constants keep the order and the rough ratios of the firmware's: a      *)
(* window is longer than a beacon period, a command is repeated for at     *)
(* least two iterations of the active loop, and T_hold spans two of them.  *)
(* They satisfy what the proof of delivery assumes, as the firmware's do.  *)
(***************************************************************************)
EXTENDS Fabric, TLC

CONSTANTS h1, h2, d1, d2

ASSUME DeliverySizes == Room /\ Margin
=============================================================================
