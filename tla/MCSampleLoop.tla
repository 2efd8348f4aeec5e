---------------------------- MODULE MCSampleLoop ----------------------------
(***************************************************************************)
(* One head.  A unit of time is a sample, so the times of the detector are *)
(* shrunk together with the queue and the decimation; they keep their      *)
(* order, and what the proof about taps assumes, as the firmware's do.     *)
(***************************************************************************)
EXTENDS SampleLoop

ASSUME TapSizes == Prompt
=============================================================================
