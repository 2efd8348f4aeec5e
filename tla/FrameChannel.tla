---------------------------- MODULE FrameChannel ----------------------------
(***************************************************************************)
(* What each direction of the USB link promises (PROTOCOL.md 1.2 and the   *)
(* comments of firmware/app_dongle/src/usb_io.c): frames arrive whole, in  *)
(* the order they were accepted and at most once; some may be lost.        *)
(***************************************************************************)
EXTENDS Naturals

VARIABLES
  accepted,   \* frames accepted so far; a frame is its number
  last,       \* the last frame that arrived
  received    \* how many arrived

Init == accepted = 0 /\ last = 0 /\ received = 0

Accept == accepted' = accepted + 1 /\ UNCHANGED <<last, received>>

Arrive ==
  /\ last' \in last + 1 .. accepted
  /\ received' = received + 1
  /\ UNCHANGED accepted

Next == Accept \/ Arrive

Spec == Init /\ [][Next]_<<accepted, last, received>>
=============================================================================
