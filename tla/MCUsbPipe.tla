------------------------------ MODULE MCUsbPipe ------------------------------
(***************************************************************************)
(* Two producers, a ring that holds one long and one short frame or two    *)
(* short ones, and a driver buffer smaller than a long frame, so that a    *)
(* frame may be cut anywhere when the bus goes away.                       *)
(***************************************************************************)
EXTENDS UsbPipe

CONSTANTS rx_thread, sysworkq
=============================================================================
