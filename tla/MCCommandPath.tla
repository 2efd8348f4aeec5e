---------------------------- MODULE MCCommandPath ----------------------------
(* An IDENTIFY whose id holds a line feed, and a SET_RATE that is refused, *)
(* beside the HELLO and the GET_STATS of the reader; blocks of at most     *)
(* three bytes.                                                            *)
EXTENDS CommandPath

MCCommands ==
  {[kind |-> "identify", id |-> 266, arg |-> 0],
   [kind |-> "set_rate", id |-> 65535, arg |-> 208]}
=============================================================================
