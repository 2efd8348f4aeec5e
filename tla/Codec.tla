-------------------------------- MODULE Codec --------------------------------
(***************************************************************************)
(* The frames of the USB side, byte by byte: COBS, the checksum and the    *)
(* framing of firmware/common/protocol, and the commands that              *)
(* host/libheadtracker/src/commands.cpp puts in them.  A function of the   *)
(* code that reports failure with a length of zero returns << >> here.     *)
(***************************************************************************)
EXTENDS Naturals, Sequences, SequencesExt

CONSTANTS
  MAX_PAYLOAD,  \* HTK_MAX_PAYLOAD, 59
  MAX_FRAME,    \* HTK_MAX_FRAME, 64
  MAX_CODE      \* the code of a block that no zero ends, 255

ASSUME CodecAssumption ==
  /\ MAX_PAYLOAD \in Nat \ {0}
  /\ MAX_FRAME \in Nat
  /\ MAX_CODE \in 2 .. 255
  \* The longest frame: a code for every full block, one more, the delimiter.
  /\ MAX_PAYLOAD + 2 + (MAX_PAYLOAD + 2) \div (MAX_CODE - 1) + 2 <= MAX_FRAME

Capped(s, cap) == IF Len(s) <= cap THEN s ELSE <<>>

-----------------------------------------------------------------------------
(* htk_cobs.c: a block is a code and code - 1 bytes that are not zero.     *)

\* code_pos gets its code, and the next block is begun.
CobsClose(s) ==
  [out |-> Append([s.out EXCEPT ![s.pos] = s.code], 0),
   pos |-> Len(s.out) + 1, code |-> 1]

CobsPut(s, b) ==
  LET t == [s EXCEPT !.out = Append(@, b), !.code = @ + 1]
  IN IF t.code = MAX_CODE THEN CobsClose(t) ELSE t

htk_cobs_encode(in, cap) ==
  LET s == FoldLeft(LAMBDA t, b : IF b = 0 THEN CobsClose(t) ELSE CobsPut(t, b),
                    [out |-> <<0>>, pos |-> 1, code |-> 1], in)
  IN Capped([s.out EXCEPT ![s.pos] = s.code], cap)

\* Mutant: a zero is put back behind a block of the largest code, too.
EndsInZeroAlways(code) == TRUE

EndsInZero(code) == code < MAX_CODE

\* left: bytes to come of this block; zero: one is due if there is a next one.
CobsTake(s, b) ==
  IF s.left > 0 THEN [s EXCEPT !.out = Append(@, b), !.left = @ - 1]
  ELSE [out |-> IF s.zero THEN Append(s.out, 0) ELSE s.out,
        left |-> IF b = 0 THEN 0 ELSE b - 1,
        zero |-> EndsInZero(b),
        bad |-> s.bad \/ b = 0]

htk_cobs_decode(in, cap) ==
  LET s == FoldLeft(CobsTake,
                    [out |-> <<>>, left |-> 0, zero |-> FALSE, bad |-> FALSE], in)
  IN IF s.bad \/ s.left > 0 THEN <<>> ELSE Capped(s.out, cap)

-----------------------------------------------------------------------------
(* htk_crc16.c: CRC-16/CCITT-FALSE, a register of 16 bits.                 *)

\* x with its bit of weight w turned over.
Flip(x, w) == IF (x \div w) % 2 = 0 THEN x + w ELSE x - w

\* A shift to the left, and the polynomial 0x1021 for the bit that fell out.
CrcBit(crc, bit) ==
  LET s == (2 * crc) % 2^16
  IN IF crc < 2^15 THEN s ELSE Flip(Flip(s + 1, 2^5), 2^12)

\* The byte meets the upper half of the register bit by bit.
CrcByte(crc, b) ==
  LET Bits == [i \in 1 .. 8 |-> 2^(i - 1)]
      in == FoldLeft(LAMBDA x, w : IF (b \div w) % 2 = 0 THEN x ELSE Flip(x, 2^8 * w),
                     crc, Bits)
  IN FoldLeft(CrcBit, in, Bits)

htk_crc16(data) == FoldLeft(CrcByte, 65535, data)

-----------------------------------------------------------------------------
(* htk_frame.c                                                             *)

htk_frame_encode(payload) ==
  LET crc == htk_crc16(payload)
      enc == htk_cobs_encode(payload \o <<crc % 2^8, crc \div 2^8>>, MAX_FRAME)
  IN IF payload = <<>> \/ Len(payload) > MAX_PAYLOAD THEN <<>>
     ELSE IF enc = <<>> \/ Len(enc) + 1 > MAX_FRAME THEN <<>>
     ELSE Append(enc, 0)

\* Mutant: the checksum is not compared.
AnyCrc(payload, crc) == TRUE

CrcAgrees(payload, crc) == htk_crc16(payload) = crc

htk_frame_decode(block) ==
  LET buf == htk_cobs_decode(block, MAX_PAYLOAD + 2)
      plen == Len(buf) - 2
      rx_crc == buf[plen + 1] + 2^8 * buf[plen + 2]
  IN IF Len(buf) < 3 THEN <<>>
     ELSE IF ~CrcAgrees(SubSeq(buf, 1, plen), rx_crc) THEN <<>>
     ELSE SubSeq(buf, 1, plen)

-----------------------------------------------------------------------------
(* commands.cpp, with the types and packed structures of htk_protocol.h.   *)

\* The type of a payload, its first byte.
PktType ==
  [hello |-> 16, reset_fusion |-> 17, set_rate |-> 18, set_mode |-> 19,
   get_stats |-> 20, identify |-> 21, sim_mode |-> 31]

HTK_PROTO_VERSION == 1
HTK_MODE_BOTH == 2

Le16(n) == <<n % 2^8, n \div 2^8>>

valid_target(id) == id \notin {0, 65535}

\* The payload of a command [kind, id, arg].
Payload(c) ==
  LET body == CASE c.kind = "hello" -> <<HTK_PROTO_VERSION>>
                [] c.kind = "get_stats" -> <<>>
                [] c.kind = "sim_mode" -> <<c.arg>>
                [] c.kind \in {"reset_fusion", "identify"} -> Le16(c.id)
                [] c.kind = "set_mode" -> Append(Le16(c.id), c.arg)
                [] c.kind = "set_rate" -> Le16(c.id) \o Le16(c.arg)
  IN <<PktType[c.kind]>> \o body

\* Those that name a tracker are refused for a reserved id.
Frame(c) ==
  IF \/ c.kind \notin {"hello", "get_stats", "sim_mode"} /\ ~valid_target(c.id)
     \/ c.kind = "set_mode" /\ c.arg > HTK_MODE_BOTH
  THEN <<>> ELSE htk_frame_encode(Payload(c))
=============================================================================
