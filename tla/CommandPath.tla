----------------------------- MODULE CommandPath -----------------------------
(***************************************************************************)
(* The way of a command from a thread of an application to the dongle:     *)
(* Client::write_frame() of host/libheadtracker/src/client.cpp, the POSIX  *)
(* SerialPort of transport.cpp, and the receive half of                    *)
(* firmware/app_dongle/src/usb_io.c, on the bytes that Codec makes.        *)
(*                                                                         *)
(* Commands come from any thread and are serialised by write_mu_.  The     *)
(* reader thread of the client, which says HELLO through the same lock,    *)
(* opens and closes the port without it.  A write() that finds no room     *)
(* (EAGAIN) spins with the lock held.  At the dongle the CDC callback may  *)
(* interrupt the work item between any two bytes.                          *)
(***************************************************************************)
EXTENDS Codec

CONSTANTS
  Threads,    \* of the application
  Reader,     \* the client's own
  Commands,   \* what applications ask for, [kind, id, arg]
  None,
  WIRE,       \* bytes between the host's write() and the dongle's callback
  FIFO,       \* bytes of a uart_fifo_read(), 64
  RING,       \* bytes of rx_ring, 256
  Probes,     \* bytes to try the codec with
  MaxCalls,   \* bound on the commands of an application
  MaxEvents   \* bound on port losses, unplugs and overflows

ASSUME PathAssumption ==
  /\ Reader \notin Threads /\ None \notin Threads \cup {Reader}
  /\ {WIRE, FIFO, RING} \subseteq Nat \ {0}
  /\ {MaxCalls, MaxEvents} \subseteq Nat
  /\ Probes \subseteq 0 .. 255

ASSUME CommandsAssumption ==
  Commands \subseteq [kind : DOMAIN PktType, id : 0 .. 2^16 - 1, arg : 0 .. 2^16 - 1]

Writers == Threads \cup {Reader}

\* What the reader says of its own accord.
Hello == [kind |-> "hello", id |-> 0, arg |-> 0]
GetStats == [kind |-> "get_stats", id |-> 0, arg |-> 0]

Frames == [c \in Commands \cup {Hello, GetStats} |-> Frame(c)]

\* At most two frames of each session, and those of the applications.
MaxFrames == 2 * (MaxEvents + 1) + MaxCalls

VARIABLES
  write_mu_,     \* its holder, or None
  writer,        \* where a thread is in write_frame(), its command, what is left
  port,          \* fd_: "closed", "cooked" until it is configured, "raw"
  client,        \* the reader: "down", "opening", "handshake", "session"
  plugged,       \* is there a dongle?
  wire,          \* bytes on their way, <<byte, number of the frame>>
  rx_ring,
  rx_block,
  rx_block_overflow,
  order,         \* history: payloads in the order their writers had the lock
  last,          \* the number of the last command dispatched; 0 is none of them
  received,      \* commands dispatched
  spoilt,        \* history: the last frame that a disturbance may have hit
  calls, events

dongleVars == <<rx_ring, rx_block, rx_block_overflow, last, received>>
vars == <<write_mu_, writer, port, client, plugged, wire, dongleVars, order,
          spoilt, calls, events>>

Idle == [pc |-> "idle", cmd |-> None, rest |-> <<>>]

Init ==
  /\ write_mu_ = None
  /\ writer = [w \in Writers |-> Idle]
  /\ port = "closed"
  /\ client = "down"
  /\ plugged = TRUE
  /\ wire = <<>>
  /\ rx_ring = <<>>
  /\ rx_block = <<>>
  /\ rx_block_overflow = FALSE
  /\ order = <<>>
  /\ last = 0
  /\ received = 0
  /\ spoilt = 0
  /\ calls = 0
  /\ events = 0

\* What is being written may be lost, and the frame behind it with its start.
Spoils == spoilt' = Len(order) + 1

-----------------------------------------------------------------------------
(* write_frame() and SerialPort::write(), in any thread.                   *)

\* identify() and the others; a command that its encoder refuses stops here.
Call(t, c) ==
  /\ writer[t].pc = "idle" /\ calls < MaxCalls
  /\ Frames[c] # <<>>
  /\ calls' = calls + 1
  /\ writer' = [writer EXCEPT ![t] = [pc |-> "lock", cmd |-> c, rest |-> <<>>]]
  /\ UNCHANGED <<write_mu_, port, client, plugged, wire, dongleVars, order,
                 spoilt, events>>

\* Mutant: the lock is not taken.
LockIgnored == TRUE

LockFree == write_mu_ = None

\* The lock, and is_open().
Lock(w) ==
  /\ writer[w].pc = "lock" /\ LockFree
  /\ IF port = "closed"
     THEN /\ writer' = [writer EXCEPT ![w] = Idle]
          /\ UNCHANGED <<write_mu_, order>>
     ELSE /\ writer' = [writer EXCEPT ![w].pc = "write",
                                    ![w].rest = Frames[writer[w].cmd]]
          /\ write_mu_' = w
          /\ order' = Append(order, Payload(writer[w].cmd))
  /\ UNCHANGED <<port, client, plugged, wire, dongleVars, spoilt, calls,
                 events>>

\* A tty that is not raw yet sends a line feed as two bytes.
Cooked(bytes) ==
  FoldLeft(LAMBDA s, b : s \o (IF b = 10 THEN <<13, 10>> ELSE <<b>>), <<>>, bytes)

Sent(bytes) ==
  LET s == IF port = "cooked" THEN Cooked(bytes) ELSE bytes
  IN [i \in 1 .. Len(s) |-> <<s[i], Len(order)>>]

\* ::write() of what there is room for.
Write(w) ==
  /\ writer[w].pc = "write"
  /\ port # "closed" /\ plugged /\ Len(wire) < WIRE
  /\ LET rest == writer[w].rest
         k == Min({Len(rest), WIRE - Len(wire)})
     IN /\ wire' = wire \o Sent(SubSeq(rest, 1, k))
        /\ IF k = Len(rest)
           THEN writer' = [writer EXCEPT ![w] = Idle] /\ write_mu_' = None
           ELSE writer' = [writer EXCEPT ![w].rest = SubSeq(@, k + 1, Len(@))]
                /\ UNCHANGED write_mu_
  /\ UNCHANGED <<port, client, plugged, dongleVars, order, spoilt, calls,
                 events>>

\* The port was closed under the writer, or has lost its device.
WriteFails(w) ==
  /\ writer[w].pc = "write"
  /\ port = "closed" \/ ~plugged
  /\ writer' = [writer EXCEPT ![w] = Idle]
  /\ write_mu_' = None
  /\ Spoils
  /\ UNCHANGED <<port, client, plugged, wire, dongleVars, order, calls,
                 events>>

-----------------------------------------------------------------------------
(* The reader thread: SerialPort::open() and close(), and the HELLO.       *)

Open ==
  /\ client = "down" /\ plugged
  /\ port' = "cooked"
  /\ client' = "opening"
  /\ Spoils
  /\ UNCHANGED <<write_mu_, writer, plugged, wire, dongleVars, order, calls,
                 events>>

\* tcsetattr() finds the device gone.
OpenFails ==
  /\ client = "opening" /\ ~plugged
  /\ port' = "closed"
  /\ client' = "down"
  /\ UNCHANGED <<write_mu_, writer, plugged, wire, dongleVars, order, spoilt,
                 calls, events>>

Wants(c) == writer' = [writer EXCEPT ![Reader] = [pc |-> "lock", cmd |-> c, rest |-> <<>>]]

\* tcsetattr(), and tcflush() of what has not left the host.
Configure ==
  /\ client = "opening" /\ plugged
  /\ port' = "raw"
  /\ \E k \in 0 .. Len(wire) : wire' = SubSeq(wire, 1, k)
  /\ client' = "handshake"
  /\ Wants(Hello)
  /\ Spoils
  /\ UNCHANGED <<write_mu_, plugged, dongleVars, order, calls, events>>

\* The HELLO is out and answered; the list of trackers is asked for.
Ready ==
  /\ client = "handshake" /\ writer[Reader].pc = "idle" /\ plugged
  /\ client' = "session"
  /\ Wants(GetStats)
  /\ UNCHANGED <<write_mu_, port, plugged, wire, dongleVars, order, spoilt,
                 calls, events>>

\* A failed HELLO, the watchdog or a dead port; what is under way may be lost.
Close ==
  /\ client \in {"handshake", "session"} /\ writer[Reader].pc = "idle"
  /\ ~plugged \/ events < MaxEvents
  /\ events' = IF plugged THEN events + 1 ELSE events
  /\ port' = "closed"
  /\ client' = "down"
  /\ \E k \in 0 .. Len(wire) : wire' = SubSeq(wire, 1, k)
  /\ Spoils
  /\ UNCHANGED <<write_mu_, writer, plugged, dongleVars, order, calls>>

-----------------------------------------------------------------------------
(* The dongle: the receive half of cdc_irq_handler(), and rx_work_fn().    *)

Isr ==
  /\ plugged /\ wire # <<>>
  /\ LET n == Min({Len(wire), FIFO})
         k == Min({n, RING - Len(rx_ring)})
     IN /\ rx_ring' = rx_ring \o SubSeq(wire, 1, k)
        /\ wire' = SubSeq(wire, n + 1, Len(wire))
        /\ IF k = n THEN UNCHANGED <<events, spoilt>>
           ELSE events < MaxEvents /\ events' = events + 1 /\ Spoils
  /\ UNCHANGED <<write_mu_, writer, port, client, plugged, rx_block,
                 rx_block_overflow, last, received, order, calls>>

\* dispatch_payload(): a type it knows, of the right length, for a target.
Dispatches(p) ==
  \E kind \in DOMAIN PktType :
    /\ p[1] = PktType[kind]
    /\ Len(p) = CASE kind = "get_stats" -> 1
                  [] kind \in {"hello", "sim_mode"} -> 2
                  [] kind \in {"reset_fusion", "identify"} -> 3
                  [] kind = "set_mode" -> 4
                  [] kind = "set_rate" -> 5
    /\ kind \in {"hello", "get_stats", "sim_mode"} \/ valid_target(p[2] + 2^8 * p[3])

\* Mutant: a block that overflowed once marks all that follow it.
OverflowKept == rx_block_overflow

OverflowCleared == FALSE

BlockBytes == [i \in 1 .. Len(rx_block) |-> rx_block[i][1]]

\* The frames with a byte in the block.
InBlock == {rx_block[i][2] : i \in DOMAIN rx_block}

\* The last of them that says p, if any does.
Says(p) == Max({0} \cup {n \in InBlock : order[n] = p})

\* The end of a block.
BlockEnd ==
  LET p == IF rx_block = <<>> \/ rx_block_overflow THEN <<>>
           ELSE htk_frame_decode(BlockBytes)
  IN /\ IF p # <<>> /\ Dispatches(p)
        THEN /\ last' = Says(p)
             /\ received' = received + 1
        ELSE UNCHANGED <<last, received>>
     /\ rx_block' = <<>>
     /\ rx_block_overflow' = OverflowCleared

\* rx_work_fn(), a byte at a time.
Work ==
  /\ plugged /\ rx_ring # <<>>
  /\ rx_ring' = Tail(rx_ring)
  /\ \/ Head(rx_ring)[1] = 0 /\ BlockEnd
     \/ /\ Head(rx_ring)[1] # 0
        /\ IF Len(rx_block) < MAX_FRAME
           THEN rx_block' = Append(rx_block, Head(rx_ring)) /\ UNCHANGED rx_block_overflow
           ELSE rx_block_overflow' = TRUE /\ UNCHANGED rx_block
        /\ UNCHANGED <<last, received>>
  /\ UNCHANGED <<write_mu_, writer, port, client, plugged, wire, order,
                 spoilt, calls, events>>

\* The dongle is taken away, and comes back restarted.
Unplug ==
  /\ plugged /\ events < MaxEvents
  /\ events' = events + 1
  /\ plugged' = FALSE
  /\ wire' = <<>> /\ rx_ring' = <<>> /\ rx_block' = <<>>
  /\ rx_block_overflow' = FALSE
  /\ Spoils
  /\ UNCHANGED <<write_mu_, writer, port, client, last, received, order,
                 calls>>

\* The new device is not the one that the old descriptor stands for.
Plug ==
  /\ ~plugged /\ client = "down"
  /\ plugged' = TRUE
  /\ UNCHANGED <<write_mu_, writer, port, client, wire, dongleVars, order,
                 spoilt, calls, events>>

-----------------------------------------------------------------------------
Return(w) == Lock(w) \/ Write(w) \/ WriteFails(w)

Next ==
  \/ \E t \in Threads, c \in Commands : Call(t, c)
  \/ \E w \in Writers : Return(w)
  \/ Open \/ OpenFails \/ Configure \/ Ready \/ Close
  \/ Isr \/ Work
  \/ Unplug \/ Plug

Spec == Init /\ [][Next]_vars

\* What Work does to the ring, without what it does with the byte.
Consumed == plugged /\ rx_ring # <<>> /\ rx_ring' = Tail(rx_ring)

\* Threads are scheduled, the reader gives up a dead port, and a dongle that
\* is there takes bytes.
FairSpec ==
  /\ Spec
  /\ \A w \in Writers : WF_vars(Return(w))
  /\ WF_vars(Configure \/ OpenFails) /\ WF_vars(Close /\ ~plugged)
  /\ WF_vars(Isr) /\ WF_rx_ring(Consumed)

-----------------------------------------------------------------------------
(* Properties.                                                             *)

(* Every payload that fits comes out of the codec as it went in, and no    *)
(* byte of its frame but the last is a delimiter.  Tried once, before      *)
(* anything has happened (htk_cobs.c, htk_frame.c).                        *)
CodecExact ==
  calls = 0 /\ client = "down" /\ events = 0 /\ order = <<>> =>
    \A n \in 1 .. MAX_PAYLOAD : \A p \in [1 .. n -> Probes] :
      LET f == htk_frame_encode(p)
      IN /\ f # <<>> /\ f[Len(f)] = 0
         /\ \A i \in 1 .. Len(f) - 1 : f[i] # 0
         /\ htk_frame_decode(Front(f)) = p

\* What ends at a delimiter is not the whole of a frame that was written.
Damaged == \A n \in InBlock : BlockBytes # Front(htk_frame_encode(order[n]))

(* What ends at a delimiter and is not the whole of a frame that was       *)
(* written - cut, merged with another, rewritten by the tty - is never     *)
(* executed as a command that none of its bytes were written for: the      *)
(* checksum, the codes of COBS or the length of the command give it away   *)
(* (usb_io.c:145-154, htk_frame.c).                                        *)
DamageDetected ==
  plugged /\ rx_ring # <<>> /\ Head(rx_ring)[1] = 0
    /\ rx_block # <<>> /\ ~rx_block_overflow /\ Damaged =>
    LET p == htk_frame_decode(BlockBytes)
    IN p = <<>> \/ ~Dispatches(p) \/ \E n \in InBlock : order[n] = p

(* The dongle executes commands that were written, in the order in which   *)
(* their writers had the lock and at most once: what ports lost, full      *)
(* rings and lines not yet raw leave of them never passes for another.     *)
Channel == INSTANCE FrameChannel WITH accepted <- Len(order)

CommandsInOrder == Channel!Spec

(* A frame that no disturbance has hit is dispatched itself, whatever was  *)
(* cut before it (usb_io.c:172-173: the parser resynchronises).            *)
Dispatched ==
  \A n \in 1 .. MaxFrames :
    (Len(order) = n /\ last < n /\ spoilt < n) ~> (last = n \/ spoilt >= n)
=============================================================================
