------------------------------- MODULE UsbPipe -------------------------------
(***************************************************************************)
(* The way of a frame from the dongle to the host's parser: the transmit   *)
(* half of firmware/app_dongle/src/usb_io.c and Parser::feed() of          *)
(* host/libheadtracker/src/parser.cpp, with the CDC driver between them.   *)
(*                                                                         *)
(* The rx thread and the system workqueue produce frames.  A producer may  *)
(* be interrupted, by the other or by the CDC callback, between its test of*)
(* usb_configured, its critical section and uart_irq_tx_enable(); a pass of*)
(* the callback is not interrupted by producers.  A byte is <<n, i>>, the  *)
(* i-th of frame n; the last one of a frame is its delimiter.  COBS and the*)
(* CRC are taken to tell a whole frame from any other run of bytes.        *)
(***************************************************************************)
EXTENDS Naturals, Sequences

CONSTANTS
  Producers,
  Lens,          \* encoded lengths of frames, delimiter included
  RING_SIZE,     \* bytes of tx_ring, 2048
  CDC_SIZE,      \* bytes the CDC driver buffers
  MaxFrames,     \* bound on the frames accepted
  MaxDrops,      \* bound on the frames dropped
  MaxBusEvents   \* bound on resets, suspends and reopenings of the port

ASSUME PipeAssumption ==
  /\ Lens \subseteq Nat \ {0, 1}
  /\ RING_SIZE \in Nat
  /\ CDC_SIZE \in Nat \ {0}
  /\ MaxFrames \in Nat
  /\ MaxDrops \in Nat
  /\ MaxBusEvents \in Nat

VARIABLES
  usb_configured,
  bus,           \* the USB device as it is: "up", "reset" or "suspended"
  producer,      \* where each producer is in usb_io_send_payload()
  tx_ring,       \* the frames in the ring, [n, len]
  tx_cur,        \* the frame in flight, and how much of it is out
  tx_irq,        \* uart_irq_tx_enable()
  cdc,           \* bytes in the CDC driver
  accepted,      \* frames that entered the ring; the number of the last one
  tx_dropped,
  block,         \* the host parser: bytes since the last delimiter
  decoded,       \* the last frame the host decoded
  received,      \* the frames it decoded
  torn,          \* blocks the host could not decode
  opens,         \* ports the host opened after the first
  events         \* bus events so far

vars == <<usb_configured, bus, producer, tx_ring, tx_cur, tx_irq, cdc, accepted,
          tx_dropped, block, decoded, received, torn, opens, events>>

NoFrame == [n |-> 0, len |-> 0, off |-> 0]

Init ==
  /\ usb_configured = TRUE
  /\ bus = "up"
  /\ producer = [p \in Producers |-> "idle"]
  /\ tx_ring = <<>>
  /\ tx_cur = NoFrame
  /\ tx_irq = FALSE
  /\ cdc = <<>>
  /\ accepted = 0
  /\ tx_dropped = 0
  /\ block = <<>>
  /\ decoded = 0
  /\ received = 0
  /\ torn = 0
  /\ opens = 0
  /\ events = 0

-----------------------------------------------------------------------------
(* usb_io_send_payload().                                                  *)

\* Without a host the frame is discarded at once, and nothing changes.
Check(p) ==
  /\ producer[p] = "idle"
  /\ usb_configured
  /\ accepted < MaxFrames /\ tx_dropped < MaxDrops
  /\ producer' = [producer EXCEPT ![p] = "checked"]
  /\ UNCHANGED <<usb_configured, bus, tx_ring, tx_cur, tx_irq, cdc, accepted,
                 tx_dropped, block, decoded, received, torn, opens, events>>

RingUsed(ring) ==
  LET used[i \in 0 .. Len(ring)] ==
        IF i = 0 THEN 0 ELSE used[i - 1] + ring[i].len + 1
  IN used[Len(ring)]

Fits(len) == RingUsed(tx_ring) + len + 1 <= RING_SIZE

Enqueue(p) ==
  /\ producer[p] = "checked"
  /\ \E len \in Lens :
       IF Fits(len)
       THEN /\ tx_ring' = Append(tx_ring, [n |-> accepted + 1, len |-> len])
            /\ accepted' = accepted + 1
            /\ producer' = [producer EXCEPT ![p] = "enqueued"]
            /\ UNCHANGED tx_dropped
       ELSE /\ tx_dropped' = tx_dropped + 1
            /\ producer' = [producer EXCEPT ![p] = "idle"]
            /\ UNCHANGED <<tx_ring, accepted>>
  /\ UNCHANGED <<usb_configured, bus, tx_cur, tx_irq, cdc, block, decoded,
                 received, torn, opens, events>>

EnableTx(p) ==
  /\ producer[p] = "enqueued"
  /\ tx_irq' = TRUE
  /\ producer' = [producer EXCEPT ![p] = "idle"]
  /\ UNCHANGED <<usb_configured, bus, tx_ring, tx_cur, cdc, accepted,
                 tx_dropped, block, decoded, received, torn, opens, events>>

-----------------------------------------------------------------------------
(* cdc_irq_handler(), its transmit half.                                   *)

CurDone == tx_cur.off = tx_cur.len

\* Mutant: the interrupt is turned off as soon as the frame in flight is out.
NothingToSendEarly == CurDone

NothingToSend == CurDone /\ tx_ring = <<>>

IrqIdle ==
  /\ tx_irq /\ NothingToSend
  /\ tx_irq' = FALSE
  /\ UNCHANGED <<usb_configured, bus, producer, tx_ring, tx_cur, cdc, accepted,
                 tx_dropped, block, decoded, received, torn, opens, events>>

\* Mutant: the frame is read from the ring and left in it.
FetchedPeek(ring) == ring

Fetched(ring) == Tail(ring)

\* uart_fifo_fill(): what fits, and nothing while the bus is not up.
Accepts(rest) ==
  IF bus # "up" THEN 0
  ELSE IF rest < CDC_SIZE - Len(cdc) THEN rest ELSE CDC_SIZE - Len(cdc)

\* Mutant: what did not fit is taken for sent.
FilledShort(f, k) == [f EXCEPT !.off = f.len]

Filled(f, k) == [f EXCEPT !.off = @ + k]

\* One frame, or what was left of one, and at most one in a pass.
IrqSend ==
  /\ tx_irq /\ ~NothingToSend
  /\ Len(cdc) < CDC_SIZE
  /\ LET f == IF CurDone
              THEN [n |-> Head(tx_ring).n, len |-> Head(tx_ring).len, off |-> 0]
              ELSE tx_cur
         k == Accepts(f.len - f.off)
     IN /\ tx_cur' = Filled(f, k)
        /\ cdc' = cdc \o [i \in 1 .. k |-> <<f.n, f.off + i, f.len>>]
  /\ tx_ring' = IF CurDone THEN Fetched(tx_ring) ELSE tx_ring
  /\ UNCHANGED <<usb_configured, bus, producer, tx_irq, accepted, tx_dropped,
                 block, decoded, received, torn, opens, events>>

-----------------------------------------------------------------------------
(* The host: Parser::feed(), a byte at a time.                             *)

IsDelimiter(b) == b[2] = b[3]

\* The bytes of a frame, all of them and nothing else.
Whole(blk) ==
  blk = [i \in 1 .. Len(blk) |-> <<blk[1][1], i, blk[1][3]>>]
  /\ Len(blk) = blk[1][3] - 1

HostRead ==
  /\ bus = "up" /\ cdc # <<>>
  /\ cdc' = Tail(cdc)
  /\ block' = IF IsDelimiter(Head(cdc)) THEN <<>> ELSE Append(block, Head(cdc))
  /\ IF ~IsDelimiter(Head(cdc)) \/ block = <<>>
     THEN UNCHANGED <<decoded, received, torn>>
     ELSE IF Whole(block)
     THEN decoded' = block[1][1] /\ received' = received + 1 /\ UNCHANGED torn
     ELSE torn' = torn + 1 /\ UNCHANGED <<decoded, received>>
  /\ UNCHANGED <<usb_configured, bus, producer, tx_ring, tx_cur, tx_irq,
                 accepted, tx_dropped, opens, events>>

\* The application closes its port, which may drop bytes on their way, and
\* opens it again: Parser::reset().
HostReopen ==
  /\ events < MaxBusEvents
  /\ events' = events + 1
  /\ opens' = opens + 1
  /\ block' = <<>>
  /\ cdc' \in {cdc, <<>>}
  /\ UNCHANGED <<usb_configured, bus, producer, tx_ring, tx_cur, tx_irq,
                 accepted, tx_dropped, decoded, received, torn>>

-----------------------------------------------------------------------------
(* The bus, and usb_status_cb().                                           *)

\* The host resets the bus: the port is gone, the driver may drop its bytes.
BusReset ==
  /\ bus # "reset" /\ events < MaxBusEvents
  /\ events' = events + 1
  /\ bus' = "reset"
  /\ usb_configured' = FALSE
  /\ cdc' \in {cdc, <<>>}
  /\ UNCHANGED <<producer, tx_ring, tx_cur, tx_irq, accepted, tx_dropped, block,
                 decoded, received, torn, opens>>

\* USB_DC_CONFIGURED; the host opens the new port.
BusConfigure ==
  /\ bus = "reset"
  /\ bus' = "up"
  /\ usb_configured' = TRUE
  /\ opens' = opens + 1
  /\ block' = <<>>
  /\ UNCHANGED <<producer, tx_ring, tx_cur, tx_irq, cdc, accepted, tx_dropped,
                 decoded, received, torn, events>>

\* The host sleeps: USB_DC_SUSPEND.
BusSuspend ==
  /\ bus = "up" /\ events < MaxBusEvents
  /\ events' = events + 1
  /\ bus' = "suspended"
  /\ usb_configured' = FALSE
  /\ UNCHANGED <<producer, tx_ring, tx_cur, tx_irq, cdc, accepted, tx_dropped,
                 block, decoded, received, torn, opens>>

\* It wakes up: USB_DC_RESUME is not one of the cases of usb_status_cb(), and
\* the device stays configured for the host, which does not configure it anew.
BusResume ==
  /\ bus = "suspended"
  /\ bus' = "up"
  /\ UNCHANGED <<usb_configured, producer, tx_ring, tx_cur, tx_irq, cdc,
                 accepted, tx_dropped, block, decoded, received, torn, opens,
                 events>>

-----------------------------------------------------------------------------
Irq == IrqIdle \/ IrqSend

Next ==
  \/ \E p \in Producers : Check(p) \/ Enqueue(p) \/ EnableTx(p)
  \/ Irq
  \/ HostRead \/ HostReopen
  \/ BusReset \/ BusConfigure \/ BusSuspend \/ BusResume

Spec == Init /\ [][Next]_vars

\* Producers finish what they began, the driver calls back while it has room,
\* the host reads what there is and brings the bus up again.
FairSpec ==
  /\ Spec
  /\ \A p \in Producers : WF_vars(Enqueue(p)) /\ WF_vars(EnableTx(p))
  /\ WF_vars(Irq)
  /\ WF_vars(HostRead)
  /\ WF_vars(BusConfigure) /\ WF_vars(BusResume)

-----------------------------------------------------------------------------
(* Properties.                                                             *)

(* Frames reach the host in the order they were accepted and at most once, *)
(* across resets, suspends and reopenings of the port.                     *)
Channel == INSTANCE FrameChannel WITH last <- decoded

InOrderOnce == Channel!Spec

(* Frames are never interleaved, cut or overwritten in the ring, which     *)
(* holds the length byte of each as well: the host meets a block it cannot *)
(* decode only as the first one of a port it opened in the middle of a     *)
(* frame (usb_io.c:201-213).                                               *)
WholeFrames == torn <= opens /\ RingUsed(tx_ring) <= RING_SIZE

(* No wakeup is lost: while nothing disturbs the bus, every frame accepted *)
(* reaches the host, though no later frame comes to push it out.           *)
AllDelivered ==
  \A n \in 1 .. MaxFrames :
    [](events = 0) => (accepted >= n ~> decoded >= n)

-----------------------------------------------------------------------------
(* PROTOCOL.md 1.7: STATUS arrives at 1 Hz regardless of mode.  It can only*)
(* arrive while the dongle knows that the bus is up.                       *)
UpMeansConfigured == <>[](bus = "up") => <>[]usb_configured
=============================================================================
