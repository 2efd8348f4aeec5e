----------------------------- MODULE HeadRadio -----------------------------
(***************************************************************************)
(* The radio of a head unit (firmware/app_head/src/radio.c) shared by two  *)
(* threads of firmware/app_head/src/main.c: the fusion thread broadcasts   *)
(* samples, the main thread turns the radio round for a listen window.     *)
(*                                                                         *)
(* Main has the higher priority on a single core: it gives way only where  *)
(* it sleeps or waits for radio_lock, so what it does between two such     *)
(* points is not interrupted; the fusion thread is cut wherever main may   *)
(* wake up.  Every reconfiguration of the radio can fail, before or after  *)
(* esb_init().  The self-report main sends right after a window takes no   *)
(* sequence number and is left out.                                        *)
(***************************************************************************)
EXTENDS Integers, Sequences, FiniteSets

CONSTANTS
  SEQ_MOD,        \* 2^16, the sequence space of ORIENT and RAW
  TX_FIFO,        \* depth of the ESB transmit FIFO
  MaxFaults       \* bound on reconfigurations that fail

ASSUME RadioAssumption ==
  /\ SEQ_MOD \in Nat \ {0}
  /\ TX_FIFO \in Nat \ {0}
  /\ MaxFaults \in Nat

VARIABLES
  radio_lock,    \* the mutex: who holds it
  radio,         \* what ESB is set up for, and in_ptx, what radio.c believes
  fifo,          \* sequence numbers written to ESB and not on the air yet
  sender,        \* the fusion thread: where it is, what it still has to send
  control,       \* the main thread: where it is
  streaming,     \* g_streaming
  mode,          \* g_mode
  seq,           \* the next sequence number
  sent,          \* history: samples that went on the air, modulo SEQ_MOD
  faults,        \* reconfigurations that failed
  failed         \* of them, those of the latest listen

radioVars == <<radio_lock, radio, fifo, sender, control, streaming, mode, seq,
               sent, faults, failed>>

Modes == {"QUAT", "RAW", "BOTH"}

\* Mutant: the mode is believed before the calls are made.
FailuresFlagEarly(r, m) ==
  {[esb |-> e, addressed |-> FALSE, in_ptx |-> m = "PTX"] : e \in {"off", m}}

\* esb_configure() that succeeds, and that fails: in esb_init(), or in one of
\* the address calls after it.  Only success reaches the assignment of in_ptx.
Configured(m) == [esb |-> m, addressed |-> TRUE, in_ptx |-> m = "PTX"]

Failures(r, m) ==
  {[r EXCEPT !.esb = e, !.addressed = FALSE] : e \in {"off", m}}

\* A listen that does not come about: esb_configure() failed, or esb_start_rx().
ListenFailures(r) == Failures(r, "PRX") \cup {Configured("PRX")}

RadioInit ==
  /\ radio_lock = "free"
  /\ radio = Configured("PTX")  \* htk_radio_init() succeeded, or main() halted
  /\ fifo = <<>>
  /\ sender = [pc |-> "wait", left |-> 0, pkt |-> 0]
  /\ control = "sleep"
  /\ streaming = TRUE           \* enter_active() before the loop
  /\ mode = "QUAT"
  /\ seq = 0
  /\ sent = 0
  /\ faults = 0
  /\ failed = 0

-----------------------------------------------------------------------------
(* The fusion thread.                                                      *)

\* Main runs on without giving way: a listen failed and is being undone.
MainRuns == control = "restore"

Packets(m) == IF m = "BOTH" THEN 2 ELSE 1

\* A sample that is decimated, or taken while not streaming, only feeds the
\* filter.
FusionSkip ==
  /\ ~MainRuns
  /\ sender.pc = "wait"
  /\ UNCHANGED radioVars

\* A sample whose turn it is to be transmitted.
FusionSample ==
  /\ ~MainRuns
  /\ sender.pc = "wait"
  /\ streaming
  /\ sender' = [sender EXCEPT !.pc = "build", !.left = Packets(mode)]
  /\ UNCHANGED <<radio_lock, radio, fifo, control, streaming, mode, seq, sent,
                 faults, failed>>

\* The packet takes its number, whatever becomes of it.
FusionBuild ==
  /\ ~MainRuns
  /\ sender.pc = "build"
  /\ sender' = [pc |-> "send", left |-> sender.left - 1, pkt |-> seq]
  /\ seq' = (seq + 1) % SEQ_MOD
  /\ UNCHANGED <<radio_lock, radio, fifo, control, streaming, mode, sent,
                 faults, failed>>

\* The packet is done with, sent or not: fusion_thread() looks at no result.
Done == [sender EXCEPT !.pc = IF sender.left > 0 THEN "build" ELSE "wait"]

\* Mutant: the mutex is not asked for.
AcquirableAlways == TRUE

Acquirable == radio_lock = "free"

\* htk_radio_send(): k_mutex_lock(K_NO_WAIT) fails, the sample is dropped.
FusionBusy ==
  /\ ~MainRuns
  /\ sender.pc = "send" /\ ~Acquirable
  /\ sender' = Done
  /\ UNCHANGED <<radio_lock, radio, fifo, control, streaming, mode, seq, sent,
                 faults, failed>>

\* The radio is not in PTX: the sample is dropped and the mutex given back.
FusionAgain ==
  /\ ~MainRuns
  /\ sender.pc = "send" /\ Acquirable /\ ~radio.in_ptx
  /\ sender' = Done
  /\ UNCHANGED <<radio_lock, radio, fifo, control, streaming, mode, seq, sent,
                 faults, failed>>

FusionLock ==
  /\ ~MainRuns
  /\ sender.pc = "send" /\ Acquirable /\ radio.in_ptx
  /\ radio_lock' = IF radio_lock = "free" THEN "fusion" ELSE radio_lock
  /\ sender' = [sender EXCEPT !.pc = "write"]
  /\ UNCHANGED <<radio, fifo, control, streaming, mode, seq, sent, faults,
                 failed>>

\* esb_write_payload(): -EACCES when ESB is not initialised; a full FIFO is
\* flushed for the freshest packet.
Written(f, pkt) ==
  IF radio.esb = "off" THEN f
  ELSE IF Len(f) < TX_FIFO THEN Append(f, pkt)
  ELSE <<pkt>>

\* Mutant: a write that failed returns without giving the mutex back.
ReleasedIfWritten(holder) ==
  IF holder = "fusion" /\ radio.esb # "off" THEN "free" ELSE holder

Released(holder) == IF holder = "fusion" THEN "free" ELSE holder

FusionWrite ==
  /\ ~MainRuns
  /\ sender.pc = "write"
  /\ fifo' = Written(fifo, sender.pkt)
  /\ radio_lock' = Released(radio_lock)
  /\ sender' = Done
  /\ UNCHANGED <<radio, control, streaming, mode, seq, sent, faults, failed>>

-----------------------------------------------------------------------------
(* The radio.                                                              *)

\* The first packet of the FIFO leaves; from the wrong address nobody hears it.
AirTx ==
  /\ fifo # <<>> /\ radio.esb = "PTX"
  /\ fifo' = Tail(fifo)
  /\ sent' = IF radio.addressed THEN (sent + 1) % SEQ_MOD ELSE sent
  /\ UNCHANGED <<radio_lock, radio, sender, control, streaming, mode, seq,
                 faults, failed>>

-----------------------------------------------------------------------------
(* The main thread.                                                        *)

\* htk_radio_listen() takes the mutex, waiting if it must, and sleeps 500 us.
ListenLock ==
  /\ control = "sleep"
  /\ radio_lock = "free"
  /\ radio_lock' = "control"
  /\ control' = "settle"
  /\ failed' = 0
  /\ UNCHANGED <<radio, fifo, sender, streaming, mode, seq, sent, faults>>

\* esb_disable(), then the downlink: whatever was left in the FIFO is gone.
TurnToPrx ==
  /\ control = "settle"
  /\ fifo' = <<>>
  /\ \/ /\ radio' = Configured("PRX")
        /\ control' = "window"
        /\ UNCHANGED <<faults, failed>>
     \/ /\ faults < MaxFaults
        /\ radio' \in ListenFailures(radio)
        /\ control' = "restore"
        /\ faults' = faults + 1
        /\ failed' = failed + 1
  /\ UNCHANGED <<radio_lock, sender, streaming, mode, seq, sent>>

\* Mutant: the mutex is kept when the radio could not be turned back.
UnlockedIfOk(r) == IF r.addressed THEN "free" ELSE radio_lock

Unlocked(r) == "free"

\* The window is over, or was skipped: the radio turns back, and the loop
\* decides the power state and what the beacons asked of the mode.
TurnToPtx ==
  /\ control \in {"window", "restore"}
  /\ \/ /\ radio' = Configured("PTX")
        /\ UNCHANGED <<faults, failed>>
     \/ /\ faults < MaxFaults
        /\ radio' \in Failures(radio, "PTX")
        /\ faults' = faults + 1
        /\ failed' = failed + 1
  /\ fifo' = <<>>
  /\ radio_lock' = Unlocked(radio')
  /\ streaming' \in BOOLEAN
  /\ mode' \in Modes
  /\ control' = "sleep"
  /\ UNCHANGED <<sender, seq, sent>>

-----------------------------------------------------------------------------
Fusion ==
  FusionSkip \/ FusionSample \/ FusionBuild \/ FusionBusy \/ FusionAgain \/
  FusionLock \/ FusionWrite

Turn == TurnToPrx \/ TurnToPtx

RadioNext == Fusion \/ AirTx \/ ListenLock \/ Turn

RadioSpec == RadioInit /\ [][RadioNext]_radioVars

Asleep == control = "sleep"

\* Threads run.  A mutex released while main waits is handed to main.  Main
\* sleeps a second between two windows, and in that time the fusion thread,
\* which comes round every few milliseconds, gets through all its steps and
\* the radio, which needs 180 us for a packet, transmits.
FairRadioSpec ==
  /\ RadioSpec
  /\ SF_radioVars(Asleep /\ FusionSample) /\ SF_radioVars(Asleep /\ FusionBuild)
  /\ SF_radioVars(FusionLock) /\ WF_radioVars(FusionBusy)
  /\ WF_radioVars(FusionAgain) /\ WF_radioVars(FusionWrite)
  /\ SF_radioVars(ListenLock) /\ WF_radioVars(Turn)
  /\ SF_radioVars(AirTx)

-----------------------------------------------------------------------------
(* Properties.                                                             *)

Radios ==
  [esb : {"off", "PTX", "PRX"}, addressed : BOOLEAN, in_ptx : BOOLEAN]

(* Every variable has its type, and the ESB FIFO never holds more than it  *)
(* can: htk_radio_send() flushes it before it writes into a full one.      *)
TypeOK ==
  /\ radio_lock \in {"free", "fusion", "control"}
  /\ radio \in Radios
  /\ fifo \in Seq(0 .. SEQ_MOD - 1)
  /\ Len(fifo) <= TX_FIFO
  /\ sender \in [pc : {"wait", "build", "send", "write"}, left : 0 .. 2,
                 pkt : 0 .. SEQ_MOD - 1]
  /\ control \in {"sleep", "settle", "window", "restore"}
  /\ streaming \in BOOLEAN
  /\ mode \in Modes
  /\ seq \in 0 .. SEQ_MOD - 1
  /\ sent \in 0 .. SEQ_MOD - 1
  /\ faults \in 0 .. MaxFaults
  /\ failed \in 0 .. 2

Ready == radio = Configured("PTX")

(* Between listens in_ptx says whether the radio is ready to send, whatever*)
(* one reconfiguration failed and wherever it failed; only a second failure*)
(* in the same listen can leave in_ptx from before it (radio.c:112-134).   *)
FlagTruthful ==
  radio_lock # "control" /\ failed < 2 => (radio.in_ptx <=> Ready)

(* The check of in_ptx still holds when the packet is written: main cannot *)
(* turn the radio round between the two (radio.c:156-175).  So the fusion  *)
(* thread writes only to a radio that is set up for the uplink, unless both*)
(* reconfigurations of the last listen failed.                             *)
WriteFindsUplink == sender.pc = "write" /\ failed < 2 => Ready

(* The mutex is never lost and main gets to listen again and again: without*)
(* that a head hears no beacon and no command for good.                    *)
ListensForever == []<>(control = "window")

(* While a head streams, its samples keep reaching the air: no succession  *)
(* of failed reconfigurations silences it for good, since the listen after *)
(* them sets the radio up again.                                           *)
StreamResumes == <>[]streaming => []<><<AirTx /\ sent' # sent>>_radioVars
=============================================================================
