------------------------------ MODULE Trackers ------------------------------
(***************************************************************************)
(* The dongle's tracker table (firmware/app_dongle/src/trackers.c) and the *)
(* receive path that feeds it (firmware/app_dongle/src/radio.c).           *)
(*                                                                         *)
(* Three contexts touch the table:                                         *)
(*   - the ESB interrupt copies a packet into rx_msgq, or counts an        *)
(*     overrun;                                                            *)
(*   - the rx thread takes it, reads the clock, and only then takes the    *)
(*     spinlock to account for it;                                         *)
(*   - the system workqueue runs the 1 Hz fold and the emission of STATUS  *)
(*     and TRACKER_STAT, each of which also reads the clock before it      *)
(*     takes the lock; GET_STATS runs the emission alone.                  *)
(* A step of this module is what a context does between two points where   *)
(* another may run, so a stamp can be older than the table it is used on.  *)
(*                                                                         *)
(* Time is counted in units of which the timing constants of trackers.c    *)
(* are multiples.  A head sends at most one packet in a unit.              *)
(***************************************************************************)
EXTENDS Integers, Sequences, FiniteSets, Functions

CONSTANTS
  TrackerIds,       \* ids of the heads in range
  HTK_ID_INVALID,   \* the reserved id 0, what a zeroed slot holds
  TRACKERS_MAX,     \* slots of the table (8)
  EVICT_SILENT,     \* 30 s
  LIVE_WINDOW,      \* 3 s
  LINK_UP_WINDOW,   \* 500 ms
  TICK_PERIOD,      \* 1 s, the stats timer
  SEQ_MOD,          \* 2^16
  UINT16_LIMIT,     \* saturation of pkt_count
  TstatusModes,     \* the modes the heads report
  FirstSample,      \* absolute number of a head's first sample
  MaxTime,          \* bound on the clock
  MaxDelay,         \* bound on the age of a stamp or of a submitted work item
  MaxPackets,       \* bound on the packets the rx thread takes
  MaxBoots          \* bound on reboots of one head

Modes == 0 .. 2     \* HTK_MODE_QUAT, RAW, BOTH

ASSUME ConstantsAssumption ==
  /\ HTK_ID_INVALID \notin TrackerIds
  /\ TRACKERS_MAX \in Nat \ {0}
  /\ EVICT_SILENT \in Nat
  /\ LIVE_WINDOW \in Nat
  /\ LINK_UP_WINDOW \in Nat
  /\ TICK_PERIOD \in Nat \ {0}
  /\ SEQ_MOD \in Nat \ {0}
  /\ UINT16_LIMIT \in Nat
  /\ TstatusModes \subseteq Modes
  /\ FirstSample \in Nat
  /\ MaxTime \in Nat
  /\ MaxDelay \in Nat
  /\ MaxPackets \in Nat
  /\ MaxBoots \in Nat

Slots  == 1 .. TRACKERS_MAX
NoSlot == 0
NotDue == 0

VARIABLES
  now,           \* k_uptime_get()
  table,         \* struct tracker table[TRACKERS_MAX]
  rx_count,      \* rx_count_this_second
  rx_rate,
  rx,            \* the rx thread: what it holds between the clock and the lock
  wq,            \* the system workqueue, likewise
  stats_due,     \* when stats_work was submitted, if it has not run
  usb_out,       \* what the last step handed to usb_io: a STATUS and its rows
  heads,         \* the air side: what each head has sent
  hist           \* history: per slot, the samples accounted since the claim

vars == <<now, table, rx_count, rx_rate, rx, wq, stats_due, usb_out,
          heads, hist>>

Entry(valid, id) ==
  [valid |-> valid, id |-> id, have_seq |-> FALSE, last_seen |-> 0,
   last_seq |-> 0, seq_lost |-> 0, pkt_count |-> 0, rate |-> 0, mode |-> 0]

NoHist == [first |-> 0, last |-> 0, got |-> 0, boot |-> 0, clean |-> TRUE]

Packets ==
  [kind : {"SAMPLE", "TSTATUS"}, id : TrackerIds, n : Nat, boot : Nat,
   mode : Modes]

Seqno(pkt) == pkt.n % SEQ_MOD

-----------------------------------------------------------------------------
(* claim(): the slot of id, else the first free one, else the first whose  *)
(* tracker has been silent for too long at time t.                         *)

Lowest(S) == CHOOSE s \in S : \A r \in S : s <= r

Owned(id) == {s \in Slots : table[s].valid /\ table[s].id = id}
Free == {s \in Slots : ~table[s].valid}
\* Mutant: any occupied slot may be taken over.
StaleAny(t) == {s \in Slots : table[s].valid}

Stale(t) == {s \in Slots : table[s].valid
                           /\ t - table[s].last_seen > EVICT_SILENT}

\* Mutant: a free slot is taken before the table is searched for the id.
ClaimFreeFirst(id, t) ==
  IF Free # {} THEN Lowest(Free)
  ELSE IF Owned(id) # {} THEN Lowest(Owned(id))
  ELSE NoSlot

Claim(id, t) ==
  IF Owned(id) # {} THEN Lowest(Owned(id))
  ELSE IF Free # {} THEN Lowest(Free)
  ELSE IF Stale(t) # {} THEN Lowest(Stale(t))
  ELSE NoSlot

\* The entry claim() hands out: a slot it took over is zeroed first.
Claimed(s, id) == IF s \in Owned(id) THEN table[s] ELSE Entry(TRUE, id)

ClaimedHist(s, id) == IF s \in Owned(id) THEN hist[s] ELSE NoHist

-----------------------------------------------------------------------------
(* trackers_on_sample() and trackers_on_tstatus(), under the lock.         *)

\* Mutant: the subtraction without its cast to uint16_t.
SeqStepUncast(e, pkt) == Seqno(pkt) - e.last_seq

SeqStep(e, pkt) == (Seqno(pkt) - e.last_seq) % SEQ_MOD

\* Gap accounting: a duplicate or a step over half the space is ignored.
Newer(e, pkt) == SeqStep(e, pkt) # 0 /\ SeqStep(e, pkt) <= SEQ_MOD \div 2

Counted(e) ==
  IF e.pkt_count < UINT16_LIMIT THEN e.pkt_count + 1 ELSE e.pkt_count

Sampled(e, pkt, t) ==
  LET seen == [e EXCEPT !.last_seen = t, !.pkt_count = Counted(e)]
  IN IF ~e.have_seq
     THEN [seen EXCEPT !.have_seq = TRUE, !.last_seq = Seqno(pkt)]
     ELSE IF Newer(e, pkt)
     THEN [seen EXCEPT !.seq_lost = @ + SeqStep(e, pkt) - 1,
                       !.last_seq = Seqno(pkt)]
     ELSE seen

Reported(e, pkt, t) == [e EXCEPT !.last_seen = t, !.mode = pkt.mode]

Update(e, pkt, t) ==
  IF pkt.kind = "SAMPLE" THEN Sampled(e, pkt, t) ELSE Reported(e, pkt, t)

\* What the history records of the same packet, whatever the code counts.
UpdateHist(h, e, pkt) ==
  IF pkt.kind = "TSTATUS" THEN h
  ELSE IF ~e.have_seq
  THEN [first |-> pkt.n, last |-> pkt.n, got |-> 1, boot |-> pkt.boot,
        clean |-> TRUE]
  ELSE [h EXCEPT !.last = pkt.n, !.got = @ + 1,
                 !.clean = @ /\ pkt.boot = h.boot]

-----------------------------------------------------------------------------
Idle == [pc |-> "idle"]

Init ==
  /\ now = 1
  /\ table = [s \in Slots |-> Entry(FALSE, HTK_ID_INVALID)]
  /\ rx_count = 0
  /\ rx_rate = 0
  /\ rx = Idle
  /\ wq = Idle
  /\ stats_due = NotDue
  /\ usb_out = {}
  /\ heads = [id \in TrackerIds |-> [n |-> FirstSample, boot |-> 0, at |-> 0,
                                  taken |-> 0]]
  /\ hist = [s \in Slots |-> NoHist]

-----------------------------------------------------------------------------
(* The air, and what reaches the rx thread of it.                          *)

Packet(kind, id, n, mode) ==
  [kind |-> kind, id |-> id, n |-> n, boot |-> heads[id].boot, mode |-> mode]

PacketsTaken == SumFunction([id \in TrackerIds |-> heads[id].taken])

\* The rx thread takes a packet off rx_msgq and reads the clock.
RxTake(pkt) ==
  /\ rx.pc = "idle"
  /\ PacketsTaken < MaxPackets
  /\ rx' = [pc |-> "stamped", pkt |-> pkt, t |-> now]

\* A sample, after those the air or a full rx_msgq swallowed: a head
\* transmits at most one in a unit of time.
TakeSample(id) ==
  /\ heads[id].at < now
  /\ \E lost \in 0 .. now - heads[id].at - 1 :
       /\ RxTake(Packet("SAMPLE", id, heads[id].n + lost, 0))
       /\ heads' = [heads EXCEPT ![id].n = @ + lost + 1, ![id].at = now,
                                 ![id].taken = @ + 1]
  /\ usb_out' = {}
  /\ UNCHANGED <<now, table, rx_count, rx_rate, wq, stats_due, hist>>

\* A self-report takes no sequence number; a lost one changes nothing.
TakeTstatus(id) ==
  /\ heads[id].at < now
  /\ \E mode \in TstatusModes :
       RxTake(Packet("TSTATUS", id, heads[id].n, mode))
  /\ heads' = [heads EXCEPT ![id].at = now, ![id].taken = @ + 1]
  /\ usb_out' = {}
  /\ UNCHANGED <<now, table, rx_count, rx_rate, wq, stats_due, hist>>

\* A head already heard power-cycles: its sequence numbers restart at 0.
HeadReboot(id) ==
  /\ heads[id].taken > 0 /\ PacketsTaken < MaxPackets
  /\ heads[id].boot < MaxBoots
  /\ heads' = [heads EXCEPT ![id].n = 0, ![id].boot = @ + 1]
  /\ usb_out' = {}
  /\ UNCHANGED <<now, table, rx_count, rx_rate, rx, wq, stats_due, hist>>

-----------------------------------------------------------------------------
(* The rx thread's critical section, and the system workqueue.             *)

\* The critical section; with no slot to claim only the total is counted.
RxAccount ==
  /\ rx.pc = "stamped"
  /\ rx_count' = rx_count + 1
  /\ LET s == Claim(rx.pkt.id, rx.t)
         e == Claimed(s, rx.pkt.id)
     IN IF s = NoSlot
        THEN UNCHANGED <<table, hist>>
        ELSE /\ table' = [table EXCEPT ![s] = Update(e, rx.pkt, rx.t)]
             /\ hist' = [hist EXCEPT ![s] =
                           UpdateHist(ClaimedHist(s, rx.pkt.id), e, rx.pkt)]
  /\ rx' = Idle
  /\ usb_out' = {}
  /\ UNCHANGED <<now, rx_rate, wq, stats_due, heads>>

\* trackers_tick_1hz() begins: the clock, before the lock.
TickStamp ==
  /\ wq.pc = "idle"
  /\ stats_due # NotDue
  /\ stats_due' = NotDue
  /\ wq' = [pc |-> "fold", t |-> now]
  /\ usb_out' = {}
  /\ UNCHANGED <<now, table, rx_count, rx_rate, rx, heads, hist>>

\* Mutants: the count is not reset; the silent are not evicted.
FoldedNoReset(e, t) ==
  IF ~e.valid THEN e
  ELSE [e EXCEPT !.rate = e.pkt_count,
                 !.valid = ~(t - e.last_seen > EVICT_SILENT)]

FoldedNoEvict(e, t) ==
  IF ~e.valid THEN e ELSE [e EXCEPT !.rate = e.pkt_count, !.pkt_count = 0]

Folded(e, t) ==
  IF ~e.valid THEN e
  ELSE [e EXCEPT !.rate = e.pkt_count, !.pkt_count = 0,
                 !.valid = ~(t - e.last_seen > EVICT_SILENT)]

\* Its critical section: fold the counters into rates, evict the silent.
TickFold ==
  /\ wq.pc = "fold"
  /\ rx_rate' = IF rx_count > UINT16_LIMIT THEN UINT16_LIMIT ELSE rx_count
  /\ rx_count' = 0
  /\ table' = [s \in Slots |-> Folded(table[s], wq.t)]
  /\ wq' = [pc |-> "emit", t |-> wq.t]
  /\ usb_out' = {}
  /\ UNCHANGED <<now, rx, stats_due, heads, hist>>

\* emit_locked_snapshot() begins: after the fold, or alone for GET_STATS.
EmitStamp ==
  /\ wq.pc \in {"idle", "emit"}
  /\ wq' = [pc |-> "snapshot", t |-> now]
  /\ usb_out' = {}
  /\ UNCHANGED <<now, table, rx_count, rx_rate, rx, stats_due,
                 heads, hist>>

\* Mutant: the difference is not clamped at 0.
AgeUnclamped(e, t) == t - e.last_seen

Age(e, t) == IF t - e.last_seen < 0 THEN 0 ELSE t - e.last_seen

Stat(e, t) ==
  [id |-> e.id, age |-> Age(e, t), rate |-> e.rate, seq_lost |-> e.seq_lost,
   mode |-> e.mode, link_up |-> t - e.last_seen < LINK_UP_WINDOW]

Live(t) ==
  {s \in Slots : table[s].valid /\ t - table[s].last_seen < LIVE_WINDOW}

\* The snapshot under the lock; the frames are computed from it alone.
EmitSnapshot ==
  /\ wq.pc = "snapshot"
  /\ usb_out' = {[n_live |-> Cardinality(Live(wq.t)), rx_rate |-> rx_rate,
                  rows |-> {Stat(table[s], wq.t) :
                              s \in {r \in Slots : table[r].valid}}]}
  /\ wq' = Idle
  /\ UNCHANGED <<now, table, rx_count, rx_rate, rx, stats_due, heads,
                 hist>>

-----------------------------------------------------------------------------
(* The clock.  The stats timer submits stats_work, which coalesces with a  *)
(* submission still pending.  No context is held up for more than MaxDelay.*)

Advance ==
  /\ now < MaxTime
  /\ stats_due # NotDue => now - stats_due < MaxDelay
  /\ rx.pc # "idle" => now - rx.t < MaxDelay
  /\ wq.pc # "idle" => now - wq.t < MaxDelay
  /\ now' = now + 1
  /\ stats_due' = IF stats_due = NotDue /\ (now + 1) % TICK_PERIOD = 0
                  THEN now + 1
                  ELSE stats_due
  /\ usb_out' = {}
  /\ UNCHANGED <<table, rx_count, rx_rate, rx, wq, heads, hist>>

Next ==
  \/ \E id \in TrackerIds : TakeSample(id) \/ TakeTstatus(id) \/ HeadReboot(id)
  \/ RxAccount
  \/ TickStamp \/ TickFold \/ EmitStamp \/ EmitSnapshot
  \/ Advance

Spec == Init /\ [][Next]_vars

-----------------------------------------------------------------------------
(* Properties.                                                             *)

Entries ==
  [valid : BOOLEAN, id : TrackerIds \cup {HTK_ID_INVALID}, have_seq : BOOLEAN,
   last_seen : Nat, last_seq : 0 .. SEQ_MOD - 1, seq_lost : Nat,
   pkt_count : 0 .. UINT16_LIMIT, rate : 0 .. UINT16_LIMIT, mode : Modes]

Stats ==
  [id : TrackerIds \cup {HTK_ID_INVALID}, age : Nat,
   rate : 0 .. UINT16_LIMIT, seq_lost : Nat, mode : Modes, link_up : BOOLEAN]

(* Every variable has its type; in particular an age is never negative, so *)
(* its conversion to uint32 never wraps to 49 days (trackers.c:172-176).   *)
TypeOK ==
  /\ now \in Nat
  /\ table \in [Slots -> Entries]
  /\ rx_count \in Nat
  /\ rx_rate \in 0 .. UINT16_LIMIT
  /\ rx \in {Idle} \cup [pc : {"stamped"}, pkt : Packets, t : Nat]
  /\ wq \in {Idle} \cup [pc : {"fold", "emit", "snapshot"}, t : Nat]
  /\ stats_due \in Nat
  /\ usb_out \subseteq [n_live : Nat, rx_rate : 0 .. UINT16_LIMIT,
                        rows : SUBSET Stats]
  /\ heads \in [TrackerIds -> [n : Nat, boot : Nat, at : Nat, taken : Nat]]
  /\ hist \in [Slots -> [first : Nat, last : Nat, got : Nat, boot : Nat,
                         clean : BOOLEAN]]

(* A tracker owns at most one slot, so the host never sees two rows for    *)
(* one id: claim() finds the slot of an id before it looks for a free or a *)
(* stale one, and memset is the only way an id enters the table.           *)
UniqueIds ==
  \A r, s \in Slots :
    table[r].valid /\ table[s].valid /\ table[r].id = table[s].id => r = s

\* What exactness rests on.  Punctual: no context is held up for as long as
\* an eviction takes.  SeqSpace: a head heard of since cannot send half the
\* sequence space before it is evicted.
Punctual == MaxDelay <= EVICT_SILENT

SeqSpace == EVICT_SILENT + TICK_PERIOD + 2 * MaxDelay <= SEQ_MOD \div 2

(* The loss counter is exact across wraps of seq: as long as the head did  *)
(* not reboot, seq_lost is the number of samples sent between the first    *)
(* and the last accounted one that never reached the accounting.  Eviction *)
(* after EVICT_SILENT_MS is what keeps every gap below half the sequence   *)
(* space, where the modular step would be taken for a stale packet.  The   *)
(* count is that of one claim of the slot: a tracker that comes back after *)
(* its eviction is counted from 0 again.                                   *)
LossExact ==
  \A s \in Slots :
    LET h == hist[s]
    IN table[s].valid /\ table[s].have_seq /\ h.clean
         => table[s].seq_lost = h.last - h.first + 1 - h.got

Total(f) ==
  LET upto[n \in 0 .. TRACKERS_MAX] == IF n = 0 THEN 0 ELSE upto[n - 1] + f[n]
  IN upto[TRACKERS_MAX]

(* The rates of the listed trackers never add up to more than the total    *)
(* reported beside them unless that one saturates, whatever slots were     *)
(* reclaimed inside the second.                                            *)
RatesCovered ==
  /\ Total([s \in Slots |-> IF table[s].valid THEN table[s].pkt_count ELSE 0])
       <= rx_count
  /\ \/ Total([s \in Slots |-> IF table[s].valid THEN table[s].rate ELSE 0])
           <= rx_rate
     \/ rx_rate = UINT16_LIMIT

(* A tracker silent for EVICT_SILENT_MS stops appearing: no emission, the  *)
(* one GET_STATS asks for between two folds included, lists a row older    *)
(* than that plus one fold period and the workqueue's delay.               *)
SilentDropped ==
  \A f \in usb_out : \A r \in f.rows :
    r.age <= EVICT_SILENT + TICK_PERIOD + MaxDelay

(* A tracker that is still being heard is never displaced by another: a    *)
(* slot changes hands only when it was free or its owner had been silent   *)
(* for too long, even when the claim ran on an old clock reading.          *)
NoLiveDisplaced ==
  [][\A s \in Slots :
       table[s].valid /\ table'[s].id # table[s].id
         => now - table[s].last_seen > EVICT_SILENT]_vars

=============================================================================
