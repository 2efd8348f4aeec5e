--------------------------- MODULE TrackersProofs ---------------------------
(***************************************************************************)
(* Theorems about the tracker table, for every number of slots and heads,  *)
(* every choice of the windows and any delay between a clock reading and   *)
(* the critical section that uses it.                                      *)
(*                                                                         *)
(* The packet path is cut in three: what claim() returns (Claim...), what  *)
(* an update does to the entry claimed (Update...), and the steps of the   *)
(* specification, which only put the two together.                         *)
(***************************************************************************)
EXTENDS Trackers, FiniteSetTheorems, WellFoundedInduction, TLAPS

-----------------------------------------------------------------------------
(* claim().                                                                *)

(* The loops of claim() stop at the first slot of a kind: when there is    *)
(* one, the lowest exists and is of that kind.                             *)
LEMMA LowestIn ==
  ASSUME NEW S \in SUBSET Slots, S # {}
  PROVE  Lowest(S) \in S
<1>1. S \subseteq Nat
  BY DEF Slots
<1>2. PICK s \in S : \A r \in S : ~ (<<r, s>> \in OpToRel(<, Nat))
  BY <1>1, WFMin, NatLessThanWellFounded, Zenon
<1>3. ASSUME NEW r \in S PROVE ~ (r < s)
  <2>1. ~ (<<r, s>> \in OpToRel(<, Nat))
    BY <1>2, Zenon
  <2>2. <<r, s>> \in Nat \X Nat
    BY <1>1
  <2>3. <<r, s>>[1] = r /\ <<r, s>>[2] = s
    OBVIOUS
  <2> QED BY <2>1, <2>2, <2>3, Zenon DEF OpToRel
<1>4. \A r \in S : s <= r
  BY <1>1, <1>3
<1> QED BY <1>4 DEF Lowest

(* claim() returns no slot, the slot the id owns already, or, only when it *)
(* owns none, a free slot or one whose owner is silent.                    *)
LEMMA ClaimCases ==
  ASSUME NEW id, NEW t
  PROVE  \/ Claim(id, t) = NoSlot
         \/ Claim(id, t) \in Owned(id)
         \/ Owned(id) = {} /\ Claim(id, t) \in Free \cup Stale(t)
<1>1. Owned(id) \in SUBSET Slots /\ Free \in SUBSET Slots
      /\ Stale(t) \in SUBSET Slots
  BY DEF Owned, Free, Stale
<1>2. CASE Owned(id) # {}
  <2>1. Lowest(Owned(id)) \in Owned(id)
    BY <1>1, <1>2, LowestIn
  <2> QED BY <1>2, <2>1 DEF Claim
<1>3. CASE Owned(id) = {} /\ Free # {}
  <2>1. Lowest(Free) \in Free
    BY <1>1, <1>3, LowestIn
  <2> QED BY <1>3, <2>1 DEF Claim
<1>4. CASE Owned(id) = {} /\ Free = {} /\ Stale(t) # {}
  <2>1. Lowest(Stale(t)) \in Stale(t)
    BY <1>1, <1>4, LowestIn
  <2> QED BY <1>4, <2>1 DEF Claim
<1>5. CASE Owned(id) = {} /\ Free = {} /\ Stale(t) = {}
  BY <1>5 DEF Claim
<1> QED BY <1>2, <1>3, <1>4, <1>5

LEMMA ClaimSlot ==
  ASSUME NEW id, NEW t, Claim(id, t) # NoSlot
  PROVE  Claim(id, t) \in Slots
BY ClaimCases DEF Owned, Free, Stale

-----------------------------------------------------------------------------
(* The update of a claimed entry.                                          *)

LEMMA EntryType ==
  ASSUME NEW valid \in BOOLEAN, NEW id \in TrackerIds \cup {HTK_ID_INVALID}
  PROVE  Entry(valid, id) \in Entries
BY ConstantsAssumption DEF Entry, Entries, Modes

LEMMA SeqStepType ==
  ASSUME NEW e \in Entries, NEW pkt \in Packets
  PROVE  Seqno(pkt) \in 0 .. SEQ_MOD - 1 /\ SeqStep(e, pkt) \in 0 .. SEQ_MOD - 1
<1>1. pkt.n \in Nat /\ e.last_seq \in 0 .. SEQ_MOD - 1 /\ SEQ_MOD \in Nat \ {0}
  BY ConstantsAssumption DEF Entries, Packets
<1>2. Seqno(pkt) \in 0 .. SEQ_MOD - 1
  BY <1>1 DEF Seqno
<1> QED BY <1>1, <1>2 DEF SeqStep

(* An entry with some fields replaced, field by field.                     *)
LEMMA EntryFields ==
  ASSUME NEW e \in Entries, NEW t \in Nat, NEW c \in 0 .. UINT16_LIMIT,
         NEW h \in BOOLEAN, NEW q \in 0 .. SEQ_MOD - 1, NEW l \in Nat,
         NEW m \in Modes
  PROVE  LET x == [valid |-> e.valid, id |-> e.id, have_seq |-> h,
                   last_seen |-> t, last_seq |-> q, seq_lost |-> l,
                   pkt_count |-> c, rate |-> e.rate, mode |-> m]
         IN  x \in Entries /\ x.id = e.id /\ x.valid = e.valid /\ x.seq_lost = l
BY DEF Entries

(* A packet moves no entry to another id and never takes back a loss.      *)
LEMMA UpdateType ==
  ASSUME NEW e \in Entries, NEW pkt \in Packets, NEW t \in Nat
  PROVE  /\ Update(e, pkt, t) \in Entries
         /\ Update(e, pkt, t).id = e.id
         /\ Update(e, pkt, t).valid = e.valid
         /\ Update(e, pkt, t).seq_lost >= e.seq_lost
<1>1. /\ e.seq_lost \in Nat
      /\ Seqno(pkt) \in 0 .. SEQ_MOD - 1
      /\ SeqStep(e, pkt) \in 0 .. SEQ_MOD - 1
      /\ pkt.mode \in Modes
  BY SeqStepType DEF Entries, Packets
<1>2. Counted(e) \in 0 .. UINT16_LIMIT
  BY ConstantsAssumption DEF Counted, Entries
<1>3. Newer(e, pkt) => e.seq_lost + SeqStep(e, pkt) - 1 \in Nat
                       /\ e.seq_lost + SeqStep(e, pkt) - 1 >= e.seq_lost
  BY <1>1 DEF Newer
<1> DEFINE Fields(h, q, l, c, m) ==
      [valid |-> e.valid, id |-> e.id, have_seq |-> h, last_seen |-> t,
       last_seq |-> q, seq_lost |-> l, pkt_count |-> c, rate |-> e.rate,
       mode |-> m]
<1>4. /\ e.have_seq \in BOOLEAN /\ TRUE \in BOOLEAN
      /\ e.last_seq \in 0 .. SEQ_MOD - 1 /\ e.mode \in Modes
      /\ e.pkt_count \in 0 .. UINT16_LIMIT /\ e.seq_lost >= e.seq_lost
  BY <1>1 DEF Entries
<1>5. \E h \in BOOLEAN, q \in 0 .. SEQ_MOD - 1, l \in Nat,
          c \in 0 .. UINT16_LIMIT, m \in Modes :
        Update(e, pkt, t) = Fields(h, q, l, c, m) /\ l >= e.seq_lost
  <2>1. CASE pkt.kind = "SAMPLE" /\ ~e.have_seq
    <3>1. Update(e, pkt, t)
            = Fields(TRUE, Seqno(pkt), e.seq_lost, Counted(e), e.mode)
      BY <2>1 DEF Update, Sampled, Entries
    <3> QED BY <1>1, <1>2, <1>4, <3>1, Zenon
  <2>2. CASE pkt.kind = "SAMPLE" /\ e.have_seq /\ Newer(e, pkt)
    <3>1. Update(e, pkt, t)
            = Fields(e.have_seq, Seqno(pkt), e.seq_lost + SeqStep(e, pkt) - 1,
                     Counted(e), e.mode)
      BY <2>2 DEF Update, Sampled, Entries
    <3> QED BY <1>1, <1>2, <1>3, <1>4, <2>2, <3>1, Zenon
  <2>3. CASE pkt.kind = "SAMPLE" /\ e.have_seq /\ ~Newer(e, pkt)
    <3>1. Update(e, pkt, t)
            = Fields(e.have_seq, e.last_seq, e.seq_lost, Counted(e), e.mode)
      BY <2>3 DEF Update, Sampled, Entries
    <3> QED BY <1>1, <1>2, <1>4, <3>1, Zenon
  <2>4. CASE pkt.kind # "SAMPLE"
    <3>1. Update(e, pkt, t)
            = Fields(e.have_seq, e.last_seq, e.seq_lost, e.pkt_count, pkt.mode)
      BY <2>4 DEF Update, Reported, Entries
    <3> QED BY <1>1, <1>4, <3>1, Zenon
  <2> QED BY <2>1, <2>2, <2>3, <2>4
<1> QED BY <1>5, EntryFields

(* The entry a claim hands out belongs to the id it was claimed for; when  *)
(* the slot held that id already, it is the entry as it stood.             *)
LEMMA ClaimedType ==
  ASSUME table \in [Slots -> Entries], NEW id \in TrackerIds, NEW s \in Slots
  PROVE  /\ Claimed(s, id) \in Entries
         /\ Claimed(s, id).valid /\ Claimed(s, id).id = id
         /\ table[s].valid /\ table[s].id = id => Claimed(s, id) = table[s]
<1>1. CASE s \in Owned(id)
  BY <1>1 DEF Claimed, Owned
<1>2. CASE s \notin Owned(id)
  <2>1. Claimed(s, id) = Entry(TRUE, id)
    BY <1>2 DEF Claimed
  <2>2. Entry(TRUE, id).valid = TRUE /\ Entry(TRUE, id).id = id
    BY DEF Entry
  <2> QED BY <1>2, <2>1, <2>2, EntryType DEF Owned
<1> QED BY <1>1, <1>2

-----------------------------------------------------------------------------
(* Types.  usb_out carries a Cardinality, which is a number because a table*)
(* has finitely many slots.                                                *)

Hists == [first : Nat, last : Nat, got : Nat, boot : Nat, clean : BOOLEAN]

LEMMA HistType ==
  ASSUME NEW h \in Hists, NEW e \in Entries, NEW pkt \in Packets
  PROVE  UpdateHist(h, e, pkt) \in Hists
<1>1. CASE pkt.kind = "TSTATUS"
  BY <1>1 DEF UpdateHist
<1>2. CASE pkt.kind # "TSTATUS" /\ ~e.have_seq
  <2>1. pkt.n \in Nat /\ pkt.boot \in Nat
    BY DEF Packets
  <2> QED BY <1>2, <2>1 DEF UpdateHist, Hists
<1>3. CASE pkt.kind # "TSTATUS" /\ e.have_seq
  <2>1. pkt.n \in Nat /\ h.got + 1 \in Nat
    BY DEF Packets, Hists
  <2>2. (h.clean /\ pkt.boot = h.boot) \in BOOLEAN
    OBVIOUS
  <2>3. UpdateHist(h, e, pkt)
          = [first |-> h.first, last |-> pkt.n, got |-> h.got + 1,
             boot |-> h.boot, clean |-> h.clean /\ pkt.boot = h.boot]
    BY <1>3 DEF UpdateHist, Hists
  <2> QED BY <2>1, <2>2, <2>3 DEF Hists
<1> QED BY <1>1, <1>2, <1>3

LEMMA FoldedType ==
  ASSUME NEW e \in Entries, NEW t \in Nat
  PROVE  /\ Folded(e, t) \in Entries
         /\ Folded(e, t).id = e.id
         /\ Folded(e, t).seq_lost = e.seq_lost
         /\ Folded(e, t).valid => e.valid
<1>1. CASE ~e.valid
  BY <1>1 DEF Folded
<1>2. CASE e.valid
  <2>1. /\ e.pkt_count \in 0 .. UINT16_LIMIT /\ 0 \in 0 .. UINT16_LIMIT
        /\ (~(t - e.last_seen > EVICT_SILENT)) \in BOOLEAN
    BY ConstantsAssumption DEF Entries
  <2>2. Folded(e, t)
          = [valid |-> ~(t - e.last_seen > EVICT_SILENT), id |-> e.id,
             have_seq |-> e.have_seq, last_seen |-> e.last_seen,
             last_seq |-> e.last_seq, seq_lost |-> e.seq_lost,
             pkt_count |-> 0, rate |-> e.pkt_count, mode |-> e.mode]
    BY <1>2 DEF Folded, Entries
  <2> QED BY <1>2, <2>1, <2>2 DEF Entries
<1> QED BY <1>1, <1>2

LEMMA StatType ==
  ASSUME NEW e \in Entries, NEW t \in Nat
  PROVE  Stat(e, t) \in Stats
<1>1. Age(e, t) \in Nat
  BY DEF Age, Entries
<1>2. (t - e.last_seen < LINK_UP_WINDOW) \in BOOLEAN
  OBVIOUS
<1> QED BY <1>1, <1>2 DEF Stat, Stats, Entries

LEMMA InitTypeOK == Init => TypeOK
<1> SUFFICES ASSUME Init PROVE TypeOK
  OBVIOUS
<1> USE ConstantsAssumption DEF Init
<1>1. table \in [Slots -> Entries]
  BY EntryType
<1>2. NoHist \in Hists /\ 0 \in 0 .. UINT16_LIMIT
  BY DEF NoHist, Hists
<1>3. heads \in [TrackerIds -> [n : Nat, boot : Nat, at : Nat, taken : Nat]]
  OBVIOUS
<1> QED BY <1>1, <1>2, <1>3 DEF TypeOK, Hists, NotDue

(* What a thread holds when it is not idle.                                *)
LEMMA Held ==
  ASSUME TypeOK
  PROVE  /\ rx.pc = "stamped" => rx.pkt \in Packets /\ rx.t \in Nat
         /\ wq.pc \in {"fold", "emit", "snapshot"} => wq.t \in Nat
BY DEF TypeOK, Idle

LEMMA RxAccountUpdates ==
  ASSUME TypeOK, RxAccount
  PROVE  \/ UNCHANGED <<table, hist>>
         \/ \E s \in Slots :
              LET e == Claimed(s, rx.pkt.id)
              IN /\ \/ s \in Owned(rx.pkt.id)
                    \/ Owned(rx.pkt.id) = {} /\ s \in Free \cup Stale(rx.t)
                 /\ table' = [table EXCEPT ![s] = Update(e, rx.pkt, rx.t)]
                 /\ hist' = [hist EXCEPT ![s] =
                               UpdateHist(ClaimedHist(s, rx.pkt.id), e, rx.pkt)]
<1> DEFINE s == Claim(rx.pkt.id, rx.t)
<1>1. CASE s = NoSlot
  BY <1>1 DEF RxAccount
<1>2. CASE s # NoSlot
  <2>1. s \in Slots
    BY <1>2, ClaimSlot
  <2>2. \/ s \in Owned(rx.pkt.id)
        \/ Owned(rx.pkt.id) = {} /\ s \in Free \cup Stale(rx.t)
    BY <1>2, ClaimCases
  <2>3. LET e == Claimed(s, rx.pkt.id)
        IN /\ table' = [table EXCEPT ![s] = Update(e, rx.pkt, rx.t)]
           /\ hist' = [hist EXCEPT ![s] =
                         UpdateHist(ClaimedHist(s, rx.pkt.id), e, rx.pkt)]
    BY <1>2 DEF RxAccount
  <2> HIDE DEF s
  <2> QED BY <2>1, <2>2, <2>3, Zenon
<1> QED BY <1>1, <1>2

-----------------------------------------------------------------------------
(* The invariant: types, and no stamp from the future.                     *)

Stamped == rx.pc = "stamped" => rx.t <= now

IInv == TypeOK /\ Stamped

LEMMA AirIInv ==
  ASSUME IInv, NEW id \in TrackerIds,
         TakeSample(id) \/ TakeTstatus(id) \/ HeadReboot(id)
  PROVE  IInv'
<1> USE ConstantsAssumption DEF IInv
<1> DEFINE Senders == [n : Nat, boot : Nat, at : Nat, taken : Nat]
<1>1. heads \in [TrackerIds -> Senders] /\ now \in Nat
  BY DEF TypeOK
<1>2. ASSUME NEW pkt \in Packets, RxTake(pkt)
      PROVE  /\ rx' \in [pc : {"stamped"}, pkt : Packets, t : Nat]
             /\ rx'.t = now
  BY <1>1, <1>2 DEF RxTake
<1>3. CASE TakeSample(id)
  <2>1. PICK lost \in 0 .. now - heads[id].at - 1 :
          /\ RxTake(Packet("SAMPLE", id, heads[id].n + lost, 0))
          /\ heads' = [heads EXCEPT ![id].n = @ + lost + 1, ![id].at = now,
                                    ![id].taken = @ + 1]
    BY <1>3 DEF TakeSample
  <2>2. heads[id].n + lost \in Nat /\ 0 \in Modes
    BY <1>1 DEF Modes
  <2>3. Packet("SAMPLE", id, heads[id].n + lost, 0) \in Packets
    BY <1>1, <2>2 DEF Packet, Packets
  <2>4. heads' \in [TrackerIds -> Senders]
    BY <1>1, <2>1
  <2>5. UNCHANGED <<now, table, rx_count, rx_rate, wq, stats_due, hist>>
        /\ usb_out' = {}
    BY <1>3 DEF TakeSample
  <2>6. /\ rx' \in [pc : {"stamped"}, pkt : Packets, t : Nat]
        /\ rx'.t = now
    BY <1>2, <2>1, <2>3
  <2> QED BY <1>1, <2>4, <2>5, <2>6 DEF TypeOK, Stamped
<1>4. CASE TakeTstatus(id)
  <2>1. PICK mode \in TstatusModes :
          RxTake(Packet("TSTATUS", id, heads[id].n, mode))
    BY <1>4 DEF TakeTstatus
  <2>2. Packet("TSTATUS", id, heads[id].n, mode) \in Packets
    BY <1>1 DEF Packet, Packets
  <2>3. heads' = [heads EXCEPT ![id].at = now, ![id].taken = @ + 1]
    BY <1>4 DEF TakeTstatus
  <2>4. heads' \in [TrackerIds -> Senders]
    BY <1>1, <2>3
  <2>5. UNCHANGED <<now, table, rx_count, rx_rate, wq, stats_due, hist>>
        /\ usb_out' = {}
    BY <1>4 DEF TakeTstatus
  <2>6. /\ rx' \in [pc : {"stamped"}, pkt : Packets, t : Nat]
        /\ rx'.t = now
    BY <1>2, <2>1, <2>2
  <2> QED BY <1>1, <2>4, <2>5, <2>6 DEF TypeOK, Stamped
<1>5. CASE HeadReboot(id)
  <2>1. heads' \in [TrackerIds -> Senders]
    BY <1>1, <1>5 DEF HeadReboot
  <2> QED BY <1>5, <2>1 DEF HeadReboot, TypeOK, Stamped
<1> QED BY <1>3, <1>4, <1>5

LEMMA RxAccountIInv ==
  ASSUME IInv, RxAccount
  PROVE  IInv'
<1> USE DEF IInv
<1>1. /\ rx' = Idle /\ usb_out' = {} /\ rx_count' = rx_count + 1
      /\ UNCHANGED <<now, rx_rate, wq, stats_due, heads>>
      /\ rx.pkt \in Packets /\ rx.t \in Nat
  BY Held DEF RxAccount
<1>2. table' \in [Slots -> Entries] /\ hist' \in [Slots -> Hists]
  <2>1. table \in [Slots -> Entries] /\ hist \in [Slots -> Hists]
    BY DEF TypeOK, Hists
  <2>2. CASE UNCHANGED <<table, hist>>
    BY <2>1, <2>2
  <2>3. ASSUME NEW s \in Slots,
               table' = [table EXCEPT ![s] =
                           Update(Claimed(s, rx.pkt.id), rx.pkt, rx.t)],
               hist' = [hist EXCEPT ![s] =
                          UpdateHist(ClaimedHist(s, rx.pkt.id),
                                     Claimed(s, rx.pkt.id), rx.pkt)]
        PROVE  table' \in [Slots -> Entries] /\ hist' \in [Slots -> Hists]
    <3>1. rx.pkt.id \in TrackerIds
      BY <1>1 DEF Packets
    <3>2. Claimed(s, rx.pkt.id) \in Entries
      BY <2>1, <3>1, ClaimedType
    <3>3. ClaimedHist(s, rx.pkt.id) \in Hists
      BY <2>1 DEF ClaimedHist, NoHist, Hists
    <3>4. Update(Claimed(s, rx.pkt.id), rx.pkt, rx.t) \in Entries
      BY <1>1, <3>2, UpdateType
    <3>5. UpdateHist(ClaimedHist(s, rx.pkt.id), Claimed(s, rx.pkt.id), rx.pkt)
            \in Hists
      BY <1>1, <3>2, <3>3, HistType
    <3> QED BY <2>1, <2>3, <3>4, <3>5
  <2> QED BY <2>2, <2>3, RxAccountUpdates
<1>3. Idle.pc # "stamped"
  BY DEF Idle
<1> QED BY <1>1, <1>2, <1>3 DEF TypeOK, Stamped, Hists

LEMMA WorkqueueIInv ==
  ASSUME IInv, TickStamp \/ TickFold \/ EmitStamp \/ EmitSnapshot
  PROVE  IInv'
<1> USE ConstantsAssumption DEF IInv
<1>1. now \in Nat /\ table \in [Slots -> Entries] /\ rx_count \in Nat
  BY DEF TypeOK
<1>2. CASE TickStamp
  BY <1>1, <1>2 DEF TickStamp, TypeOK, Stamped, NotDue
<1>3. CASE EmitStamp
  BY <1>1, <1>3 DEF EmitStamp, TypeOK, Stamped
<1>4. CASE TickFold
  <2>1. wq.t \in Nat
    BY <1>4, Held DEF TickFold
  <2>2. table' \in [Slots -> Entries]
    BY <1>1, <1>4, <2>1, FoldedType DEF TickFold
  <2>3. rx_rate' \in 0 .. UINT16_LIMIT
    BY <1>1, <1>4 DEF TickFold
  <2>4. wq' \in [pc : {"fold", "emit", "snapshot"}, t : Nat]
    BY <1>4, <2>1 DEF TickFold
  <2> QED BY <1>4, <2>2, <2>3, <2>4 DEF TickFold, TypeOK, Stamped
<1>5. CASE EmitSnapshot
  <2>1. wq.t \in Nat
    BY <1>5, Held DEF EmitSnapshot
  <2>2. Cardinality(Live(wq.t)) \in Nat
    <3>1. IsFiniteSet(Slots)
      BY FS_Interval DEF Slots
    <3>2. Live(wq.t) \in SUBSET Slots
      BY DEF Live
    <3> QED BY <3>1, <3>2, FS_Subset, FS_CardinalityType
  <2>3. {Stat(table[s], wq.t) : s \in {r \in Slots : table[r].valid}}
          \in SUBSET Stats
    BY <1>1, <2>1, StatType
  <2>4. rx_rate \in 0 .. UINT16_LIMIT
    BY DEF TypeOK
  <2>5. usb_out' \subseteq [n_live : Nat, rx_rate : 0 .. UINT16_LIMIT,
                            rows : SUBSET Stats]
    BY <1>5, <2>2, <2>3, <2>4 DEF EmitSnapshot
  <2> QED BY <1>5, <2>5 DEF EmitSnapshot, TypeOK, Stamped
<1> QED BY <1>2, <1>3, <1>4, <1>5

LEMMA AdvanceIInv ==
  ASSUME IInv, Advance
  PROVE  IInv'
<1>1. now' = now + 1 /\ now \in Nat /\ stats_due' \in Nat
  BY DEF IInv, Advance, TypeOK
<1>2. rx.pc = "stamped" => rx.t \in Nat
  BY Held DEF IInv
<1> QED BY <1>1, <1>2 DEF IInv, Advance, TypeOK, Stamped

LEMMA NextIInv == IInv /\ [Next]_vars => IInv'
<1> SUFFICES ASSUME IInv, [Next]_vars PROVE IInv'
  OBVIOUS
<1>1. CASE Next
  BY <1>1, AirIInv, RxAccountIInv, WorkqueueIInv, AdvanceIInv DEF Next
<1>2. CASE UNCHANGED vars
  BY <1>2 DEF vars, IInv, TypeOK, Stamped
<1> QED BY <1>1, <1>2

LEMMA Invariance == Spec => []IInv
<1>1. Init => IInv
  BY InitTypeOK DEF Init, Idle, Stamped, IInv
<1> QED BY <1>1, NextIInv, PTL DEF Spec

(* Every variable of the table's contexts keeps its type: counters do not  *)
(* go negative, a rate fits its 16 bits, an age never wraps.               *)
THEOREM TypeCorrect == Spec => []TypeOK
<1>1. IInv => TypeOK
  BY DEF IInv
<1> QED BY <1>1, Invariance, PTL

-----------------------------------------------------------------------------
(* What a step does to the table, in the terms of the theorems below: it   *)
(* leaves the table alone, accounts for a packet, or folds the counters.   *)

Accounts(s) ==
  /\ \/ s \in Owned(rx.pkt.id)
     \/ Owned(rx.pkt.id) = {} /\ s \in Free \cup Stale(rx.t)
  /\ \A r \in Slots \ {s} : table'[r] = table[r]
  /\ table'[s].valid /\ table'[s].id = rx.pkt.id
  /\ s \in Owned(rx.pkt.id) => table'[s].seq_lost >= table[s].seq_lost

Folds ==
  \A s \in Slots :
    /\ table'[s].id = table[s].id
    /\ table'[s].seq_lost = table[s].seq_lost
    /\ table'[s].valid => table[s].valid

LEMMA TableSteps ==
  ASSUME IInv, [Next]_vars
  PROVE  \/ UNCHANGED table
         \/ rx.t \in Nat /\ rx.t <= now /\ \E s \in Slots : Accounts(s)
         \/ Folds
<1>1. table \in [Slots -> Entries] /\ now \in Nat
  BY DEF IInv, TypeOK
<1>2. CASE RxAccount
  <2>1. /\ rx.t <= now /\ rx.t \in Nat
        /\ rx.pkt \in Packets /\ rx.pkt.id \in TrackerIds
    BY <1>2, Held DEF RxAccount, IInv, Stamped, Packets
  <2>2. ASSUME NEW s \in Slots,
               \/ s \in Owned(rx.pkt.id)
               \/ Owned(rx.pkt.id) = {} /\ s \in Free \cup Stale(rx.t),
               table' = [table EXCEPT ![s] =
                           Update(Claimed(s, rx.pkt.id), rx.pkt, rx.t)]
        PROVE  Accounts(s)
    <3> DEFINE e == Claimed(s, rx.pkt.id)
    <3>1. /\ e \in Entries /\ e.valid /\ e.id = rx.pkt.id
          /\ s \in Owned(rx.pkt.id) => e = table[s]
      BY <1>1, <2>1, ClaimedType DEF Owned
    <3>2. /\ Update(e, rx.pkt, rx.t).id = e.id
          /\ Update(e, rx.pkt, rx.t).valid = e.valid
          /\ Update(e, rx.pkt, rx.t).seq_lost >= e.seq_lost
      BY <2>1, <3>1, UpdateType
    <3>3. table'[s] = Update(e, rx.pkt, rx.t)
          /\ \A r \in Slots \ {s} : table'[r] = table[r]
      BY <1>1, <2>2
    <3> HIDE DEF e
    <3> QED BY <2>2, <3>1, <3>2, <3>3 DEF Accounts
  <2> QED BY <1>2, <2>1, <2>2, RxAccountUpdates DEF IInv
<1>3. CASE TickFold
  <2>1. wq.t \in Nat
    BY <1>3, Held DEF TickFold, IInv
  <2> QED BY <1>1, <1>3, <2>1, FoldedType DEF TickFold, Folds
<1> QED
  BY <1>2, <1>3
     DEF Next, vars, TakeSample, TakeTstatus, HeadReboot, TickStamp, EmitStamp,
         EmitSnapshot, Advance

-----------------------------------------------------------------------------
(* No two valid slots carry the same id: the slot of an id is looked for   *)
(* before a free or a silent one is taken, and a fold only frees slots.    *)
THEOREM IdsUnique == Spec => []UniqueIds
<1>1. Init => UniqueIds
  BY DEF Init, UniqueIds, Entry
<1>2. IInv /\ UniqueIds /\ [Next]_vars => UniqueIds'
  <2> SUFFICES ASSUME IInv, UniqueIds, [Next]_vars PROVE UniqueIds'
    OBVIOUS
  <2>1. CASE UNCHANGED table
    BY <2>1 DEF UniqueIds
  <2>2. ASSUME NEW s \in Slots, Accounts(s)
        PROVE  UniqueIds'
    <3>1. CASE s \in Owned(rx.pkt.id)
      BY <2>2, <3>1 DEF Accounts, Owned, UniqueIds
    <3>2. CASE Owned(rx.pkt.id) = {}
      BY <2>2, <3>2 DEF Accounts, Owned, UniqueIds
    <3> QED BY <2>2, <3>1, <3>2 DEF Accounts
  <2>3. CASE Folds
    BY <2>3 DEF Folds, UniqueIds
  <2> QED BY <2>1, <2>2, <2>3, TableSteps
<1> QED BY <1>1, <1>2, Invariance, PTL DEF Spec

(* A slot changes hands only when it was free or its owner silent for too  *)
(* long at the present time, whatever old stamp the claim was made with.   *)
THEOREM LiveNeverDisplaced == Spec => NoLiveDisplaced
<1>1. ASSUME IInv, [Next]_vars, NEW s \in Slots,
             table[s].valid, table'[s].id # table[s].id
      PROVE  now - table[s].last_seen > EVICT_SILENT
  <2>1. ASSUME NEW q \in Slots, Accounts(q), rx.t \in Nat, rx.t <= now
        PROVE  now - table[s].last_seen > EVICT_SILENT
    <3>1. q = s /\ s \notin Owned(rx.pkt.id) /\ s \in Stale(rx.t)
      BY <1>1, <2>1 DEF Accounts, Owned, Free
    <3>2. rx.t - table[s].last_seen > EVICT_SILENT
      BY <3>1 DEF Stale
    <3>3. now \in Nat /\ table[s].last_seen \in Nat /\ EVICT_SILENT \in Nat
      BY <1>1, ConstantsAssumption DEF IInv, TypeOK, Entries
    <3> QED BY <2>1, <3>2, <3>3
  <2> QED BY <1>1, <2>1, TableSteps DEF Folds
<1>2. IInv /\ [Next]_vars
        => [\A s \in Slots :
              table[s].valid /\ table'[s].id # table[s].id
                => now - table[s].last_seen > EVICT_SILENT]_vars
  BY <1>1
<1> QED BY <1>2, Invariance, PTL DEF Spec, NoLiveDisplaced

-----------------------------------------------------------------------------
(* How long the silent are kept.                                           *)

(* Who is held up, and for how long.                                       *)
Delays ==
  /\ stats_due # NotDue => now - stats_due \in 0 .. MaxDelay
  /\ rx.pc = "stamped" => now - rx.t \in 0 .. MaxDelay
  /\ wq.pc \in {"fold", "emit", "snapshot"} => now - wq.t \in 0 .. MaxDelay

LastTick == now - (now % TICK_PERIOD)

Silence(s, t) == t - table[s].last_seen

(* A tracker in the table was heard of in time for the last tick of the    *)
(* stats timer, or the work of that tick is still to come, or a fold has   *)
(* read the clock that will evict it.                                      *)
Expecting(s) ==
  \/ Silence(s, LastTick) <= EVICT_SILENT
  \/ stats_due # NotDue /\ Silence(s, stats_due) <= EVICT_SILENT + TICK_PERIOD
  \/ wq.pc = "fold" /\ Silence(s, wq.t) > EVICT_SILENT
     /\ Silence(s, wq.t) <= EVICT_SILENT + TICK_PERIOD + MaxDelay

Aging ==
  \A s \in Slots : table[s].valid =>
    /\ Expecting(s)
    /\ wq.pc = "snapshot" =>
         Silence(s, wq.t) <= EVICT_SILENT + TICK_PERIOD + MaxDelay

AInv == IInv /\ Delays /\ Aging

LEMMA SizeTypes ==
  /\ MaxDelay \in Nat /\ EVICT_SILENT \in Nat /\ TICK_PERIOD \in Nat /\ TICK_PERIOD > 0
  /\ SEQ_MOD \in Nat /\ SEQ_MOD > 0 /\ UINT16_LIMIT \in Nat
BY ConstantsAssumption

LEMMA LastTickIs ==
  ASSUME now \in Nat
  PROVE  /\ LastTick \in Nat /\ LastTick <= now /\ now < LastTick + TICK_PERIOD
BY SizeTypes DEF LastTick

LEMMA NextTick ==
  ASSUME now \in Nat
  PROVE  IF (now + 1) % TICK_PERIOD = 0
         THEN (now + 1) - ((now + 1) % TICK_PERIOD) = LastTick + TICK_PERIOD
         ELSE (now + 1) - ((now + 1) % TICK_PERIOD) = LastTick
<1> DEFINE M == TICK_PERIOD
           q == now \div M
           q2 == (now + 1) \div M
           r == now % M
           r2 == (now + 1) % M
<1>1. now = M * q + r /\ r \in 0 .. M - 1 /\ q \in Nat
  BY SizeTypes
<1>2. now + 1 = M * q2 + r2 /\ r2 \in 0 .. M - 1 /\ q2 \in Nat
  BY SizeTypes
<1>3. q2 = q \/ q2 = q + 1
  BY <1>1, <1>2, SizeTypes
<1> QED BY <1>1, <1>2, <1>3, SizeTypes DEF LastTick

LEMMA StateTypes ==
  ASSUME IInv
  PROVE  /\ now \in Nat /\ stats_due \in Nat
         /\ table \in [Slots -> Entries]
         /\ \A s \in Slots : table[s].last_seen \in Nat
         /\ rx.pc = "stamped" => rx.t \in Nat
         /\ wq.pc \in {"fold", "emit", "snapshot"} => wq.t \in Nat
<1>1. table \in [Slots -> Entries] /\ now \in Nat /\ stats_due \in Nat
  BY DEF IInv, TypeOK
<1>2. \A s \in Slots : table[s].last_seen \in Nat
  BY <1>1 DEF Entries
<1> QED BY <1>1, <1>2, Held DEF IInv

LEMMA DelaysInv == IInv /\ Delays /\ [Next]_vars => Delays'
<1> SUFFICES ASSUME IInv, Delays, [Next]_vars PROVE Delays'
  OBVIOUS
<1> USE StateTypes, SizeTypes DEF Delays
<1>1. Idle.pc = "idle"
  BY DEF Idle
<1>2. CASE UNCHANGED vars
  BY <1>2 DEF vars
<1>3. ASSUME NEW id \in TrackerIds, TakeSample(id) \/ TakeTstatus(id) \/ HeadReboot(id)
      PROVE  Delays'
  <2>1. /\ UNCHANGED <<now, stats_due, wq>>
        /\ rx' = rx \/ rx'.t = now
    <3>1. ASSUME NEW pkt, RxTake(pkt) PROVE rx'.t = now
      BY <3>1 DEF RxTake
    <3>2. CASE TakeSample(id)
      BY <3>1, <3>2, Zenon DEF TakeSample
    <3>3. CASE TakeTstatus(id)
      BY <3>1, <3>3, Zenon DEF TakeTstatus
    <3>4. CASE HeadReboot(id)
      BY <3>4, Zenon DEF HeadReboot
    <3> QED BY <1>3, <3>2, <3>3, <3>4
  <2> QED BY <2>1
<1>4. CASE RxAccount
  BY <1>1, <1>4 DEF RxAccount
<1>5. CASE TickStamp
  BY <1>5 DEF TickStamp
<1>6. CASE TickFold
  BY <1>6 DEF TickFold
<1>7. CASE EmitStamp
  BY <1>7 DEF EmitStamp
<1>8. CASE EmitSnapshot
  BY <1>1, <1>8 DEF EmitSnapshot
<1>9. CASE Advance
  BY <1>9 DEF Advance, NotDue
<1> QED BY <1>2, <1>3, <1>4, <1>5, <1>6, <1>7, <1>8, <1>9 DEF Next

(* What is accounted for was heard of now, give or take a delay.           *)
LEMMA UpdateSeen ==
  ASSUME NEW e \in Entries, NEW pkt, NEW t
  PROVE  Update(e, pkt, t).last_seen = t
BY DEF Update, Sampled, Reported, Entries

LEMMA SeenIs ==
  ASSUME IInv, RxAccount, NEW s \in Slots
  PROVE  UNCHANGED table[s] \/ table'[s].last_seen = rx.t
<1>1. table \in [Slots -> Entries] /\ rx.pkt.id \in TrackerIds
  BY Held DEF IInv, TypeOK, RxAccount, Packets
<1>2. CASE UNCHANGED table
  BY <1>2
<1>3. ASSUME NEW q \in Slots,
             table' = [table EXCEPT ![q] = Update(Claimed(q, rx.pkt.id), rx.pkt, rx.t)]
      PROVE  UNCHANGED table[s] \/ table'[s].last_seen = rx.t
  <2>1. Claimed(q, rx.pkt.id) \in Entries
    BY <1>1, ClaimedType
  <2>2. Update(Claimed(q, rx.pkt.id), rx.pkt, rx.t).last_seen = rx.t
    BY <2>1, UpdateSeen
  <2> QED BY <1>1, <1>3, <2>2
<1> QED BY <1>2, <1>3, RxAccountUpdates DEF IInv

LEMMA FoldedSeen ==
  ASSUME NEW e \in Entries, NEW t
  PROVE  /\ Folded(e, t).last_seen = e.last_seen
         /\ Folded(e, t).valid => e.valid /\ ~(t - e.last_seen > EVICT_SILENT)
BY DEF Folded, Entries

LEMMA AgingInv ==
  ASSUME Punctual
  PROVE  AInv /\ [Next]_vars => Aging'
<1> SUFFICES ASSUME AInv, [Next]_vars, NEW s \in Slots, table'[s].valid
             PROVE  /\ Expecting(s)'
                    /\ wq'.pc = "snapshot" =>
                         Silence(s, wq.t)' <= EVICT_SILENT + TICK_PERIOD + MaxDelay
  BY DEF Aging
<1>1. Idle.pc = "idle"
  BY DEF Idle
<1>2. /\ now \in Nat /\ stats_due \in Nat /\ table[s].last_seen \in Nat
      /\ LastTick \in Nat /\ LastTick <= now /\ now < LastTick + TICK_PERIOD
      /\ rx.pc = "stamped" => rx.t \in Nat
      /\ wq.pc \in {"fold", "emit", "snapshot"} => wq.t \in Nat
  BY StateTypes, LastTickIs DEF AInv
<1>3. CASE UNCHANGED <<now, stats_due, wq, table>>
  BY <1>3 DEF AInv, Aging, Expecting, Silence, LastTick
<1>4. CASE RxAccount
  <2>1. UNCHANGED <<now, stats_due, wq>> /\ LastTick' = LastTick
    BY <1>4 DEF RxAccount, LastTick
  <2>2. CASE UNCHANGED table[s]
    BY <2>1, <2>2 DEF AInv, Aging, Expecting, Silence
  <2>3. CASE table'[s].last_seen = rx.t
    <3>1. now - rx.t <= MaxDelay /\ rx.t \in Nat
      BY <1>2, <1>4 DEF AInv, Delays, RxAccount
    <3>2. LastTick - rx.t <= EVICT_SILENT
      BY <1>2, <3>1, SizeTypes DEF Punctual
    <3>3. wq.pc = "snapshot" => wq.t - rx.t <= EVICT_SILENT + TICK_PERIOD + MaxDelay
      BY <1>2, <3>1, SizeTypes DEF AInv, Delays
    <3> QED BY <2>1, <2>3, <3>2, <3>3 DEF Expecting, Silence
  <2> QED BY <1>4, <2>2, <2>3, SeenIs DEF AInv
<1>5. CASE TickStamp
  <2>1. /\ table'[s] = table[s] /\ now' = now /\ LastTick' = LastTick
        /\ wq'.pc = "fold" /\ wq'.t = now
        /\ stats_due # NotDue /\ now - stats_due <= MaxDelay /\ wq.pc = "idle"
    BY <1>5, <1>2, SizeTypes DEF TickStamp, AInv, Delays, LastTick
  <2>2. table[s].valid /\ Expecting(s)
    BY <2>1 DEF AInv, Aging
  <2> QED BY <1>2, <2>1, <2>2, SizeTypes DEF Expecting, Silence
<1>6. CASE TickFold
  <2>1. /\ table'[s] = Folded(table[s], wq.t)
        /\ now' = now /\ LastTick' = LastTick /\ stats_due' = stats_due
        /\ wq'.pc = "emit" /\ wq.pc = "fold"
    BY <1>6 DEF TickFold, LastTick
  <2>2. /\ table'[s].last_seen = table[s].last_seen
        /\ table[s].valid /\ ~(wq.t - table[s].last_seen > EVICT_SILENT)
    BY <2>1, FoldedSeen, StateTypes DEF AInv
  <2>3. Expecting(s)
    BY <2>2 DEF AInv, Aging
  <2> QED BY <2>1, <2>2, <2>3 DEF Expecting, Silence
<1>7. CASE EmitStamp
  <2>1. /\ table'[s] = table[s] /\ now' = now /\ LastTick' = LastTick
        /\ stats_due' = stats_due
        /\ wq'.pc = "snapshot" /\ wq'.t = now /\ wq.pc # "fold"
    BY <1>7 DEF EmitStamp, LastTick
  <2>2. /\ table[s].valid /\ Expecting(s)
        /\ stats_due # NotDue => now - stats_due <= MaxDelay
    BY <1>2, <2>1, SizeTypes DEF AInv, Aging, Delays
  <2> QED BY <1>2, <2>1, <2>2, SizeTypes DEF Expecting, Silence
<1>8. CASE EmitSnapshot
  <2>1. /\ table'[s] = table[s] /\ now' = now /\ LastTick' = LastTick
        /\ stats_due' = stats_due /\ wq'.pc = "idle" /\ wq.pc # "fold"
    BY <1>1, <1>8 DEF EmitSnapshot, LastTick
  <2>2. table[s].valid /\ Expecting(s)
    BY <2>1 DEF AInv, Aging
  <2> QED BY <1>2, <2>1, <2>2, SizeTypes DEF Expecting, Silence
<1>9. CASE Advance
  <2>1. /\ table'[s] = table[s] /\ now' = now + 1 /\ wq' = wq
        /\ stats_due' = IF stats_due = NotDue /\ (now + 1) % TICK_PERIOD = 0
                        THEN now + 1 ELSE stats_due
    BY <1>9 DEF Advance
  <2>2. /\ table[s].valid /\ Expecting(s)
        /\ wq.pc = "snapshot" =>
             Silence(s, wq.t) <= EVICT_SILENT + TICK_PERIOD + MaxDelay
        /\ stats_due # NotDue => stats_due <= now
    BY <1>2, <2>1, SizeTypes DEF AInv, Aging, Delays
  <2>3. CASE (now + 1) % TICK_PERIOD # 0
    <3>1. LastTick' = LastTick /\ stats_due' = stats_due
      BY <1>2, <2>1, <2>3, NextTick DEF LastTick
    <3> QED BY <2>1, <2>2, <3>1 DEF Expecting, Silence
  <2>4. CASE (now + 1) % TICK_PERIOD = 0
    <3>1. LastTick' = LastTick + TICK_PERIOD /\ LastTick' = now + 1
      BY <1>2, <2>1, <2>4, NextTick DEF LastTick
    <3>2. stats_due' # NotDue /\ stats_due' <= now + 1
      BY <1>2, <2>1, <2>2, <2>4 DEF NotDue
    <3>3. stats_due # NotDue => stats_due' = stats_due
      BY <2>1
    <3>4. stats_due' \in Nat
      BY <1>2, <2>1
    <3> QED
      BY <1>2, <2>1, <2>2, <3>1, <3>2, <3>3, <3>4, SizeTypes DEF Expecting, Silence
  <2> QED BY <2>3, <2>4
<1> QED
  BY <1>3, <1>4, <1>5, <1>6, <1>7, <1>8, <1>9
  DEF Next, vars, TakeSample, TakeTstatus, HeadReboot

LEMMA AgingInvariance ==
  ASSUME Punctual
  PROVE  Spec => []AInv
<1>1. Init => Delays /\ Aging
  BY DEF Init, Delays, Aging, Idle, NotDue, Entry
<1>2. AInv /\ [Next]_vars => AInv'
  BY NextIInv, DelaysInv, AgingInv DEF AInv
<1>3. Init => IInv
  BY InitTypeOK DEF Init, Idle, Stamped, IInv
<1> QED BY <1>1, <1>2, <1>3, PTL DEF Spec, AInv

(* A tracker silent for EVICT_SILENT_MS stops appearing, in the emission   *)
(* that GET_STATS asks for too, one fold period and a delay later at most. *)
THEOREM SilentAreDropped ==
  ASSUME Punctual
  PROVE  Spec => []SilentDropped
<1>1. Init => SilentDropped
  BY DEF Init, SilentDropped
<1>2. AInv /\ SilentDropped /\ [Next]_vars => SilentDropped'
  <2> SUFFICES ASSUME AInv, SilentDropped, [Next]_vars PROVE SilentDropped'
    OBVIOUS
  <2>1. CASE EmitSnapshot
    <3>1. /\ usb_out' = {[n_live |-> Cardinality(Live(wq.t)), rx_rate |-> rx_rate,
                          rows |-> {Stat(table[s], wq.t) :
                                      s \in {r \in Slots : table[r].valid}}]}
          /\ wq.pc = "snapshot"
      BY <2>1 DEF EmitSnapshot
    <3>2. ASSUME NEW s \in Slots, table[s].valid
          PROVE  Stat(table[s], wq.t).age <= EVICT_SILENT + TICK_PERIOD + MaxDelay
      <4>1. Silence(s, wq.t) <= EVICT_SILENT + TICK_PERIOD + MaxDelay
        BY <3>1, <3>2 DEF AInv, Aging
      <4>2. table[s].last_seen \in Nat /\ wq.t \in Nat
        BY <3>1, StateTypes DEF AInv
      <4>3. Age(table[s], wq.t) <= EVICT_SILENT + TICK_PERIOD + MaxDelay
        BY <4>1, <4>2, SizeTypes DEF Age, Silence
      <4> QED BY <4>3 DEF Stat
    <3>3. \A f \in usb_out' :
            f.rows = {Stat(table[s], wq.t) : s \in {r \in Slots : table[r].valid}}
      BY <3>1
    <3> QED BY <3>2, <3>3 DEF SilentDropped
  <2>2. CASE UNCHANGED usb_out
    BY <2>2 DEF SilentDropped
  <2>3. CASE usb_out' = {}
    BY <2>3 DEF SilentDropped
  <2> QED
    BY <2>1, <2>2, <2>3
    DEF Next, vars, TakeSample, TakeTstatus, HeadReboot, RxAccount, TickStamp,
        TickFold, EmitStamp, Advance
<1> QED BY <1>1, <1>2, AgingInvariance, PTL DEF Spec

-----------------------------------------------------------------------------
(* Loss is counted exactly.                                                *)

LEMMA ModNegative ==
  ASSUME NEW M \in Nat, M > 0, NEW x \in Int, x < 0, x + M >= 0
  PROVE  x % M = x + M
<1> DEFINE q == x \div M
           r == x % M
<1>1. x = M * q + r /\ r \in 0 .. M - 1 /\ q \in Int
  OBVIOUS
<1> HIDE DEF q, r
<1>2. CASE q >= 0
  <2>1. M * q >= 0
    BY <1>1, <1>2
  <2> QED BY <1>1, <2>1
<1>3. CASE q = -1
  BY <1>1, <1>3 DEF r
<1>4. CASE q <= -2
  <2>1. M * q <= -2 * M
    BY <1>1, <1>4
  <2> QED BY <1>1, <2>1
<1> QED BY <1>1, <1>2, <1>3, <1>4

(* The modular step is the true one when that is below the modulus.        *)
LEMMA ModStep ==
  ASSUME NEW M \in Nat, M > 0, NEW a \in Nat, NEW b \in Nat, a >= b, a - b < M
  PROVE  ((a % M) - (b % M)) % M = a - b
<1> DEFINE ra == a % M
           rb == b % M
           qa == a \div M
           qb == b \div M
<1>1. a = M * qa + ra /\ ra \in 0 .. M - 1 /\ qa \in Nat
  OBVIOUS
<1>2. b = M * qb + rb /\ rb \in 0 .. M - 1 /\ qb \in Nat
  OBVIOUS
<1>3. a - b = M * (qa - qb) + (ra - rb)
  BY <1>1, <1>2
<1>4. qa - qb \in {0, 1}
  BY <1>1, <1>2
<1>5. CASE qa = qb
  <2>1. ra - rb = a - b
    BY <1>1, <1>2, <1>5
  <2>2. ra - rb \in 0 .. M - 1
    BY <2>1
  <2> HIDE DEF ra, rb
  <2>3. (ra - rb) % M = ra - rb
    BY <2>2
  <2> QED BY <2>1, <2>3 DEF ra, rb
<1>6. CASE qa = qb + 1
  <2>1. ra - rb + M = a - b
    BY <1>1, <1>2, <1>6
  <2> HIDE DEF ra, rb
  <2>2. ra - rb \in Int /\ ra - rb < 0
    BY <1>1, <1>2, <2>1 DEF ra, rb
  <2>3. (ra - rb) % M = ra - rb + M
    BY <2>1, <2>2, ModNegative
  <2> QED BY <2>1, <2>3 DEF ra, rb
<1> QED BY <1>4, <1>5, <1>6

(* What the rx thread holds of a head.                                     *)
Pending(id)  == rx.pc = "stamped" /\ rx.pkt.id = id
Sampling(id) == Pending(id) /\ rx.pkt.kind = "SAMPLE"

Sent ==
  rx.pc = "stamped" =>
    LET head == heads[rx.pkt.id]
    IN /\ rx.t = head.at
       /\ rx.pkt.boot <= head.boot
       /\ rx.pkt.kind = "SAMPLE" /\ rx.pkt.boot = head.boot
            => head.n = rx.pkt.n + 1

(* What an entry knows of its head: when it was last heard, and, while it  *)
(* has not rebooted, which of its samples were missed up to the last one   *)
(* accounted for; the sample held by the rx thread is at most as many      *)
(* samples later as the head was silent.                                   *)
Tracked(e, h) ==
  /\ e.id \in TrackerIds
  /\ ~Pending(e.id) => e.last_seen = heads[e.id].at
  /\ ~e.have_seq => e.seq_lost = 0
  /\ e.have_seq =>
       /\ h.boot <= heads[e.id].boot
       /\ h.clean =>
            /\ e.last_seq = h.last % SEQ_MOD
            /\ e.seq_lost = h.last - h.first + 1 - h.got
            /\ ~Sampling(e.id) /\ heads[e.id].boot = h.boot
                 => heads[e.id].n = h.last + 1
            /\ Sampling(e.id) /\ rx.pkt.boot = h.boot
                 => rx.pkt.n - h.last \in 1 .. rx.t - e.last_seen

Counting ==
  Sent /\ \A s \in Slots : table[s].valid => Tracked(table[s], hist[s])

LEMMA HeadTypes ==
  ASSUME IInv
  PROVE  /\ heads \in [TrackerIds -> [n : Nat, boot : Nat, at : Nat, taken : Nat]]
         /\ \A id \in TrackerIds : heads[id].n \in Nat /\ heads[id].boot \in Nat /\ heads[id].at \in Nat
         /\ table \in [Slots -> Entries] /\ hist \in [Slots -> Hists]
         /\ \A s \in Slots : /\ table[s].last_seen \in Nat /\ table[s].seq_lost \in Nat
                             /\ table[s].have_seq \in BOOLEAN /\ table[s].valid \in BOOLEAN
                             /\ hist[s].first \in Nat /\ hist[s].last \in Nat
                             /\ hist[s].got \in Nat /\ hist[s].boot \in Nat
                             /\ hist[s].clean \in BOOLEAN
         /\ rx.pc = "stamped" =>
              rx.pkt \in Packets /\ rx.pkt.id \in TrackerIds /\ rx.pkt.n \in Nat
              /\ rx.pkt.boot \in Nat /\ rx.t \in Nat
<1>1. /\ heads \in [TrackerIds -> [n : Nat, boot : Nat, at : Nat, taken : Nat]]
      /\ table \in [Slots -> Entries] /\ hist \in [Slots -> Hists]
  BY DEF IInv, TypeOK, Hists
<1>2. \A s \in Slots : /\ table[s].last_seen \in Nat /\ table[s].seq_lost \in Nat
                       /\ table[s].have_seq \in BOOLEAN /\ table[s].valid \in BOOLEAN
                       /\ hist[s].first \in Nat /\ hist[s].last \in Nat
                       /\ hist[s].got \in Nat /\ hist[s].boot \in Nat
                       /\ hist[s].clean \in BOOLEAN
  BY <1>1 DEF Entries, Hists
<1>3. rx.pc = "stamped" =>
        rx.pkt \in Packets /\ rx.pkt.id \in TrackerIds /\ rx.pkt.n \in Nat
        /\ rx.pkt.boot \in Nat /\ rx.t \in Nat
  BY Held DEF IInv, Packets
<1> QED BY <1>1, <1>2, <1>3

(* The air: the sample taken next is later than the last one by no more    *)
(* samples than the time the head had.                                     *)
LEMMA TakeSampleCounts ==
  ASSUME IInv, Counting, NEW id \in TrackerIds, TakeSample(id)
  PROVE  Counting'
<1>1. PICK lost \in 0 .. now - heads[id].at - 1 :
        /\ RxTake(Packet("SAMPLE", id, heads[id].n + lost, 0))
        /\ heads' = [heads EXCEPT ![id].n = @ + lost + 1, ![id].at = now,
                                  ![id].taken = @ + 1]
  BY DEF TakeSample
<1>2. /\ rx.pc = "idle" /\ rx'.pc = "stamped" /\ rx'.t = now
      /\ rx'.pkt.kind = "SAMPLE" /\ rx'.pkt.id = id
      /\ rx'.pkt.n = heads[id].n + lost /\ rx'.pkt.boot = heads[id].boot
  BY <1>1 DEF RxTake, Packet
<1>3. /\ heads'[id].n = heads[id].n + lost + 1 /\ heads'[id].at = now
      /\ heads'[id].boot = heads[id].boot
      /\ \A k \in TrackerIds \ {id} : heads'[k] = heads[k]
  BY <1>1, HeadTypes
<1>4. table' = table /\ hist' = hist
  BY DEF TakeSample
<1>5. Sent'
  BY <1>2, <1>3, HeadTypes DEF Sent
<1>6. ASSUME NEW s \in Slots, table[s].valid
      PROVE  Tracked(table[s], hist[s])'
  <2> DEFINE e == table[s]
             h == hist[s]
  <2>1. Tracked(e, h)
    BY <1>6 DEF Counting
  <2>2. e.last_seen \in Nat /\ h.last \in Nat /\ now \in Nat /\ heads[id].at \in Nat
        /\ heads[id].n \in Nat
    BY HeadTypes, StateTypes
  <2>3. e' = e /\ h' = h
    BY <1>4
  <2> HIDE DEF e, h
  <2>4. CASE e.id = id
    <3>1. e.last_seen = heads[id].at
      BY <1>2, <2>1, <2>4 DEF Tracked, Pending
    <3>2. e.have_seq /\ h.clean /\ heads[id].boot = h.boot => heads[id].n = h.last + 1
      BY <1>2, <2>1, <2>4 DEF Tracked, Pending, Sampling
    <3>4. e'.id = id /\ Pending(id)' /\ Sampling(id)'
      BY <1>2, <2>3, <2>4 DEF Pending, Sampling
    <3>5. /\ ~e.have_seq => e.seq_lost = 0
          /\ e.have_seq => h.boot <= heads[id].boot
          /\ e.have_seq /\ h.clean =>
               /\ e.last_seq = h.last % SEQ_MOD
               /\ e.seq_lost = h.last - h.first + 1 - h.got
      BY <2>1, <2>4 DEF Tracked
    <3>6. e.have_seq /\ h.clean /\ rx'.pkt.boot = h.boot
            => rx'.pkt.n - h.last \in 1 .. rx'.t - e.last_seen
      <4> SUFFICES ASSUME e.have_seq, h.clean, rx'.pkt.boot = h.boot
                   PROVE  rx'.pkt.n - h.last \in 1 .. rx'.t - e.last_seen
        OBVIOUS
      <4>1. heads[id].n = h.last + 1
        BY <1>2, <3>2
      <4>2. rx'.pkt.n = h.last + 1 + lost /\ rx'.t = now
        BY <1>2, <4>1
      <4>3. /\ h.last \in Nat /\ e.last_seen \in Nat /\ now \in Nat
            /\ lost \in 0 .. now - e.last_seen - 1
        BY <2>2, <3>1
      <4> DEFINE l == h.last
                 a == e.last_seen
                 m == rx'.pkt.n
                 u == rx'.t
      <4> HIDE DEF l, a, m, u
      <4>4. l \in Nat /\ a \in Nat /\ lost \in 0 .. now - a - 1 /\ now \in Nat
        BY <4>3 DEF l, a
      <4>5. m = l + 1 + lost /\ u = now
        BY <4>2 DEF l, m, u
      <4>6. m - l \in 1 .. u - a
        BY <4>4, <4>5
      <4> QED BY <4>6 DEF l, a, m, u
    <3>7. Tracked(e, h)'
      BY <1>3, <2>3, <3>4, <3>5, <3>6 DEF Tracked
    <3> QED BY <3>7 DEF e, h
  <2>5. CASE e.id # id
    BY <1>2, <1>3, <2>1, <2>3, <2>5 DEF Tracked, Pending, Sampling, e, h
  <2> QED BY <2>4, <2>5
<1> QED BY <1>4, <1>5, <1>6 DEF Counting

LEMMA OtherAirCounts ==
  ASSUME IInv, Counting, NEW id \in TrackerIds, TakeTstatus(id) \/ HeadReboot(id)
  PROVE  Counting'
<1>1. CASE TakeTstatus(id)
  <2>1. PICK mode \in TstatusModes : RxTake(Packet("TSTATUS", id, heads[id].n, mode))
    BY <1>1 DEF TakeTstatus
  <2>2. /\ rx.pc = "idle" /\ rx'.pc = "stamped" /\ rx'.t = now
        /\ rx'.pkt.kind = "TSTATUS" /\ rx'.pkt.id = id
        /\ rx'.pkt.boot = heads[id].boot
    BY <2>1 DEF RxTake, Packet
  <2>3. /\ heads'[id].n = heads[id].n /\ heads'[id].at = now
        /\ heads'[id].boot = heads[id].boot
        /\ \A k \in TrackerIds \ {id} : heads'[k] = heads[k]
    BY <1>1, HeadTypes DEF TakeTstatus
  <2>4. table' = table /\ hist' = hist
    BY <1>1 DEF TakeTstatus
  <2>5. Sent'
    BY <2>2, <2>3, HeadTypes DEF Sent
  <2>6. ASSUME NEW s \in Slots, table[s].valid
        PROVE  Tracked(table[s], hist[s])'
    BY <2>2, <2>3, <2>4, <2>6 DEF Counting, Tracked, Pending, Sampling
  <2> QED BY <2>4, <2>5, <2>6 DEF Counting
<1>2. CASE HeadReboot(id)
  <2>1. /\ heads'[id].n = 0 /\ heads'[id].at = heads[id].at
        /\ heads'[id].boot = heads[id].boot + 1
        /\ \A k \in TrackerIds \ {id} : heads'[k] = heads[k]
    BY <1>2, HeadTypes DEF HeadReboot
  <2>2. table' = table /\ hist' = hist /\ rx' = rx
    BY <1>2 DEF HeadReboot
  <2>3. Sent'
    BY <2>1, <2>2, HeadTypes DEF Counting, Sent
  <2>4. ASSUME NEW s \in Slots, table[s].valid
        PROVE  Tracked(table[s], hist[s])'
    BY <2>1, <2>2, <2>4, HeadTypes DEF Counting, Tracked, Pending, Sampling
  <2> QED BY <2>2, <2>3, <2>4 DEF Counting
<1> QED BY <1>1, <1>2

-----------------------------------------------------------------------------
(* The accounting: a gap is below half the sequence space because a head   *)
(* silent for longer is no longer in the table.                            *)

LEMMA GapBound ==
  ASSUME AInv, rx.pc = "stamped", NEW s \in Slots, table[s].valid
  PROVE  rx.t - table[s].last_seen <= EVICT_SILENT + TICK_PERIOD + 2 * MaxDelay
<1>1. /\ now \in Nat /\ stats_due \in Nat /\ table[s].last_seen \in Nat
      /\ LastTick \in Nat /\ now < LastTick + TICK_PERIOD
      /\ rx.t \in Nat /\ rx.t <= now
      /\ wq.pc = "fold" => wq.t \in Nat
  BY StateTypes, LastTickIs DEF AInv, IInv, Stamped
<1>2. /\ stats_due # NotDue => now - stats_due <= MaxDelay
      /\ wq.pc = "fold" => now - wq.t <= MaxDelay
  BY DEF AInv, Delays
<1>3. Expecting(s)
  BY DEF AInv, Aging
<1> QED BY <1>1, <1>2, <1>3, SizeTypes DEF Expecting, Silence

(* What is left of Tracked once the rx thread holds nothing of the head.   *)
Settled(e, h) ==
  LET head == heads[e.id]
  IN /\ e.last_seen = head.at
     /\ ~e.have_seq => e.seq_lost = 0
     /\ e.have_seq =>
          /\ h.boot <= head.boot
          /\ h.clean =>
               /\ e.last_seq = h.last % SEQ_MOD
               /\ e.seq_lost = h.last - h.first + 1 - h.got
               /\ head.boot = h.boot => head.n = h.last + 1

\* The fields the loss is counted in, after a sample.
LEMMA SampledIs ==
  ASSUME NEW e \in Entries, NEW pkt \in Packets, NEW t \in Nat
  PROVE  LET e2 == Sampled(e, pkt, t)
         IN /\ e2.id = e.id /\ e2.last_seen = t /\ e2.have_seq
            /\ ~e.have_seq =>
                 e2.seq_lost = e.seq_lost /\ e2.last_seq = Seqno(pkt)
            /\ e.have_seq /\ Newer(e, pkt) =>
                 /\ e2.seq_lost = e.seq_lost + SeqStep(e, pkt) - 1
                 /\ e2.last_seq = Seqno(pkt)
<1> DEFINE seen == [e EXCEPT !.last_seen = t, !.pkt_count = Counted(e)]
           first == [seen EXCEPT !.have_seq = TRUE, !.last_seq = Seqno(pkt)]
           later == [seen EXCEPT !.seq_lost = @ + SeqStep(e, pkt) - 1,
                                 !.last_seq = Seqno(pkt)]
<1>1. /\ seen.id = e.id /\ seen.last_seen = t /\ seen.seq_lost = e.seq_lost
      /\ seen.have_seq = e.have_seq
  BY DEF Entries
<1>2. /\ first.id = e.id /\ first.last_seen = t /\ first.seq_lost = e.seq_lost
      /\ first.have_seq /\ first.last_seq = Seqno(pkt)
  BY DEF Entries
<1>3. /\ later.id = e.id /\ later.last_seen = t /\ later.last_seq = Seqno(pkt)
      /\ later.seq_lost = e.seq_lost + SeqStep(e, pkt) - 1
      /\ later.have_seq = e.have_seq
  BY DEF Entries
<1>4. Sampled(e, pkt, t) = IF ~e.have_seq THEN first
                           ELSE IF Newer(e, pkt) THEN later ELSE seen
  BY DEF Sampled
<1> HIDE DEF seen, first, later
<1> QED BY <1>1, <1>2, <1>3, <1>4

LEMMA AccountSettles ==
  ASSUME IInv, Sent, rx.pc = "stamped", NEW e \in Entries, NEW h \in Hists,
         e.id = rx.pkt.id, Tracked(e, h),
         e.have_seq => rx.t - e.last_seen <= SEQ_MOD \div 2
  PROVE  Settled(Update(e, rx.pkt, rx.t), UpdateHist(h, e, rx.pkt))
<1> DEFINE pkt == rx.pkt
           t == rx.t
           head == heads[pkt.id]
           e2 == Update(e, pkt, t)
           h2 == UpdateHist(h, e, pkt)
<1>1. /\ pkt \in Packets /\ pkt.id \in TrackerIds /\ pkt.n \in Nat
      /\ pkt.boot \in Nat /\ t \in Nat /\ pkt.kind \in {"SAMPLE", "TSTATUS"}
      /\ head.n \in Nat /\ head.boot \in Nat /\ head.at \in Nat
  BY HeadTypes DEF Packets
<1>2. /\ t = head.at /\ pkt.boot <= head.boot
      /\ pkt.kind = "SAMPLE" /\ pkt.boot = head.boot => head.n = pkt.n + 1
  BY DEF Sent
<1>3. /\ e.last_seen \in Nat /\ e.seq_lost \in Nat /\ e.have_seq \in BOOLEAN
      /\ h.first \in Nat /\ h.last \in Nat /\ h.got \in Nat /\ h.boot \in Nat
      /\ h.clean \in BOOLEAN
  BY DEF Entries, Hists
<1>4. /\ ~e.have_seq => e.seq_lost = 0
      /\ e.have_seq => h.boot <= head.boot
      /\ e.have_seq /\ h.clean =>
           /\ e.last_seq = h.last % SEQ_MOD
           /\ e.seq_lost = h.last - h.first + 1 - h.got
           /\ pkt.kind # "SAMPLE" /\ head.boot = h.boot => head.n = h.last + 1
           /\ pkt.kind = "SAMPLE" /\ pkt.boot = h.boot
                => pkt.n - h.last \in 1 .. t - e.last_seen
  BY DEF Tracked, Sampling, Pending
<1>5. CASE pkt.kind = "TSTATUS"
  <2>1. h2 = h /\ e2 = Reported(e, pkt, t)
    BY <1>5 DEF UpdateHist, Update
  <2>2. /\ e2.id = e.id /\ e2.last_seen = t /\ e2.have_seq = e.have_seq
        /\ e2.seq_lost = e.seq_lost /\ e2.last_seq = e.last_seq
    BY <2>1 DEF Reported, Entries
  <2> HIDE DEF e2, h2
  <2>3. Settled(e2, h2)
    BY <1>2, <1>4, <1>5, <2>1, <2>2 DEF Settled
  <2> QED BY <2>3 DEF e2, h2
<1>6. CASE pkt.kind = "SAMPLE" /\ ~e.have_seq
  <2>1. /\ h2.first = pkt.n /\ h2.last = pkt.n /\ h2.got = 1
        /\ h2.boot = pkt.boot
    BY <1>6 DEF UpdateHist
  <2>2. e2 = Sampled(e, pkt, t)
    BY <1>6 DEF Update
  <2>3. /\ e2.id = e.id /\ e2.last_seen = t /\ e2.have_seq
        /\ e2.seq_lost = e.seq_lost /\ e2.last_seq = Seqno(pkt)
    BY <1>1, <1>6, <2>2, SampledIs
  <2> HIDE DEF e2, h2
  <2>4. h2.last - h2.first + 1 - h2.got = 0
    BY <1>1, <2>1
  <2>5. Settled(e2, h2)
    BY <1>2, <1>4, <1>6, <2>1, <2>3, <2>4 DEF Settled, Seqno
  <2> QED BY <2>5 DEF e2, h2
<1>7. CASE pkt.kind = "SAMPLE" /\ e.have_seq
  <2>1. /\ h2.first = h.first /\ h2.last = pkt.n /\ h2.got = h.got + 1
        /\ h2.boot = h.boot
        /\ h2.clean <=> h.clean /\ pkt.boot = h.boot
    BY <1>1, <1>7 DEF UpdateHist, Hists
  <2>2. e2 = Sampled(e, pkt, t)
    BY <1>7 DEF Update
  <2>3. /\ e2.id = e.id /\ e2.last_seen = t /\ e2.have_seq
        /\ Newer(e, pkt) =>
             /\ e2.seq_lost = e.seq_lost + SeqStep(e, pkt) - 1
             /\ e2.last_seq = Seqno(pkt)
    BY <1>1, <1>7, <2>2, SampledIs
  <2> HIDE DEF e2, h2
  <2>4. ASSUME h2.clean
        PROVE  /\ e2.last_seq = h2.last % SEQ_MOD
               /\ e2.seq_lost = h2.last - h2.first + 1 - h2.got
               /\ head.boot = h2.boot => head.n = h2.last + 1
    <3> DEFINE gap == pkt.n - h.last
    <3>1. h.clean /\ pkt.boot = h.boot
      BY <2>1, <2>4
    <3>2. gap \in 1 .. t - e.last_seen
      BY <1>4, <1>7, <3>1
    <3>3. t - e.last_seen <= SEQ_MOD \div 2
      BY <1>7
    <3>4. gap \in Nat /\ gap # 0 /\ gap <= SEQ_MOD \div 2 /\ gap < SEQ_MOD
      BY <1>1, <1>3, <3>2, <3>3, SizeTypes
    <3>5. SeqStep(e, pkt) = gap
      <4>1. pkt.n >= h.last
        BY <1>1, <1>3, <3>4
      <4>2. ((pkt.n % SEQ_MOD) - (h.last % SEQ_MOD)) % SEQ_MOD = pkt.n - h.last
        <5> DEFINE M == SEQ_MOD
                   a == pkt.n
                   b == h.last
        <5>1. /\ a \in Nat /\ b \in Nat /\ a >= b /\ a - b < M
              /\ M \in Nat /\ M > 0
          BY <1>1, <1>3, <3>4, <4>1, SizeTypes
        <5> HIDE DEF M, a, b
        <5>2. ((a % M) - (b % M)) % M = a - b
          BY <5>1, ModStep, Zenon
        <5> QED BY <5>2 DEF M, a, b
      <4>3. e.last_seq = h.last % SEQ_MOD
        BY <1>4, <1>7, <3>1
      <4> QED BY <4>2, <4>3 DEF SeqStep, Seqno
    <3>6. Newer(e, pkt)
      BY <3>4, <3>5 DEF Newer
    <3>7. e2.seq_lost = e.seq_lost + gap - 1 /\ e2.last_seq = pkt.n % SEQ_MOD
      BY <2>3, <3>5, <3>6 DEF Seqno
    <3>8. e.seq_lost = h.last - h.first + 1 - h.got
      BY <1>4, <1>7, <3>1
    <3>9. e2.seq_lost = pkt.n - h.first + 1 - (h.got + 1)
      BY <1>1, <1>3, <3>7, <3>8
    <3> QED BY <1>2, <1>7, <2>1, <3>1, <3>7, <3>9
  <2>5. Settled(e2, h2)
    BY <1>2, <1>4, <1>7, <2>1, <2>3, <2>4 DEF Settled
  <2> QED BY <2>5 DEF e2, h2
<1> QED BY <1>1, <1>5, <1>6, <1>7

LEMMA ClaimNone ==
  ASSUME NEW id, NEW t, Claim(id, t) = NoSlot
  PROVE  Owned(id) = {}
<1>1. ASSUME Owned(id) # {} PROVE FALSE
  <2>1. Claim(id, t) = Lowest(Owned(id)) /\ Owned(id) \subseteq Slots
    BY <1>1 DEF Claim, Owned
  <2>2. Lowest(Owned(id)) \in Slots
    BY <1>1, <2>1, LowestIn
  <2> QED BY <2>1, <2>2 DEF Slots, NoSlot
<1> QED BY <1>1

LEMMA RxAccountCounts ==
  ASSUME AInv, UniqueIds, SeqSpace, Counting, RxAccount
  PROVE  Counting'
<1> DEFINE id == rx.pkt.id
<1>1. /\ IInv /\ TypeOK /\ rx.pc = "stamped" /\ rx'.pc = "idle"
      /\ heads' = heads /\ id \in TrackerIds
  BY HeadTypes DEF AInv, IInv, RxAccount, Idle
<1>2. Sent'
  BY <1>1 DEF Sent
<1>3. ASSUME NEW e, NEW h, Tracked(e, h), e.id # id
      PROVE  Tracked(e, h)'
  BY <1>1, <1>3 DEF Tracked, Pending, Sampling
<1>4. ASSUME NEW e, NEW h, Settled(e, h), e.id \in TrackerIds
      PROVE  Tracked(e, h)'
  BY <1>1, <1>4 DEF Settled, Tracked, Pending, Sampling
<1> HIDE DEF id
<1>5. CASE Claim(id, rx.t) = NoSlot
  <2>1. table' = table /\ hist' = hist
    BY <1>5 DEF RxAccount, id
  <2>2. \A r \in Slots : table[r].valid => table[r].id # id
    BY <1>5, ClaimNone DEF Owned
  <2>3. \A r \in Slots : table[r].valid => Tracked(table[r], hist[r])
    BY DEF Counting
  <2>4. ASSUME NEW r \in Slots, table[r].valid
        PROVE  Tracked(table[r], hist[r])'
    BY <1>3, <2>1, <2>2, <2>3, <2>4
  <2> QED BY <1>2, <2>1, <2>4 DEF Counting
<1>6. ASSUME NEW s \in Slots,
             \/ s \in Owned(id)
             \/ Owned(id) = {} /\ s \in Free \cup Stale(rx.t),
             table' = [table EXCEPT ![s] = Update(Claimed(s, id), rx.pkt, rx.t)],
             hist' = [hist EXCEPT ![s] = UpdateHist(ClaimedHist(s, id),
                                                    Claimed(s, id), rx.pkt)]
      PROVE  Counting'
  <2> DEFINE e == Claimed(s, id)
             h == ClaimedHist(s, id)
             e2 == Update(e, rx.pkt, rx.t)
             h2 == UpdateHist(h, e, rx.pkt)
  <2>1. e \in Entries /\ e.id = id
    BY <1>1, ClaimedType DEF TypeOK
  <2>2. h \in Hists
    BY <1>1, HeadTypes DEF ClaimedHist, NoHist, Hists
  <2>3. Tracked(e, h) /\ (e.have_seq => rx.t - e.last_seen <= SEQ_MOD \div 2)
    <3>1. CASE s \in Owned(id)
      <4>1. e = table[s] /\ h = hist[s] /\ table[s].valid
        BY <3>1 DEF Claimed, ClaimedHist, Owned
      <4>2. rx.t - table[s].last_seen <= SEQ_MOD \div 2
        <5>1. rx.t - table[s].last_seen <= EVICT_SILENT + TICK_PERIOD + 2 * MaxDelay
          BY <1>1, <4>1, GapBound
        <5>2. rx.t \in Nat /\ table[s].last_seen \in Nat
          BY <1>1, StateTypes
        <5> QED BY <5>1, <5>2, SizeTypes DEF SeqSpace
      <4>3. Tracked(table[s], hist[s])
        BY <4>1 DEF Counting
      <4> HIDE DEF e, h
      <4> QED BY <4>1, <4>2, <4>3
    <3>2. CASE s \notin Owned(id)
      <4>1. e = Entry(TRUE, id)
        BY <3>2 DEF Claimed
      <4>2. /\ e.have_seq <=> FALSE
            /\ e.seq_lost = 0
        BY <4>1 DEF Entry
      <4> HIDE DEF e, h
      <4> QED BY <1>1, <2>1, <4>2 DEF Tracked, Pending, id
    <3> QED BY <3>1, <3>2
  <2>4. Settled(e2, h2)
    <3> HIDE DEF e, h
    <3> QED BY <1>1, <2>1, <2>2, <2>3, AccountSettles DEF Counting, id
  <2>5. e2.id = id
    BY <1>1, <2>1, HeadTypes, UpdateType
  <2>6. /\ table'[s] = e2 /\ hist'[s] = h2
        /\ \A r \in Slots : r # s => table'[r] = table[r] /\ hist'[r] = hist[r]
    BY <1>1, <1>6, HeadTypes
  <2> HIDE DEF e, h, e2, h2
  <2>7. Tracked(table[s], hist[s])'
    <3>1. Settled(table'[s], hist'[s]) /\ table'[s].id \in TrackerIds
      BY <1>1, <2>4, <2>5, <2>6 DEF id
    <3> QED BY <1>4, <3>1
  <2>8. ASSUME NEW r \in Slots, r # s, table'[r].valid
        PROVE  Tracked(table[r], hist[r])'
    <3>1. table[r].valid /\ Tracked(table[r], hist[r])
      BY <2>6, <2>8 DEF Counting
    <3>2. table[r].id # id
      BY <1>6, <2>8, <3>1 DEF UniqueIds, Owned
    <3>3. Tracked(table[r], hist[r])'
      BY <1>3, <2>6, <2>8, <3>1, <3>2
    <3> QED BY <3>3
  <2> QED BY <1>2, <2>7, <2>8 DEF Counting
<1>7. CASE Claim(id, rx.t) # NoSlot
  <2> DEFINE c == Claim(id, rx.t)
  <2>1. c \in Slots
    BY <1>7, ClaimSlot
  <2>2. \/ c \in Owned(id)
        \/ Owned(id) = {} /\ c \in Free \cup Stale(rx.t)
    BY <1>7, ClaimCases
  <2>3. /\ table' = [table EXCEPT ![c] = Update(Claimed(c, id), rx.pkt, rx.t)]
        /\ hist' = [hist EXCEPT ![c] = UpdateHist(ClaimedHist(c, id),
                                                   Claimed(c, id), rx.pkt)]
    BY <1>7 DEF RxAccount, id
  <2> HIDE DEF c
  <2> QED BY <1>6, <2>1, <2>2, <2>3
<1> QED BY <1>5, <1>7

\* A fold frees slots and leaves the counting of the others alone.
LEMMA FoldCounts ==
  ASSUME IInv, Counting, TickFold
  PROVE  Counting'
<1>1. heads' = heads /\ rx' = rx /\ hist' = hist
  BY DEF TickFold
<1>2. Sent'
  BY <1>1 DEF Counting, Sent
<1>3. ASSUME NEW s \in Slots, table'[s].valid
      PROVE  Tracked(table[s], hist[s])'
  <2>1. table[s] \in Entries /\ table'[s] = Folded(table[s], wq.t)
    BY HeadTypes DEF TickFold
  <2>2. /\ table[s].valid
        /\ table'[s].id = table[s].id /\ table'[s].last_seen = table[s].last_seen
        /\ table'[s].have_seq = table[s].have_seq
        /\ table'[s].seq_lost = table[s].seq_lost
        /\ table'[s].last_seq = table[s].last_seq
    BY <1>3, <2>1 DEF Folded, Entries
  <2>3. Tracked(table[s], hist[s])
    BY <2>2 DEF Counting
  <2> QED BY <1>1, <2>2, <2>3 DEF Tracked, Pending, Sampling
<1> QED BY <1>2, <1>3 DEF Counting

LEMMA CountingInv ==
  ASSUME SeqSpace, AInv, UniqueIds, Counting, [Next]_vars
  PROVE  Counting'
<1>1. CASE UNCHANGED <<table, heads, rx, hist>>
  BY <1>1 DEF Counting, Sent, Tracked, Pending, Sampling
<1>2. CASE Next
  <2>1. ASSUME NEW id \in TrackerIds,
               TakeSample(id) \/ TakeTstatus(id) \/ HeadReboot(id)
        PROVE  Counting'
    BY <2>1, TakeSampleCounts, OtherAirCounts DEF AInv
  <2>2. CASE RxAccount
    BY <2>2, RxAccountCounts
  <2>3. CASE TickFold
    BY <2>3, FoldCounts DEF AInv
  <2> QED
    BY <1>1, <1>2, <2>1, <2>2, <2>3
    DEF Next, TickStamp, EmitStamp, EmitSnapshot, Advance
<1> QED BY <1>1, <1>2 DEF vars

(* While its head does not reboot, the loss of a listed tracker is exactly *)
(* the samples that were sent and never accounted for, for any number of   *)
(* wraps of the sequence number.                                           *)
THEOREM LossIsExact ==
  ASSUME Punctual, SeqSpace
  PROVE  Spec => []LossExact
<1>1. Init => Counting
  BY DEF Init, Counting, Sent, Idle, Entry
<1>2. AInv /\ UniqueIds /\ Counting /\ [Next]_vars => Counting'
  BY CountingInv
<1>3. Counting => LossExact
  BY DEF Counting, Tracked, LossExact
<1> QED BY <1>1, <1>2, <1>3, AgingInvariance, IdsUnique, PTL DEF Spec

-----------------------------------------------------------------------------
(* The rates are covered by the total.                                     *)

LEMMA UpTo ==
  ASSUME NEW n \in Nat, NEW T, 0 \in T, \A i \in 0 .. n - 1 : i \in T => i + 1 \in T
  PROVE  \A i \in 0 .. n : i \in T
<1> DEFINE R == OpToRel(<, Nat)
           B == (0 .. n) \ T
<1>1. IsWellFoundedOn(R, Nat)
  BY NatLessThanWellFounded
<1>2. \A x, y \in Nat : y < x => <<y, x>> \in R
  BY DEF OpToRel
<1> HIDE DEF R
<1>3. SUFFICES ASSUME B # {} PROVE FALSE
  OBVIOUS
<1>4. PICK x \in B : \A y \in B : ~(<<y, x>> \in R)
  <2>1. B \subseteq Nat
    OBVIOUS
  <2> HIDE DEF B
  <2> QED BY <1>1, <1>3, <2>1, WFMin
<1>5. x \in 1 .. n /\ x - 1 \in 0 .. n - 1
  OBVIOUS
<1>6. x - 1 \notin B
  <2>1. x \in Nat /\ x - 1 \in Nat /\ x - 1 < x
    BY <1>5
  <2>2. <<x - 1, x>> \in R
    BY <1>2, <2>1
  <2> HIDE DEF B
  <2> QED BY <1>4, <2>2
<1> QED BY <1>4, <1>5, <1>6

Sums(f, u) == u = [n \in 0 .. TRACKERS_MAX |-> IF n = 0 THEN 0 ELSE u[n - 1] + f[n]]

LEMMA SumsExist ==
  ASSUME NEW f \in [Slots -> Nat]
  PROVE  \E u : Sums(f, u)
<1> DEFINE Upto(n, u) == u = [i \in 0 .. n |-> IF i = 0 THEN 0 ELSE u[i - 1] + f[i]]
           T == {n \in Nat : \E u : Upto(n, u)}
<1>1. TRACKERS_MAX \in Nat
  BY ConstantsAssumption
<1>2. 0 \in T
  <2>1. Upto(0, [i \in 0 .. 0 |-> 0])
    OBVIOUS
  <2> QED BY <2>1
<1>3. ASSUME NEW n \in 0 .. TRACKERS_MAX - 1, n \in T PROVE n + 1 \in T
  <2>1. PICK u : Upto(n, u)
    BY <1>3
  <2> DEFINE v == [i \in 0 .. n + 1 |-> IF i <= n THEN u[i] ELSE u[n] + f[n + 1]]
  <2>2. ASSUME NEW i \in 0 .. n + 1
        PROVE  v[i] = IF i = 0 THEN 0 ELSE v[i - 1] + f[i]
    <3>1. CASE i = 0
      BY <2>1, <3>1
    <3>2. CASE i \in 1 .. n
      <4>1. u[i] = u[i - 1] + f[i]
        BY <2>1, <3>2
      <4> QED BY <3>2, <4>1
    <3>3. CASE i = n + 1
      BY <1>1, <3>3
    <3> QED BY <3>1, <3>2, <3>3
  <2>3. Upto(n + 1, v)
    BY <2>2, Zenon
  <2>4. n + 1 \in Nat
    BY <1>1
  <2> HIDE DEF v, Upto
  <2> QED BY <2>3, <2>4
<1> HIDE DEF T
<1>4. \A i \in 0 .. TRACKERS_MAX : i \in T
  BY <1>1, <1>2, <1>3, UpTo
<1>5. TRACKERS_MAX \in T
  BY <1>1, <1>4
<1> QED BY <1>5 DEF T, Sums

LEMMA TotalIs ==
  ASSUME NEW f \in [Slots -> Nat]
  PROVE  \E u \in [0 .. TRACKERS_MAX -> Nat] :
           /\ Total(f) = u[TRACKERS_MAX]
           /\ u[0] = 0
           /\ \A i \in Slots : u[i] = u[i - 1] + f[i]
<1>1. PICK u : Sums(f, u) /\ Total(f) = u[TRACKERS_MAX]
  <2> DEFINE w == CHOOSE u : Sums(f, u)
  <2>1. Sums(f, w)
    BY SumsExist
  <2>2. Total(f) = w[TRACKERS_MAX]
    BY DEF Total, Sums
  <2> QED BY <2>1, <2>2
<1>2. TRACKERS_MAX \in Nat
  BY ConstantsAssumption
<1>3. u[0] = 0 /\ \A i \in Slots : u[i] = u[i - 1] + f[i]
  BY <1>1, <1>2 DEF Sums, Slots
<1> DEFINE T == {i \in 0 .. TRACKERS_MAX : u[i] \in Nat}
<1>4. \A i \in 0 .. TRACKERS_MAX : i \in T
  <2>1. 0 \in T
    BY <1>2, <1>3
  <2>2. ASSUME NEW i \in 0 .. TRACKERS_MAX - 1, i \in T PROVE i + 1 \in T
    <3>1. i + 1 \in Slots /\ (i + 1) - 1 = i
      BY <1>2 DEF Slots
    <3>2. u[i + 1] = u[(i + 1) - 1] + f[i + 1] /\ f[i + 1] \in Nat
      BY <1>3, <3>1
    <3>3. u[i + 1] = u[i] + f[i + 1]
      BY <3>1, <3>2
    <3> QED BY <1>2, <2>2, <3>2, <3>3
  <2> HIDE DEF T
  <2> QED BY <1>2, <2>1, <2>2, UpTo
<1>5. u \in [0 .. TRACKERS_MAX -> Nat]
  BY <1>1, <1>4 DEF Sums
<1> QED BY <1>1, <1>3, <1>5

\* No term grows: neither does the sum.
LEMMA TotalLess ==
  ASSUME NEW f \in [Slots -> Nat], NEW g \in [Slots -> Nat],
         \A s \in Slots : g[s] <= f[s]
  PROVE  Total(f) \in Nat /\ Total(g) \in Nat /\ Total(g) <= Total(f)
<1>1. PICK u \in [0 .. TRACKERS_MAX -> Nat] :
        /\ Total(f) = u[TRACKERS_MAX] /\ u[0] = 0
        /\ \A i \in Slots : u[i] = u[i - 1] + f[i]
  BY TotalIs
<1>2. PICK v \in [0 .. TRACKERS_MAX -> Nat] :
        /\ Total(g) = v[TRACKERS_MAX] /\ v[0] = 0
        /\ \A i \in Slots : v[i] = v[i - 1] + g[i]
  BY TotalIs
<1>3. TRACKERS_MAX \in Nat
  BY ConstantsAssumption
<1> DEFINE T == {i \in 0 .. TRACKERS_MAX : v[i] <= u[i]}
<1>4. \A i \in 0 .. TRACKERS_MAX : i \in T
  <2>1. 0 \in T
    BY <1>1, <1>2, <1>3
  <2>2. ASSUME NEW i \in 0 .. TRACKERS_MAX - 1, i \in T PROVE i + 1 \in T
    <3> DEFINE x == i + 1
    <3>1. x \in Slots /\ x - 1 = i /\ x \in 0 .. TRACKERS_MAX
      BY <1>3 DEF Slots
    <3> HIDE DEF x
    <3>2. u[x] = u[i] + f[x] /\ v[x] = v[i] + g[x] /\ g[x] <= f[x]
      BY <1>1, <1>2, <3>1
    <3>3. u[i] \in Nat /\ v[i] \in Nat /\ f[x] \in Nat /\ g[x] \in Nat /\ v[i] <= u[i]
      BY <1>3, <2>2, <3>1
    <3>4. v[x] <= u[x]
      BY <3>2, <3>3
    <3>5. x \in T
      BY <3>1, <3>4
    <3> QED BY <3>5 DEF x
  <2> HIDE DEF T
  <2> QED BY <1>3, <2>1, <2>2, UpTo
<1>5. v[TRACKERS_MAX] <= u[TRACKERS_MAX]
  BY <1>3, <1>4
<1> QED BY <1>1, <1>2, <1>3, <1>5

\* One term grows by one at most: so does the sum.
LEMMA TotalOneMore ==
  ASSUME NEW f \in [Slots -> Nat], NEW g \in [Slots -> Nat], NEW q \in Slots,
         \A s \in Slots \ {q} : g[s] <= f[s], g[q] <= f[q] + 1
  PROVE  Total(f) \in Nat /\ Total(g) \in Nat /\ Total(g) <= Total(f) + 1
<1>1. PICK u \in [0 .. TRACKERS_MAX -> Nat] :
        /\ Total(f) = u[TRACKERS_MAX] /\ u[0] = 0
        /\ \A i \in Slots : u[i] = u[i - 1] + f[i]
  BY TotalIs
<1>2. PICK v \in [0 .. TRACKERS_MAX -> Nat] :
        /\ Total(g) = v[TRACKERS_MAX] /\ v[0] = 0
        /\ \A i \in Slots : v[i] = v[i - 1] + g[i]
  BY TotalIs
<1>3. TRACKERS_MAX \in Nat /\ q \in Nat
  BY ConstantsAssumption DEF Slots
<1> DEFINE T == {i \in 0 .. TRACKERS_MAX :
                   v[i] <= (IF i < q THEN u[i] ELSE u[i] + 1)}
<1>4. \A i \in 0 .. TRACKERS_MAX : i \in T
  <2>1. 0 \in T
    BY <1>1, <1>2, <1>3
  <2>2. ASSUME NEW i \in 0 .. TRACKERS_MAX - 1, i \in T PROVE i + 1 \in T
    <3> DEFINE x == i + 1
    <3>1. x \in Slots /\ x - 1 = i /\ x \in 0 .. TRACKERS_MAX
      BY <1>3 DEF Slots
    <3>2. i < q <=> x < q \/ x = q
      BY <1>3
    <3> HIDE DEF x
    <3>3. /\ u[x] = u[i] + f[x] /\ v[x] = v[i] + g[x]
          /\ u[i] \in Nat /\ v[i] \in Nat /\ f[x] \in Nat /\ g[x] \in Nat
          /\ v[i] <= (IF i < q THEN u[i] ELSE u[i] + 1)
      BY <1>1, <1>2, <1>3, <2>2, <3>1
    <3>4. CASE x = q
      <4>1. g[x] <= f[x] + 1 /\ v[i] <= u[i]
        BY <3>2, <3>3, <3>4
      <4>2. v[x] <= u[x] + 1
        BY <3>3, <4>1
      <4>3. x \in T
        BY <1>3, <3>1, <3>4, <4>2
      <4> QED BY <4>3 DEF x
    <3>5. CASE x # q
      <4>1. g[x] <= f[x] /\ (i < q <=> x < q)
        BY <3>1, <3>2, <3>5
      <4>2. v[x] <= (IF x < q THEN u[x] ELSE u[x] + 1)
        BY <3>3, <4>1
      <4>3. x \in T
        BY <3>1, <4>2
      <4> QED BY <4>3 DEF x
    <3> QED BY <3>4, <3>5
  <2> HIDE DEF T
  <2> QED BY <1>3, <2>1, <2>2, UpTo
<1>5. v[TRACKERS_MAX] <= u[TRACKERS_MAX] + 1
  <2>1. TRACKERS_MAX \in T /\ ~(TRACKERS_MAX < q)
    BY <1>3, <1>4 DEF Slots
  <2> QED BY <2>1
<1> QED BY <1>1, <1>2, <1>3, <1>5

LEMMA TotalZero ==
  ASSUME NEW g \in [Slots -> Nat], \A s \in Slots : g[s] = 0
  PROVE  Total(g) = 0
<1>1. PICK u \in [0 .. TRACKERS_MAX -> Nat] :
        /\ Total(g) = u[TRACKERS_MAX] /\ u[0] = 0
        /\ \A i \in Slots : u[i] = u[i - 1] + g[i]
  BY TotalIs
<1>2. TRACKERS_MAX \in Nat
  BY ConstantsAssumption
<1> DEFINE T == {i \in 0 .. TRACKERS_MAX : u[i] = 0}
<1>3. \A i \in 0 .. TRACKERS_MAX : i \in T
  <2>1. 0 \in T
    BY <1>1, <1>2
  <2>2. ASSUME NEW i \in 0 .. TRACKERS_MAX - 1, i \in T PROVE i + 1 \in T
    <3> DEFINE x == i + 1
    <3>1. x \in Slots /\ x - 1 = i /\ x \in 0 .. TRACKERS_MAX
      BY <1>2 DEF Slots
    <3> HIDE DEF x
    <3>2. u[x] = u[i] + g[x] /\ g[x] = 0 /\ u[i] = 0
      BY <1>1, <2>2, <3>1
    <3>3. x \in T
      BY <3>1, <3>2
    <3> QED BY <3>3 DEF x
  <2> HIDE DEF T
  <2> QED BY <1>2, <2>1, <2>2, UpTo
<1> QED BY <1>1, <1>2, <1>3

PacketCounts == [s \in Slots |-> IF table[s].valid THEN table[s].pkt_count ELSE 0]
Rates        == [s \in Slots |-> IF table[s].valid THEN table[s].rate ELSE 0]

LEMMA UpdateCounts ==
  ASSUME NEW e \in Entries, NEW pkt, NEW t
  PROVE  LET e2 == Update(e, pkt, t)
         IN /\ e2.rate = e.rate
            /\ e2.pkt_count = Counted(e) \/ e2.pkt_count = e.pkt_count
BY DEF Update, Sampled, Reported, Entries

LEMMA FoldedCounts ==
  ASSUME NEW e \in Entries, NEW t
  PROVE  LET e2 == Folded(e, t)
         IN e2.valid => e.valid /\ e2.rate = e.pkt_count /\ e2.pkt_count = 0
BY DEF Folded, Entries

LEMMA CountTypes ==
  ASSUME TypeOK
  PROVE  /\ PacketCounts \in [Slots -> Nat] /\ Rates \in [Slots -> Nat]
         /\ \A s \in Slots : table[s] \in Entries
         /\ rx_count \in Nat /\ rx_rate \in Nat
<1>1. \A s \in Slots : /\ table[s] \in Entries
                       /\ table[s].pkt_count \in Nat /\ table[s].rate \in Nat
  BY SizeTypes DEF TypeOK, Entries
<1> QED BY <1>1, SizeTypes DEF TypeOK, PacketCounts, Rates

\* A packet adds one to the total and at most one to one of the counts.
LEMMA RxAccountCovered ==
  ASSUME IInv, RatesCovered, RxAccount
  PROVE  RatesCovered'
<1>1. TypeOK /\ TypeOK' /\ rx_count' = rx_count + 1 /\ rx_rate' = rx_rate
  BY RxAccountIInv DEF IInv, RxAccount
<1>2. /\ Total(PacketCounts) <= rx_count
      /\ Total(Rates) <= rx_rate \/ rx_rate = UINT16_LIMIT
  BY DEF RatesCovered, PacketCounts, Rates
<1>3. /\ PacketCounts \in [Slots -> Nat] /\ Rates \in [Slots -> Nat]
      /\ PacketCounts' \in [Slots -> Nat] /\ Rates' \in [Slots -> Nat]
      /\ rx_count \in Nat /\ rx_rate \in Nat
  <2>1. \A s \in Slots : table'[s].pkt_count \in Nat /\ table'[s].rate \in Nat
    BY <1>1, SizeTypes DEF TypeOK, Entries
  <2>2. PacketCounts' \in [Slots -> Nat] /\ Rates' \in [Slots -> Nat]
    BY <2>1 DEF PacketCounts, Rates
  <2> QED BY <1>1, <2>2, CountTypes
<1>4. /\ Total(PacketCounts') <= rx_count + 1
      /\ Total(Rates') <= Total(Rates)
      /\ Total(Rates) \in Nat /\ Total(Rates') \in Nat
  <2>1. CASE UNCHANGED table
    <3>1. PacketCounts' = PacketCounts /\ Rates' = Rates
      BY <2>1 DEF PacketCounts, Rates
    <3>2. Total(PacketCounts) \in Nat /\ Total(Rates) \in Nat
      BY <1>3, TotalLess
    <3> QED BY <1>2, <1>3, <3>1, <3>2
  <2>2. ASSUME NEW q \in Slots,
               table' = [table EXCEPT ![q] =
                           Update(Claimed(q, rx.pkt.id), rx.pkt, rx.t)],
               q \in Owned(rx.pkt.id) \/ q \in Free \cup Stale(rx.t)
        PROVE  /\ Total(PacketCounts') <= rx_count + 1
               /\ Total(Rates') <= Total(Rates)
               /\ Total(Rates) \in Nat /\ Total(Rates') \in Nat
    <3> DEFINE e == Claimed(q, rx.pkt.id)
               e2 == Update(e, rx.pkt, rx.t)
    <3>1. e \in Entries /\ table \in [Slots -> Entries] /\ rx.pkt.id \in TrackerIds
      BY <1>1, HeadTypes, ClaimedType DEF TypeOK, RxAccount
    <3>2. /\ e2.rate = e.rate
          /\ e2.pkt_count = Counted(e) \/ e2.pkt_count = e.pkt_count
      BY <3>1, UpdateCounts
    <3>3. /\ e.pkt_count \in Nat /\ e.rate \in Nat
          /\ Counted(e) <= e.pkt_count + 1
      BY <3>1, SizeTypes DEF Entries, Counted
    <3>4. e.pkt_count <= PacketCounts[q] /\ e.rate <= Rates[q]
      <4>1. CASE q \in Owned(rx.pkt.id)
        <5>1. e = table[q] /\ table[q].valid
          BY <4>1 DEF Claimed, Owned
        <5> HIDE DEF e
        <5> QED BY <3>3, <5>1 DEF PacketCounts, Rates
      <4>2. CASE q \notin Owned(rx.pkt.id)
        <5>1. e.pkt_count = 0 /\ e.rate = 0
          BY <4>2 DEF Claimed, Entry
        <5>2. PacketCounts[q] \in Nat /\ Rates[q] \in Nat
          BY <1>3
        <5> HIDE DEF e
        <5> QED BY <5>1, <5>2
      <4> QED BY <4>1, <4>2
    <3>5. table'[q] = e2 /\ \A s \in Slots \ {q} : table'[s] = table[s]
      BY <2>2, <3>1
    <3> HIDE DEF e, e2
    <3> DEFINE f == PacketCounts
               g == PacketCounts'
               a == Rates
               b == Rates'
    <3>6. /\ \A s \in Slots \ {q} : g[s] = f[s] /\ b[s] = a[s]
      BY <3>5 DEF PacketCounts, Rates
    <3>7. g[q] \in {0, e2.pkt_count} /\ b[q] \in {0, e2.rate}
      BY <3>5 DEF PacketCounts, Rates
    <3>8. f \in [Slots -> Nat] /\ g \in [Slots -> Nat] /\ a \in [Slots -> Nat]
          /\ b \in [Slots -> Nat] /\ e.pkt_count <= f[q] /\ e.rate <= a[q]
      BY <1>3, <3>4
    <3>9. Total(f) <= rx_count
      BY <1>2
    <3> HIDE DEF f, g, a, b
    <3>10. g[q] <= f[q] + 1 /\ b[q] <= a[q]
      BY <3>2, <3>3, <3>7, <3>8
    <3>11. \A s \in Slots \ {q} : g[s] <= f[s]
      BY <3>6, <3>8
    <3>12. \A s \in Slots : b[s] <= a[s]
      BY <3>6, <3>8, <3>10
    <3>13. Total(f) \in Nat /\ Total(g) \in Nat /\ Total(g) <= Total(f) + 1
      BY <3>8, <3>10, <3>11, TotalOneMore
    <3>14. Total(a) \in Nat /\ Total(b) \in Nat /\ Total(b) <= Total(a)
      BY <3>8, <3>12, TotalLess
    <3>15. Total(g) <= rx_count + 1
      BY <1>3, <3>9, <3>13
    <3> QED BY <3>14, <3>15 DEF f, g, a, b
  <2> QED BY <1>1, <2>1, <2>2, RxAccountUpdates
<1>5. Total(Rates') <= rx_rate \/ rx_rate = UINT16_LIMIT
  BY <1>2, <1>3, <1>4
<1> QED BY <1>1, <1>4, <1>5 DEF RatesCovered, PacketCounts, Rates

\* A fold makes rates of the counts and a rate of the total.
LEMMA FoldCovered ==
  ASSUME IInv, RatesCovered, TickFold
  PROVE  RatesCovered'
<1>1. /\ TypeOK /\ TypeOK' /\ rx_count' = 0
      /\ rx_rate' = IF rx_count > UINT16_LIMIT THEN UINT16_LIMIT ELSE rx_count
  BY WorkqueueIInv DEF IInv, TickFold
<1>2. Total(PacketCounts) <= rx_count
  BY DEF RatesCovered, PacketCounts
<1>3. /\ PacketCounts \in [Slots -> Nat] /\ rx_count \in Nat
      /\ PacketCounts' \in [Slots -> Nat] /\ Rates' \in [Slots -> Nat]
  <2>1. \A s \in Slots : table'[s].pkt_count \in Nat /\ table'[s].rate \in Nat
    BY <1>1, SizeTypes DEF TypeOK, Entries
  <2>2. PacketCounts' \in [Slots -> Nat] /\ Rates' \in [Slots -> Nat]
    BY <2>1 DEF PacketCounts, Rates
  <2> QED BY <1>1, <2>2, CountTypes
<1>4. ASSUME NEW s \in Slots
      PROVE  Rates'[s] <= PacketCounts[s] /\ PacketCounts'[s] = 0
  <2>1. table[s] \in Entries /\ table'[s] = Folded(table[s], wq.t)
    BY <1>1, CountTypes DEF TickFold
  <2>2. table'[s].valid => /\ table[s].valid /\ table'[s].rate = table[s].pkt_count
                           /\ table'[s].pkt_count = 0
    BY <2>1, FoldedCounts
  <2>3. PacketCounts[s] \in Nat
    BY <1>3
  <2> QED BY <2>2, <2>3 DEF Rates, PacketCounts
<1> DEFINE f == PacketCounts
           g == PacketCounts'
           b == Rates'
           zero == [s \in Slots |-> 0]
<1>5. /\ \A s \in Slots : b[s] <= f[s] /\ g[s] = 0
      /\ f \in [Slots -> Nat] /\ g \in [Slots -> Nat] /\ b \in [Slots -> Nat]
      /\ Total(f) <= rx_count
  BY <1>2, <1>3, <1>4
<1> HIDE DEF f, g, b
<1>6. Total(f) \in Nat /\ Total(b) \in Nat /\ Total(b) <= Total(f)
  BY <1>5, TotalLess
<1>7. Total(g) = 0
  BY <1>5, TotalZero
<1>8. Total(b) <= rx_rate' \/ rx_rate' = UINT16_LIMIT
  BY <1>1, <1>3, <1>5, <1>6
<1>9. Total(g) <= rx_count'
  BY <1>1, <1>7
<1> QED BY <1>8, <1>9 DEF RatesCovered, PacketCounts, Rates, g, b

(* The rates of the listed trackers never add up to more than the total    *)
(* reported beside them, whatever was reclaimed inside the second, unless  *)
(* the total saturates.                                                    *)
THEOREM RatesAreCovered == Spec => []RatesCovered
<1>1. Init => RatesCovered
  <2> SUFFICES ASSUME Init PROVE RatesCovered
    OBVIOUS
  <2>1. TypeOK
    BY InitTypeOK
  <2>2. rx_count = 0 /\ rx_rate = 0 /\ \A s \in Slots : ~table[s].valid
    BY DEF Init, Entry
  <2>3. /\ PacketCounts \in [Slots -> Nat] /\ Rates \in [Slots -> Nat]
        /\ \A s \in Slots : PacketCounts[s] = 0 /\ Rates[s] = 0
    BY <2>2 DEF PacketCounts, Rates
  <2>4. Total(PacketCounts) = 0 /\ Total(Rates) = 0
    BY <2>3, TotalZero
  <2> QED BY <2>2, <2>4 DEF RatesCovered, PacketCounts, Rates
<1>2. IInv /\ RatesCovered /\ [Next]_vars => RatesCovered'
  <2> SUFFICES ASSUME IInv, RatesCovered, [Next]_vars PROVE RatesCovered'
    OBVIOUS
  <2>1. CASE UNCHANGED <<table, rx_count, rx_rate>>
    BY <2>1 DEF RatesCovered
  <2>2. CASE RxAccount
    BY <2>2, RxAccountCovered
  <2>3. CASE TickFold
    BY <2>3, FoldCovered
  <2> QED
    BY <2>1, <2>2, <2>3
    DEF Next, vars, TakeSample, TakeTstatus, HeadReboot, TickStamp, EmitStamp,
        EmitSnapshot, Advance
<1> QED BY <1>1, <1>2, Invariance, PTL DEF Spec

=============================================================================
