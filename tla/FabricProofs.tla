---------------------------- MODULE FabricProofs ----------------------------
(***************************************************************************)
(* Three results about the radio fabric, for any number of heads, commands,*)
(* faults and power cycles: the commands of a dongle take effect in order; *)
(* without faults a head is in standby beside a dongle only for as long as *)
(* the dongle is new; and, with the sizes Room and Margin, a command that  *)
(* is not displaced is delivered within its repeats, one fault or none.    *)
(***************************************************************************)
EXTENDS Fabric, FiniteSetTheorems, SequenceTheorems, WellFoundedInduction, TLAPS

DongleRecs ==
  [on : BOOLEAN, timer : 0 .. BEACON_PERIOD, up : Nat, pending : Nat, left : Nat]

HeadRecs ==
  [state : {ACTIVE, STANDBY}, pc : {"sleep", "listen"}, timer : Nat,
   silence : Nat, queue : Seq(Nat), setting : Nat, executed : SUBSET Nat]

Commands ==
  [dongle : Dongles, target : Heads, beacons : Nat, fair : BOOLEAN]

TypeOK ==
  /\ dongle \in [Dongles -> DongleRecs]
  /\ head \in [Heads -> HeadRecs]
  /\ issued \in Seq(Commands)
  /\ faults \in Nat

(* What a dongle repeats is the last of its commands; cs are the commands. *)
Latest(d, dg, cs) ==
  dg.left > 0 =>
    /\ dg.pending \in 1 .. Len(cs)
    /\ cs[dg.pending].dongle = d
    /\ \A n \in 1 .. Len(cs) : cs[n].dongle = d => n <= dg.pending

\* Command m does not take effect before command n of the same dongle.
NotBefore(n, m, cs) ==
  n # NoCommand /\ m # NoCommand /\ cs[n].dongle = cs[m].dongle => n <= m

(* Of the commands of one dongle, the queue of a head holds the later ones *)
(* behind the earlier, and all of them behind what was executed.           *)
Sorted(hd, cs) ==
  /\ \A i \in 1 .. Len(hd.queue) : hd.queue[i] \in 0 .. Len(cs)
  /\ \A i, j \in 1 .. Len(hd.queue) :
       i < j => NotBefore(hd.queue[i], hd.queue[j], cs)
  /\ \A n \in hd.executed :
       /\ n \in 1 .. Len(cs)
       /\ \A i \in 1 .. Len(hd.queue) : NotBefore(n, hd.queue[i], cs)
       /\ NotBefore(n, hd.setting, cs)
  /\ hd.setting \in 0 .. Len(cs)

(* Without faults, a head that listens has heard each dongle, or will in   *)
(* time, or the dongle has come on in this very window; and one in standby *)
(* will have listened for a whole window before the bound is reached.      *)
Hearing(hd, dg) ==
  hd.queue # <<>> \/ LISTEN_WINDOW + dg.timer <= BEACON_PERIOD + hd.timer
                  \/ dg.up + hd.timer <= LISTEN_WINDOW

Waking(hd, dg) ==
  dg.up + hd.timer <= LISTEN_PERIOD_STANDBY
                      + (IF hd.pc = "sleep" THEN LISTEN_WINDOW ELSE 2 * LISTEN_WINDOW)

Awaited(hd, dg) ==
  dg.on => /\ hd.pc = "listen" => Hearing(hd, dg)
           /\ hd.state = STANDBY => Waking(hd, dg)

Timed(hd) ==
  /\ hd.pc = "listen" => hd.timer <= LISTEN_WINDOW
  /\ hd.pc = "sleep" => hd.timer <= Period(hd.state)

Presence ==
  /\ \A h \in Heads : Timed(head[h])
  /\ faults = 0 =>
       \A h \in Heads, d \in Dongles : Awaited(head[h], dongle[d])

IInv ==
  /\ TypeOK
  /\ \A d \in Dongles : Latest(d, dongle[d], issued)
  /\ \A h \in Heads : Sorted(head[h], issued)
  /\ Presence
-----------------------------------------------------------------------------
LEMMA ConstantTypes ==
  /\ IsFiniteSet(Heads)
  /\ BEACON_PERIOD \in Nat /\ LISTEN_WINDOW \in Nat
  /\ BEACON_PERIOD > 0 /\ LISTEN_WINDOW > BEACON_PERIOD
  /\ LISTEN_PERIOD_ACTIVE \in Nat /\ LISTEN_PERIOD_STANDBY \in Nat
  /\ STANDBY_AFTER \in Nat /\ BEACON_CMD_REPEATS \in Nat
  /\ BEACONQ_DEPTH \in Nat /\ BEACONQ_DEPTH > 0
BY TimingAssumption

LEMMA MaxIs ==
  ASSUME NEW n \in Nat, NEW S, S \subseteq 1 .. n, S # {}
  PROVE  Max(S) \in S /\ \A x \in S : x <= Max(S)
<1> DEFINE R == OpToRel(<, Nat)
           B == {i \in Nat : \E x \in S : i = n - x}
<1>1. IsWellFoundedOn(R, Nat)
  BY NatLessThanWellFounded
<1>2. \A x, y \in Nat : y < x => <<y, x>> \in R
  BY DEF OpToRel
<1> HIDE DEF R
<1>3. B # {} /\ B \subseteq Nat
  <2>1. PICK x \in S : TRUE
    OBVIOUS
  <2>2. n - x \in B
    BY <2>1
  <2> QED BY <2>2
<1>4. PICK b \in B : \A y \in B : ~(<<y, b>> \in R)
  <2> HIDE DEF B
  <2> QED BY <1>1, <1>3, WFMin
<1>5. PICK m \in S : b = n - m
  BY <1>4
<1>6. \A x \in S : x <= m
  <2> TAKE x \in S
  <2>1. n - x \in B /\ n - x \in Nat /\ b \in Nat
    BY <1>4
  <2>2. ~(n - x < b)
    BY <1>2, <1>4, <2>1
  <2> QED BY <1>5, <2>1, <2>2
<1>7. \E m2 \in S : \A y \in S : m2 >= y
  BY <1>6
<1>8. Max(S) \in S /\ \A y \in S : Max(S) >= y
  BY <1>7 DEF Max
<1> QED BY <1>8

\* What becomes of a command never changes whose it is, nor who it is for.
Kept(c, c2) ==
  c2.dongle = c.dongle /\ c2.target = c.target /\ (c2.fair => c.fair)

SameCommands ==
  /\ issued' \in Seq(Commands) /\ Len(issued') = Len(issued)
  /\ \A n \in 1 .. Len(issued) : Kept(issued[n], issued'[n])

LEMMA SameCommandsBy ==
  ASSUME TypeOK, NEW g \in [1 .. Len(issued) -> Commands], issued' = g,
         \A n \in 1 .. Len(issued) : Kept(issued[n], g[n])
  PROVE  SameCommands
<1>1. Len(issued) \in Nat
  BY LenProperties DEF TypeOK
<1>2. g \in Seq(Commands)
  BY <1>1, SeqDef
<1>3. Len(g) = Len(issued)
  BY <1>1, <1>2, LenProperties
<1> QED BY <1>2, <1>3 DEF SameCommands

LEMMA IssuedIs ==
  ASSUME TypeOK
  PROVE  /\ Len(issued) \in Nat /\ DOMAIN issued = 1 .. Len(issued)
         /\ \A n \in 1 .. Len(issued) : issued[n] \in Commands
BY LenProperties, ElementOfSeq DEF TypeOK

LEMMA HeadIs ==
  ASSUME TypeOK, NEW h \in Heads
  PROVE  /\ head[h] \in HeadRecs
         /\ head[h].state \in {ACTIVE, STANDBY} /\ head[h].pc \in {"sleep", "listen"}
         /\ head[h].timer \in Nat /\ head[h].silence \in Nat
         /\ head[h].queue \in Seq(Nat) /\ Len(head[h].queue) \in Nat
         /\ \A i \in 1 .. Len(head[h].queue) : head[h].queue[i] \in Nat
         /\ head[h].setting \in Nat /\ head[h].executed \in SUBSET Nat
<1>1. head[h] \in HeadRecs
  BY DEF TypeOK
<1>2. head[h].queue \in Seq(Nat)
  BY <1>1 DEF HeadRecs
<1>3. /\ Len(head[h].queue) \in Nat
      /\ \A i \in 1 .. Len(head[h].queue) : head[h].queue[i] \in Nat
  BY <1>2, LenProperties, ElementOfSeq
<1> QED BY <1>1, <1>2, <1>3 DEF HeadRecs

LEMMA DongleIs ==
  ASSUME TypeOK, NEW d \in Dongles
  PROVE  /\ dongle[d] \in DongleRecs
         /\ dongle[d].on \in BOOLEAN /\ dongle[d].timer \in 0 .. BEACON_PERIOD
         /\ dongle[d].up \in Nat /\ dongle[d].pending \in Nat
         /\ dongle[d].left \in Nat
BY DEF TypeOK, DongleRecs

-----------------------------------------------------------------------------
(* The steps of heads and dongles, as far as the proofs look at them.      *)

\* A head goes on as it is, or begins anew.
LEMMA BootedIs ==
  /\ BootedHead \in HeadRecs
  /\ BootedHead.state = ACTIVE /\ BootedHead.pc = "sleep"
  /\ BootedHead.timer = LISTEN_PERIOD_ACTIVE
  /\ BootedHead.queue = <<>> /\ BootedHead.setting = NoCommand
  /\ BootedHead.executed = {}
BY ConstantTypes, EmptySeq DEF BootedHead, HeadRecs, NoCommand

LEMMA OpenIs ==
  ASSUME TypeOK, NEW h \in Heads, ListenOpen(h)
  PROVE  /\ head' \in [Heads -> HeadRecs]
         /\ \A g \in Heads : g # h => head'[g] = head[g]
         /\ head'[h].pc = "listen" /\ head'[h].timer = LISTEN_WINDOW
         /\ head'[h].state = head[h].state /\ head'[h].queue = head[h].queue
         /\ head'[h].setting = head[h].setting
         /\ head'[h].executed = head[h].executed
         /\ UNCHANGED <<dongle, issued, faults>>
<1> DEFINE hd == [head[h] EXCEPT !.pc = "listen", !.timer = LISTEN_WINDOW]
<1>1. head[h] \in HeadRecs /\ head \in [Heads -> HeadRecs]
  BY DEF TypeOK
<1>2. head' = [head EXCEPT ![h] = hd]
  BY <1>1 DEF ListenOpen, Window
<1>3. /\ hd \in HeadRecs
      /\ hd.pc = "listen" /\ hd.timer = LISTEN_WINDOW
      /\ hd.state = head[h].state /\ hd.queue = head[h].queue
      /\ hd.setting = head[h].setting /\ hd.executed = head[h].executed
  BY <1>1, ConstantTypes DEF HeadRecs
<1> HIDE DEF hd
<1> QED BY <1>1, <1>2, <1>3 DEF ListenOpen

\* The head drains its queue, decides and sleeps.
LEMMA IterateIs ==
  ASSUME TypeOK, NEW h \in Heads, Iterate(h)
  PROVE  LET mine == Mine(h, head[h].queue)
         IN /\ head' \in [Heads -> HeadRecs]
            /\ \A g \in Heads : g # h => head'[g] = head[g]
            /\ head'[h].pc = "sleep" /\ head'[h].queue = <<>>
            /\ head'[h].timer = Period(head'[h].state)
            /\ head'[h].state = STANDBY => head[h].queue = <<>>
            /\ head'[h].setting = IF mine = {} THEN head[h].setting
                                  ELSE head[h].queue[Max(mine)]
            /\ head'[h].executed = head[h].executed \cup {head[h].queue[i] : i \in mine}
            /\ SameCommands
            /\ \A n \in 1 .. Len(issued) :
                 /\ issued'[n].beacons = issued[n].beacons
                 /\ issued'[n].fair /\ issued[n].target = h => head'[h].state = ACTIVE
<1> DEFINE mine == Mine(h, head[h].queue)
           setting == IF mine = {} THEN head[h].setting ELSE head[h].queue[Max(mine)]
           executed == head[h].executed \cup {head[h].queue[i] : i \in mine}
           heard == head[h].queue # <<>>
           mid == Handled(h, head[h])
           next == NextState(mid, heard)
           hd == [next EXCEPT !.pc = "sleep", !.timer = Period(next.state)]
<1>1. /\ head[h] \in HeadRecs /\ head \in [Heads -> HeadRecs]
      /\ head[h].queue \in Seq(Nat) /\ Len(head[h].queue) \in Nat
      /\ \A i \in 1 .. Len(head[h].queue) : head[h].queue[i] \in Nat
      /\ head[h].setting \in Nat /\ head[h].executed \in SUBSET Nat
  BY HeadIs DEF TypeOK
<1>2. mine \subseteq 1 .. Len(head[h].queue)
  BY <1>1, LenProperties DEF Mine
<1>3. setting \in Nat /\ executed \in SUBSET Nat
  <2>1. mine # {} => Max(mine) \in mine
    BY <1>1, <1>2, MaxIs
  <2> HIDE DEF mine
  <2> QED BY <1>1, <1>2, <2>1
<1>4. mid = [head[h] EXCEPT !.setting = setting, !.executed = executed, !.queue = <<>>]
  BY <1>1 DEF Handled, HeadRecs
<1> HIDE DEF mine, setting, executed
<1>5. /\ mid \in HeadRecs /\ mid.queue = <<>> /\ mid.setting = setting
      /\ mid.executed = executed /\ mid.state = head[h].state
  <2>1. <<>> \in Seq(Nat)
    BY EmptySeq
  <2> DEFINE none == <<>>
  <2> HIDE DEF none
  <2>2. mid = [head[h] EXCEPT !.setting = setting, !.executed = executed, !.queue = none]
    BY <1>4 DEF none
  <2>3. none \in Seq(Nat)
    BY <2>1 DEF none
  <2>4. /\ mid \in HeadRecs /\ mid.queue = none /\ mid.setting = setting
        /\ mid.executed = executed /\ mid.state = head[h].state
    BY <1>1, <1>3, <2>2, <2>3 DEF HeadRecs
  <2> QED BY <2>4 DEF none
<1> HIDE DEF mid
<1>6. /\ next \in HeadRecs /\ next.queue = <<>> /\ next.setting = setting
      /\ next.executed = executed
      /\ next.state = STANDBY => ~heard
  BY <1>5 DEF NextState, HeadRecs, ACTIVE, STANDBY
<1> HIDE DEF next, heard
<1>7. /\ hd \in HeadRecs /\ hd.queue = <<>> /\ hd.setting = setting
      /\ hd.executed = executed /\ hd.state = next.state
      /\ hd.pc = "sleep" /\ hd.timer = Period(next.state)
  <2>1. Period(next.state) \in Nat
    BY ConstantTypes DEF Period
  <2> QED BY <1>6, <2>1 DEF HeadRecs
<1>8. head' = [head EXCEPT ![h] = hd]
  BY DEF Iterate, hd, next, mid, heard
<1> HIDE DEF hd
<1>9. head' \in [Heads -> HeadRecs] /\ head'[h] = hd
      /\ \A g \in Heads : g # h => head'[g] = head[g]
  BY <1>1, <1>7, <1>8
<1>10. /\ SameCommands
       /\ \A n \in 1 .. Len(issued) :
            /\ issued'[n].beacons = issued[n].beacons
            /\ issued'[n].fair /\ issued[n].target = h => next.state = ACTIVE
  <2> DEFINE q == [i \in DOMAIN issued |->
                     [issued[i] EXCEPT !.fair = @ /\ (issued[i].target = h
                                                        => next.state = ACTIVE)]]
  <2>1. issued' = q
    BY DEF Iterate, next, mid, heard
  <2>2. ASSUME NEW n \in 1 .. Len(issued)
        PROVE  /\ q[n] \in Commands /\ Kept(issued[n], q[n])
               /\ q[n].beacons = issued[n].beacons
               /\ q[n].fair /\ issued[n].target = h => next.state = ACTIVE
    <3>1. issued[n] \in Commands /\ n \in DOMAIN issued
      BY IssuedIs
    <3> DEFINE fair == issued[n].fair /\ (issued[n].target = h => next.state = ACTIVE)
    <3>2. q[n] = [issued[n] EXCEPT !.fair = fair]
      BY <3>1
    <3>3. /\ fair \in BOOLEAN /\ (fair => issued[n].fair)
          /\ fair /\ issued[n].target = h => next.state = ACTIVE
      BY <3>1
    <3> HIDE DEF fair, q
    <3>4. /\ q[n] \in Commands /\ q[n].dongle = issued[n].dongle
          /\ q[n].target = issued[n].target /\ q[n].beacons = issued[n].beacons
          /\ q[n].fair <=> fair
      BY <3>1, <3>2, <3>3 DEF Commands
    <3> QED BY <3>3, <3>4 DEF Kept
  <2>3. q \in [1 .. Len(issued) -> Commands]
    BY <2>2, IssuedIs
  <2> HIDE DEF q
  <2> QED BY <2>1, <2>2, <2>3, SameCommandsBy
<1> QED BY <1>6, <1>7, <1>9, <1>10 DEF setting, executed, mine, heard

\* A beacon reaches the queues of the heads that listen, unless it is missed.
LEMMA BeaconIs ==
  ASSUME TypeOK, NEW d \in Dongles, BeaconWork(d)
  PROVE  /\ head' \in [Heads -> HeadRecs]
         /\ \A h \in Heads :
              /\ head'[h].state = head[h].state /\ head'[h].pc = head[h].pc
              /\ head'[h].timer = head[h].timer
              /\ head'[h].setting = head[h].setting
              /\ head'[h].executed = head[h].executed
              /\ \/ head'[h].queue = head[h].queue
                 \/ head'[h].queue = Append(head[h].queue, Carried(d))
              /\ faults' = 0 /\ head[h].pc = "listen" => head'[h].queue # <<>>
              /\ head[h].pc # "listen" => head'[h].queue = head[h].queue
              /\ /\ faults' = faults /\ head[h].pc = "listen"
                 /\ Len(head[h].queue) < BEACONQ_DEPTH
                 => head'[h].queue = Append(head[h].queue, Carried(d))
         /\ dongle' \in [Dongles -> DongleRecs]
         /\ \A e \in Dongles : e # d => dongle'[e] = dongle[e]
         /\ dongle'[d].on = dongle[d].on /\ dongle'[d].up = dongle[d].up
         /\ dongle'[d].timer = BEACON_PERIOD
         /\ dongle'[d].pending = dongle[d].pending
         /\ dongle'[d].left = IF dongle[d].left > 0 THEN dongle[d].left - 1 ELSE 0
         /\ dongle'[d].left > 0 => dongle[d].left > 0
         /\ faults' \in Nat /\ faults <= faults' /\ (faults' = 0 => faults = 0)
         /\ SameCommands
         /\ \A n \in 1 .. Len(issued) :
              issued'[n].beacons =
                IF issued[n].dongle = d /\ issued[n].beacons < BEACON_CMD_REPEATS
                THEN issued[n].beacons + 1 ELSE issued[n].beacons
<1>1. PICK missed \in SUBSET Listening :
        /\ faults' = faults + Cardinality(missed)
        /\ head' = [h \in Heads |-> IF h \in Listening \ missed
                                    THEN Queued(head[h], Carried(d))
                                    ELSE head[h]]
  BY DEF BeaconWork
<1>2. /\ dongle' = [dongle EXCEPT ![d] = AfterBeacon(@)]
      /\ CountBeacon(d)
  BY DEF BeaconWork
<1>3. Carried(d) \in Nat
  BY DongleIs DEF Carried, NoCommand
<1>4. ASSUME NEW h \in Heads
      PROVE  LET hd == Queued(head[h], Carried(d))
             IN /\ hd \in HeadRecs
                /\ hd.state = head[h].state /\ hd.pc = head[h].pc
                /\ hd.timer = head[h].timer /\ hd.setting = head[h].setting
                /\ hd.executed = head[h].executed
                /\ \/ hd.queue = head[h].queue
                   \/ hd.queue = Append(head[h].queue, Carried(d))
                /\ hd.queue # <<>>
                /\ Len(head[h].queue) < BEACONQ_DEPTH
                     => hd.queue = Append(head[h].queue, Carried(d))
  <2> DEFINE q == IF Len(head[h].queue) < BEACONQ_DEPTH
                  THEN Append(head[h].queue, Carried(d)) ELSE head[h].queue
  <2>1. /\ q \in Seq(Nat) /\ q # <<>>
        /\ q = head[h].queue \/ q = Append(head[h].queue, Carried(d))
        /\ Len(head[h].queue) < BEACONQ_DEPTH => q = Append(head[h].queue, Carried(d))
    <3>1. head[h].queue \in Seq(Nat) /\ Len(head[h].queue) \in Nat
      BY HeadIs
    <3>2. CASE Len(head[h].queue) < BEACONQ_DEPTH
      <4>1. /\ Append(head[h].queue, Carried(d)) \in Seq(Nat)
            /\ Len(Append(head[h].queue, Carried(d))) = Len(head[h].queue) + 1
        BY <1>3, <3>1, AppendProperties
      <4>2. Len(q) # 0
        BY <3>1, <3>2, <4>1
      <4> QED BY <3>2, <4>1, <4>2, EmptySeq
    <3>3. CASE ~(Len(head[h].queue) < BEACONQ_DEPTH)
      <4>1. Len(q) # 0
        BY <3>1, <3>3, ConstantTypes
      <4> QED BY <3>1, <3>3, <4>1, EmptySeq
    <3> QED BY <3>2, <3>3
  <2>2. head[h] \in HeadRecs
    BY HeadIs
  <2>3. Queued(head[h], Carried(d)) = [head[h] EXCEPT !.queue = q]
    BY <2>2 DEF Queued, HeadRecs
  <2> HIDE DEF q
  <2> QED BY <2>1, <2>2, <2>3 DEF HeadRecs
<1>5. ASSUME NEW h \in Heads
      PROVE  /\ head'[h] \in HeadRecs
             /\ head'[h].state = head[h].state /\ head'[h].pc = head[h].pc
             /\ head'[h].timer = head[h].timer
             /\ head'[h].setting = head[h].setting
             /\ head'[h].executed = head[h].executed
             /\ \/ head'[h].queue = head[h].queue
                \/ head'[h].queue = Append(head[h].queue, Carried(d))
             /\ missed = {} /\ head[h].pc = "listen" => head'[h].queue # <<>>
             /\ head[h].pc # "listen" => head'[h].queue = head[h].queue
             /\ /\ missed = {} /\ head[h].pc = "listen"
                /\ Len(head[h].queue) < BEACONQ_DEPTH
                => head'[h].queue = Append(head[h].queue, Carried(d))
  <2>1. CASE h \in Listening \ missed
    <3>1. head'[h] = Queued(head[h], Carried(d))
      BY <1>1, <2>1
    <3> QED BY <1>4, <2>1, <3>1 DEF Listening
  <2>2. CASE h \notin Listening \ missed
    <3>1. head'[h] = head[h] /\ head[h] \in HeadRecs
      BY <1>1, <2>2, HeadIs
    <3>2. ~(missed = {} /\ head[h].pc = "listen")
      BY <2>2 DEF Listening
    <3> QED BY <3>1, <3>2
  <2> QED BY <2>1, <2>2
<1>6. /\ faults' \in Nat /\ (faults' = 0 => faults = 0 /\ missed = {})
      /\ faults <= faults' /\ (faults' = faults => missed = {})
  <2>1. IsFiniteSet(missed)
    BY ConstantTypes, FS_Subset DEF Listening
  <2>2. Cardinality(missed) \in Nat /\ (Cardinality(missed) = 0 => missed = {})
    BY <2>1, FS_CardinalityType, FS_EmptySet
  <2> QED BY <1>1, <2>2 DEF TypeOK
<1>7. head' \in [Heads -> HeadRecs]
  <2>1. head' = [h \in Heads |-> head'[h]]
    BY <1>1
  <2> QED BY <1>5, <2>1
<1>8. /\ dongle' \in [Dongles -> DongleRecs]
      /\ \A e \in Dongles : e # d => dongle'[e] = dongle[e]
      /\ dongle'[d].on = dongle[d].on /\ dongle'[d].up = dongle[d].up
      /\ dongle'[d].timer = BEACON_PERIOD
      /\ dongle'[d].pending = dongle[d].pending
      /\ dongle'[d].left = IF dongle[d].left > 0 THEN dongle[d].left - 1 ELSE 0
      /\ dongle'[d].left > 0 => dongle[d].left > 0
  <2> DEFINE left == IF dongle[d].left > 0 THEN dongle[d].left - 1 ELSE 0
             dg == [dongle[d] EXCEPT !.timer = BEACON_PERIOD, !.left = left]
  <2>1. dongle[d] \in DongleRecs /\ dongle \in [Dongles -> DongleRecs]
    BY DEF TypeOK
  <2>2. left \in Nat /\ (left > 0 => dongle[d].left > 0)
    BY DongleIs
  <2>3. dongle' = [dongle EXCEPT ![d] = dg]
    BY <1>2, <2>1 DEF AfterBeacon
  <2>4. BEACON_PERIOD \in 0 .. BEACON_PERIOD
    BY ConstantTypes
  <2> HIDE DEF left
  <2>5. /\ dg \in DongleRecs /\ dg.on = dongle[d].on /\ dg.up = dongle[d].up
        /\ dg.timer = BEACON_PERIOD /\ dg.pending = dongle[d].pending
        /\ dg.left = left
    BY <2>1, <2>2, <2>4 DEF DongleRecs
  <2> HIDE DEF dg
  <2> QED BY <2>1, <2>2, <2>3, <2>5 DEF left
<1>9. /\ SameCommands
      /\ \A n \in 1 .. Len(issued) :
           issued'[n].beacons =
             IF issued[n].dongle = d /\ issued[n].beacons < BEACON_CMD_REPEATS
             THEN issued[n].beacons + 1 ELSE issued[n].beacons
  <2> DEFINE q == [i \in DOMAIN issued |->
                     IF issued[i].dongle = d /\ issued[i].beacons < BEACON_CMD_REPEATS
                     THEN [issued[i] EXCEPT !.beacons = @ + 1]
                     ELSE issued[i]]
  <2>1. issued' = q
    BY <1>2 DEF CountBeacon
  <2>2. ASSUME NEW n \in 1 .. Len(issued)
        PROVE  /\ q[n] \in Commands /\ Kept(issued[n], q[n])
               /\ q[n].beacons =
                    IF issued[n].dongle = d /\ issued[n].beacons < BEACON_CMD_REPEATS
                    THEN issued[n].beacons + 1 ELSE issued[n].beacons
    <3>1. issued[n] \in Commands /\ n \in DOMAIN issued
      BY IssuedIs
    <3> DEFINE counted == issued[n].dongle = d /\ issued[n].beacons < BEACON_CMD_REPEATS
               beacons == IF counted THEN issued[n].beacons + 1 ELSE issued[n].beacons
    <3>2. q[n] = IF counted THEN [issued[n] EXCEPT !.beacons = beacons] ELSE issued[n]
      BY <3>1
    <3>3. beacons \in Nat /\ (~counted => beacons = issued[n].beacons)
      BY <3>1 DEF Commands
    <3>4. /\ q[n] \in Commands /\ q[n].beacons = beacons
          /\ q[n].dongle = issued[n].dongle /\ q[n].target = issued[n].target
          /\ q[n].fair = issued[n].fair
      <4> HIDE DEF counted, beacons, q
      <4> QED BY <3>1, <3>2, <3>3 DEF Commands
    <3> QED BY <3>4, Zenon DEF Kept
  <2>3. q \in [1 .. Len(issued) -> Commands]
    BY <2>2, IssuedIs
  <2> HIDE DEF q
  <2> QED BY <2>1, <2>2, <2>3, SameCommandsBy
<1> QED BY <1>5, <1>6, <1>7, <1>8, <1>9

\* The new command is the latest, and the dongle's slot is its.
LEMMA IssueIs ==
  ASSUME TypeOK, NEW d \in Dongles, NEW h \in Heads, Issue(d, h)
  PROVE  LET n == Len(issued) + 1
         IN /\ dongle' \in [Dongles -> DongleRecs]
            /\ \A e \in Dongles : e # d => dongle'[e] = dongle[e]
            /\ dongle'[d].on = dongle[d].on /\ dongle'[d].up = dongle[d].up
            /\ dongle'[d].timer = dongle[d].timer /\ dongle'[d].pending = n
            /\ issued' \in Seq(Commands) /\ Len(issued') = n
            /\ \A m \in 1 .. Len(issued) : issued'[m] = issued[m]
            /\ issued'[n].dongle = d
            /\ UNCHANGED <<head, faults>>
            /\ dongle[d].on /\ dongle'[d].left = BEACON_CMD_REPEATS
            /\ issued'[n].target = h /\ issued'[n].beacons = 0
            /\ issued'[n].fair => head[h].state = ACTIVE
<1> DEFINE n == Len(issued) + 1
           c == [dongle |-> d, target |-> h, beacons |-> 0,
                 fair |-> head[h].state = ACTIVE]
           dg == [dongle[d] EXCEPT !.pending = n, !.left = BEACON_CMD_REPEATS]
<1>1. /\ dongle' = [dongle EXCEPT ![d] = dg]
      /\ issued' = Append(issued, c)
      /\ UNCHANGED <<head, faults>>
      /\ dongle[d].on
  BY DEF Issue, WithPending, TypeOK
<1>2. dongle[d] \in DongleRecs /\ dongle \in [Dongles -> DongleRecs]
  BY DEF TypeOK
<1>3. n \in Nat /\ BEACON_CMD_REPEATS \in Nat
  BY IssuedIs, ConstantTypes
<1> HIDE DEF n
<1>4. /\ dg \in DongleRecs /\ dg.on = dongle[d].on /\ dg.up = dongle[d].up
      /\ dg.timer = dongle[d].timer /\ dg.pending = n
      /\ dg.left = BEACON_CMD_REPEATS
  BY <1>2, <1>3 DEF DongleRecs
<1> HIDE DEF dg
<1>5. /\ dongle' \in [Dongles -> DongleRecs] /\ dongle'[d] = dg
      /\ \A e \in Dongles : e # d => dongle'[e] = dongle[e]
  BY <1>1, <1>2, <1>4
<1>6. /\ c \in Commands /\ c.dongle = d /\ c.target = h /\ c.beacons = 0
      /\ c.fair => head[h].state = ACTIVE
  BY DEF Commands
<1> HIDE DEF c
<1>7. /\ issued' \in Seq(Commands) /\ Len(issued') = n
      /\ \A m \in 1 .. Len(issued) : issued'[m] = issued[m]
      /\ issued'[n] = c
  BY <1>1, <1>6, AppendProperties DEF TypeOK, n
<1> QED BY <1>1, <1>4, <1>5, <1>6, <1>7 DEF n

LEMMA SwitchIs ==
  ASSUME TypeOK, NEW d \in Dongles, DongleOn(d) \/ DongleOff(d)
  PROVE  /\ dongle' \in [Dongles -> DongleRecs]
         /\ \A e \in Dongles : e # d => dongle'[e] = dongle[e]
         /\ dongle'[d].up = 0 /\ dongle'[d].left = 0
         /\ UNCHANGED <<head, faults>>
         /\ SameCommands
         /\ \A n \in 1 .. Len(issued) :
              /\ issued'[n].beacons = issued[n].beacons
              /\ issued'[n].fair /\ dongle[d].on => issued[n].dongle # d
<1>1. /\ OffDongle \in DongleRecs /\ OffDongle.up = 0 /\ OffDongle.left = 0
      /\ OnDongle(BEACON_PERIOD) \in DongleRecs
      /\ OnDongle(BEACON_PERIOD).up = 0 /\ OnDongle(BEACON_PERIOD).left = 0
  <2>1. 0 \in 0 .. BEACON_PERIOD /\ BEACON_PERIOD \in 0 .. BEACON_PERIOD /\ 0 \in Nat
    BY ConstantTypes
  <2>2. FALSE \in BOOLEAN /\ TRUE \in BOOLEAN
    OBVIOUS
  <2>3. OffDongle \in DongleRecs
    BY <2>1, <2>2, Zenon DEF OffDongle, DongleRecs, NoCommand
  <2>4. OffDongle.up = 0 /\ OffDongle.left = 0
    BY DEF OffDongle
  <2>5. ASSUME NEW b \in BOOLEAN, NEW p \in 0 .. BEACON_PERIOD
        PROVE  LET dg == [OffDongle EXCEPT !.on = b, !.timer = p]
               IN dg \in DongleRecs /\ dg.up = 0 /\ dg.left = 0
    BY <2>3, <2>4 DEF DongleRecs
  <2> QED BY <2>1, <2>2, <2>3, <2>4, <2>5, Zenon DEF OnDongle
<1>2. dongle \in [Dongles -> DongleRecs]
  BY DEF TypeOK
<1>3. CASE DongleOn(d)
  <2>1. /\ dongle' = [dongle EXCEPT ![d] = OnDongle(BEACON_PERIOD)]
        /\ UNCHANGED <<head, issued, faults>>
    BY <1>3 DEF DongleOn
  <2>2. SameCommands /\ ~dongle[d].on
    BY <1>3, <2>1 DEF TypeOK, SameCommands, Kept, DongleOn
  <2> QED BY <1>1, <1>2, <2>1, <2>2
<1>4. CASE DongleOff(d)
  <2> DEFINE q == [i \in DOMAIN issued |->
                     [issued[i] EXCEPT !.fair = @ /\ issued[i].dongle # d]]
  <2>1. /\ dongle' = [dongle EXCEPT ![d] = OffDongle]
        /\ issued' = q
        /\ UNCHANGED <<head, faults>>
    BY <1>4 DEF DongleOff
  <2>2. ASSUME NEW n \in 1 .. Len(issued)
        PROVE  /\ q[n] \in Commands /\ Kept(issued[n], q[n])
               /\ q[n].beacons = issued[n].beacons
               /\ q[n].fair => issued[n].dongle # d
    <3>1. issued[n] \in Commands /\ n \in DOMAIN issued
      BY IssuedIs
    <3> DEFINE fair == issued[n].fair /\ issued[n].dongle # d
    <3>2. q[n] = [issued[n] EXCEPT !.fair = fair]
      BY <3>1
    <3>3. fair \in BOOLEAN /\ (fair => issued[n].fair /\ issued[n].dongle # d)
      BY <3>1
    <3> HIDE DEF fair, q
    <3>4. /\ q[n] \in Commands /\ q[n].dongle = issued[n].dongle
          /\ q[n].target = issued[n].target /\ q[n].beacons = issued[n].beacons
          /\ q[n].fair <=> fair
      BY <3>1, <3>2, <3>3 DEF Commands
    <3> QED BY <3>3, <3>4 DEF Kept
  <2>3. q \in [1 .. Len(issued) -> Commands]
    BY <2>2, IssuedIs
  <2> HIDE DEF q
  <2>4. SameCommands
    BY <2>1, <2>2, <2>3, SameCommandsBy
  <2> QED BY <1>1, <1>2, <2>1, <2>2, <2>4
<1> QED BY <1>3, <1>4

LEMMA CycleIs ==
  ASSUME TypeOK, NEW h \in Heads, HeadCycle(h)
  PROVE  /\ head' = [head EXCEPT ![h] = BootedHead]
         /\ UNCHANGED <<dongle, faults>>
         /\ SameCommands
         /\ \A n \in 1 .. Len(issued) :
              /\ issued'[n].beacons = issued[n].beacons
              /\ issued'[n].fair => issued[n].target # h
<1> DEFINE q == [i \in DOMAIN issued |->
                   [issued[i] EXCEPT !.fair = @ /\ issued[i].target # h]]
<1>1. /\ head' = [head EXCEPT ![h] = BootedHead]
      /\ issued' = q
      /\ UNCHANGED <<dongle, faults>>
  BY DEF HeadCycle
<1>2. ASSUME NEW n \in 1 .. Len(issued)
      PROVE  /\ q[n] \in Commands /\ Kept(issued[n], q[n])
             /\ q[n].beacons = issued[n].beacons
             /\ q[n].fair => issued[n].target # h
  <2>1. issued[n] \in Commands /\ n \in DOMAIN issued
    BY IssuedIs
  <2> DEFINE fair == issued[n].fair /\ issued[n].target # h
  <2>2. q[n] = [issued[n] EXCEPT !.fair = fair]
    BY <2>1
  <2>3. fair \in BOOLEAN /\ (fair => issued[n].fair /\ issued[n].target # h)
    BY <2>1
  <2> HIDE DEF fair, q
  <2>4. /\ q[n] \in Commands /\ q[n].dongle = issued[n].dongle
        /\ q[n].target = issued[n].target /\ q[n].beacons = issued[n].beacons
        /\ q[n].fair <=> fair
    BY <2>1, <2>2, <2>3 DEF Commands
  <2> QED BY <2>3, <2>4 DEF Kept
<1>3. q \in [1 .. Len(issued) -> Commands]
  BY <1>2, IssuedIs
<1> HIDE DEF q
<1> QED BY <1>1, <1>2, <1>3, SameCommandsBy

\* Time passes for all who are on.
LEMMA TickIs ==
  ASSUME TypeOK, Tick
  PROVE  /\ dongle' \in [Dongles -> DongleRecs]
         /\ \A d \in Dongles :
              /\ dongle'[d].on = dongle[d].on
              /\ dongle'[d].pending = dongle[d].pending
              /\ dongle'[d].left = dongle[d].left
              /\ dongle[d].on => /\ dongle'[d].timer = dongle[d].timer - 1
                                 /\ dongle'[d].up <= dongle[d].up + 1
         /\ head' \in [Heads -> HeadRecs]
         /\ \A h \in Heads :
              /\ head'[h].state = head[h].state /\ head'[h].pc = head[h].pc
              /\ head'[h].queue = head[h].queue
              /\ head'[h].setting = head[h].setting
              /\ head'[h].executed = head[h].executed
              /\ head'[h].timer = head[h].timer - 1
         /\ UNCHANGED <<issued, faults>>
<1>1. /\ dongle' = [d \in Dongles |->
                      IF dongle[d].on
                      THEN [dongle[d] EXCEPT !.timer = @ - 1, !.up = Capped(@, UpCap)]
                      ELSE dongle[d]]
      /\ head' = [h \in Heads |->
                    [head[h] EXCEPT !.timer = @ - 1,
                                    !.silence = Capped(@, STANDBY_AFTER)]]
      /\ UNCHANGED <<issued, faults>>
      /\ ~Due
  BY DEF Tick
<1>2. ASSUME NEW d \in Dongles
      PROVE  /\ dongle'[d] \in DongleRecs
             /\ dongle'[d].on = dongle[d].on
             /\ dongle'[d].pending = dongle[d].pending
             /\ dongle'[d].left = dongle[d].left
             /\ dongle[d].on => /\ dongle'[d].timer = dongle[d].timer - 1
                                /\ dongle'[d].up <= dongle[d].up + 1
  <2>1. dongle[d] \in DongleRecs
    BY DongleIs
  <2>2. CASE dongle[d].on
    <3> DEFINE timer == dongle[d].timer - 1
               up == Capped(dongle[d].up, UpCap)
    <3>1. dongle'[d] = [dongle[d] EXCEPT !.timer = timer, !.up = up]
      BY <1>1, <2>2
    <3>2. timer \in 0 .. BEACON_PERIOD
      <4>1. dongle[d].timer # 0
        BY <1>1, <2>2 DEF Due
      <4> QED BY <4>1, DongleIs, ConstantTypes
    <3>3. up \in Nat /\ up <= dongle[d].up + 1
      <4>1. UpCap \in Nat /\ dongle[d].up \in Nat
        BY ConstantTypes, DongleIs DEF UpCap
      <4> QED BY <4>1 DEF Capped
    <3> HIDE DEF up
    <3>4. /\ dongle'[d] \in DongleRecs
          /\ dongle'[d].on = dongle[d].on
          /\ dongle'[d].pending = dongle[d].pending
          /\ dongle'[d].left = dongle[d].left
          /\ dongle'[d].timer = timer /\ dongle'[d].up = up
      <4> HIDE DEF timer
      <4> QED BY <2>1, <3>1, <3>2, <3>3 DEF DongleRecs
    <3> QED BY <3>3, <3>4
  <2>3. CASE ~dongle[d].on
    <3>1. dongle'[d] = dongle[d]
      BY <1>1, <2>3
    <3> QED BY <2>1, <2>3, <3>1
  <2> QED BY <2>2, <2>3
<1>3. ASSUME NEW h \in Heads
      PROVE  /\ head'[h] \in HeadRecs
             /\ head'[h].state = head[h].state /\ head'[h].pc = head[h].pc
             /\ head'[h].queue = head[h].queue
             /\ head'[h].setting = head[h].setting
             /\ head'[h].executed = head[h].executed
             /\ head'[h].timer = head[h].timer - 1
  <2> DEFINE timer == head[h].timer - 1
             silence == Capped(head[h].silence, STANDBY_AFTER)
  <2>1. head[h] \in HeadRecs
    BY HeadIs
  <2>2. head'[h] = [head[h] EXCEPT !.timer = timer, !.silence = silence]
    BY <1>1
  <2>3. timer \in Nat /\ silence \in Nat
    <3>1. head[h].timer # 0
      BY <1>1 DEF Due
    <3> QED BY <3>1, HeadIs, ConstantTypes DEF Capped
  <2>4. /\ head'[h] \in HeadRecs
        /\ head'[h].state = head[h].state /\ head'[h].pc = head[h].pc
        /\ head'[h].queue = head[h].queue
        /\ head'[h].setting = head[h].setting
        /\ head'[h].executed = head[h].executed
        /\ head'[h].timer = timer
    <3> HIDE DEF timer, silence
    <3> QED BY <2>1, <2>2, <2>3 DEF HeadRecs
  <2> QED BY <2>4
<1>4. dongle' \in [Dongles -> DongleRecs]
  <2>1. dongle' = [d \in Dongles |-> dongle'[d]]
    BY <1>1
  <2> QED BY <1>2, <2>1
<1>5. head' \in [Heads -> HeadRecs]
  <2>1. head' = [h \in Heads |-> head'[h]]
    BY <1>1
  <2> QED BY <1>3, <2>1
<1> QED BY <1>1, <1>2, <1>3, <1>4, <1>5

-----------------------------------------------------------------------------
(* Commands in order.                                                      *)

\* The commands cs2 are cs and maybe more.
Extended(cs, cs2) ==
  /\ Len(cs) \in Nat /\ Len(cs2) \in Nat /\ Len(cs) <= Len(cs2)
  /\ \A n \in 1 .. Len(cs) : cs2[n].dongle = cs[n].dongle

LEMMA SortedKept ==
  ASSUME NEW hd, NEW hd2, NEW cs, NEW cs2,
         Sorted(hd, cs), Extended(cs, cs2),
         hd2.queue = hd.queue, hd2.setting = hd.setting, hd2.executed = hd.executed
  PROVE  Sorted(hd2, cs2)
<1>1. \A n, m \in 0 .. Len(cs) : NotBefore(n, m, cs) => NotBefore(n, m, cs2)
  BY DEF Extended, NotBefore, NoCommand
<1>2. \A n : /\ n \in 0 .. Len(cs) => n \in 0 .. Len(cs2)
             /\ n \in 1 .. Len(cs) => n \in 1 .. Len(cs2) /\ n \in 0 .. Len(cs)
  BY DEF Extended
<1> QED BY <1>1, <1>2, Zenon DEF Sorted

LEMMA SortedAtFirst ==
  ASSUME NEW hd, NEW cs, Len(cs) \in Nat,
         hd.queue = <<>>, hd.setting = NoCommand, hd.executed = {}
  PROVE  Sorted(hd, cs)
BY EmptySeq DEF Sorted, NoCommand

LEMMA SortedQueued ==
  ASSUME NEW hd, NEW hd2, NEW cs, NEW n \in 0 .. Len(cs),
         Sorted(hd, cs), hd.queue \in Seq(Nat), Len(cs) \in Nat,
         \A m \in 1 .. Len(cs) : NotBefore(m, n, cs),
         hd2.queue = Append(hd.queue, n), hd2.setting = hd.setting,
         hd2.executed = hd.executed
  PROVE  Sorted(hd2, cs)
<1> DEFINE len == Len(hd.queue)
<1>1. /\ len \in Nat /\ Len(hd2.queue) = len + 1
      /\ \A i \in 1 .. len : hd2.queue[i] = hd.queue[i]
      /\ hd2.queue[len + 1] = n
  BY AppendProperties, LenProperties
<1>2. \A i \in 1 .. len + 1 : i \in 1 .. len \/ i = len + 1
  BY <1>1
<1>3. \A m \in 0 .. Len(cs) : NotBefore(m, n, cs)
  BY DEF NotBefore, NoCommand
<1>4. /\ \A i \in 1 .. len : hd.queue[i] \in 0 .. Len(cs)
      /\ \A i, j \in 1 .. len : i < j => NotBefore(hd.queue[i], hd.queue[j], cs)
  BY DEF Sorted
<1> HIDE DEF len
<1>5. ASSUME NEW i \in 1 .. len + 1 PROVE hd2.queue[i] \in 0 .. Len(cs)
  BY <1>1, <1>2, <1>4
<1>6. ASSUME NEW i \in 1 .. len + 1, NEW j \in 1 .. len + 1, i < j
      PROVE  NotBefore(hd2.queue[i], hd2.queue[j], cs)
  <2>1. CASE j = len + 1
    BY <1>1, <1>3, <1>5, <2>1
  <2>2. CASE j \in 1 .. len
    <3>1. i \in 1 .. len
      BY <1>1, <1>6, <2>2
    <3> QED BY <1>1, <1>4, <1>6, <2>2, <3>1
  <2> QED BY <1>2, <2>1, <2>2
<1>7. ASSUME NEW m \in hd.executed
      PROVE  /\ m \in 1 .. Len(cs)
             /\ \A i \in 1 .. len + 1 : NotBefore(m, hd2.queue[i], cs)
             /\ NotBefore(m, hd.setting, cs)
  <2>1. /\ m \in 1 .. Len(cs) /\ NotBefore(m, hd.setting, cs)
        /\ \A i \in 1 .. len : NotBefore(m, hd.queue[i], cs)
    BY DEF Sorted, len
  <2> QED BY <1>1, <1>2, <2>1
<1>8. hd.setting \in 0 .. Len(cs)
  BY DEF Sorted
<1> QED BY <1>1, <1>5, <1>6, <1>7, <1>8, Zenon DEF Sorted

LEMMA SortedDrained ==
  ASSUME NEW hd, NEW hd2, NEW cs, NEW mine \in SUBSET (1 .. Len(hd.queue)),
         Sorted(hd, cs), hd.queue \in Seq(Nat), Len(cs) \in Nat,
         \A i \in mine : hd.queue[i] # NoCommand,
         hd2.queue = <<>>,
         hd2.setting = IF mine = {} THEN hd.setting ELSE hd.queue[Max(mine)],
         hd2.executed = hd.executed \cup {hd.queue[i] : i \in mine}
  PROVE  Sorted(hd2, cs)
<1>1. Len(hd.queue) \in Nat
  BY LenProperties
<1>2. \A n \in hd.executed :
        /\ n \in 1 .. Len(cs) /\ NotBefore(n, hd.setting, cs)
        /\ \A i \in mine : NotBefore(n, hd.queue[i], cs)
  BY DEF Sorted
<1>3. \A i \in mine : hd.queue[i] \in 1 .. Len(cs)
  BY DEF Sorted, NoCommand
<1>4. hd.setting \in 0 .. Len(cs)
  BY DEF Sorted
<1>5. ASSUME mine # {}
      PROVE  Max(mine) \in mine /\ \A i \in mine : NotBefore(hd.queue[i], hd.queue[Max(mine)], cs)
  <2>1. Max(mine) \in mine /\ \A i \in mine : i <= Max(mine)
    BY <1>1, <1>5, MaxIs
  <2> DEFINE last == Max(mine)
  <2>2. mine \subseteq Nat
    BY <1>1
  <2>3. last \in mine /\ \A i \in mine : i <= last
    BY <2>1
  <2> HIDE DEF last
  <2>4. ASSUME NEW i \in mine PROVE NotBefore(hd.queue[i], hd.queue[last], cs)
    <3>1. CASE i = last
      BY <1>3, <3>1 DEF NotBefore
    <3>2. CASE i < last
      BY <2>3, <3>2 DEF Sorted
    <3>3. i \in Nat /\ last \in Nat /\ i <= last
      BY <2>2, <2>3
    <3> QED BY <3>1, <3>2, <3>3
  <2> QED BY <2>1, <2>4 DEF last
<1>6. Len(hd2.queue) = 0
  BY EmptySeq
<1>7. ASSUME NEW n \in hd2.executed
      PROVE  n \in 1 .. Len(cs) /\ NotBefore(n, hd2.setting, cs)
  <2>1. CASE mine = {}
    BY <1>2, <2>1
  <2>2. CASE mine # {}
    <3>1. hd2.setting = hd.queue[Max(mine)] /\ Max(mine) \in mine
      BY <1>5, <2>2
    <3>2. CASE n \in hd.executed
      BY <1>2, <3>1, <3>2
    <3>3. CASE \E i \in mine : n = hd.queue[i]
      BY <1>3, <1>5, <2>2, <3>1, <3>3
    <3> QED BY <3>2, <3>3
  <2> QED BY <2>1, <2>2
<1>8. hd2.setting \in 0 .. Len(cs)
  <2>1. CASE mine = {}
    BY <1>4, <2>1
  <2>2. CASE mine # {}
    <3>1. hd2.setting = hd.queue[Max(mine)] /\ Max(mine) \in mine
      BY <1>5, <2>2
    <3>2. hd.queue[Max(mine)] \in 1 .. Len(cs)
      BY <1>3, <3>1
    <3> QED BY <3>1, <3>2
  <2> QED BY <2>1, <2>2
<1> QED BY <1>6, <1>7, <1>8 DEF Sorted

LEMMA LatestKept ==
  ASSUME NEW d, NEW dg, NEW dg2, NEW cs, NEW cs2,
         Latest(d, dg, cs), Extended(cs, cs2),
         \A n \in Len(cs) + 1 .. Len(cs2) : cs2[n].dongle # d,
         dg2.left > 0 => dg.left > 0 /\ dg2.pending = dg.pending
  PROVE  Latest(d, dg2, cs2)
<1> SUFFICES ASSUME dg2.left > 0
             PROVE  /\ dg2.pending \in 1 .. Len(cs2)
                    /\ cs2[dg2.pending].dongle = d
                    /\ \A n \in 1 .. Len(cs2) : cs2[n].dongle = d => n <= dg2.pending
  BY DEF Latest
<1>1. /\ dg2.pending = dg.pending /\ dg.pending \in 1 .. Len(cs)
      /\ cs[dg.pending].dongle = d
      /\ \A n \in 1 .. Len(cs) : cs[n].dongle = d => n <= dg.pending
  BY DEF Latest
<1> QED BY <1>1 DEF Extended

\* What each step does to the commands issued.
LEMMA StepTypes ==
  ASSUME TypeOK, [Next]_vars
  PROVE  TypeOK' /\ Extended(issued, issued')
<1>1. issued \in Seq(Commands) /\ Len(issued) \in Nat /\ faults \in Nat
      /\ dongle \in [Dongles -> DongleRecs] /\ head \in [Heads -> HeadRecs]
  BY IssuedIs DEF TypeOK
<1>2. SameCommands => issued' \in Seq(Commands) /\ Extended(issued, issued')
  BY <1>1 DEF SameCommands, Kept, Extended
<1>3. issued' = issued => Extended(issued, issued')
  BY <1>1 DEF Extended
<1>4. ASSUME NEW d \in Dongles, BeaconWork(d)
      PROVE  TypeOK' /\ Extended(issued, issued')
  BY <1>2, <1>4, BeaconIs DEF TypeOK
<1>5. ASSUME NEW h \in Heads, ListenOpen(h)
      PROVE  TypeOK' /\ Extended(issued, issued')
  BY <1>1, <1>3, <1>5, OpenIs DEF TypeOK
<1>6. ASSUME NEW h \in Heads, ListenFail(h)
      PROVE  TypeOK' /\ Extended(issued, issued')
  <2>1. Iterate(h) /\ dongle' = dongle /\ faults' \in Nat
    BY <1>1, <1>6 DEF ListenFail
  <2> QED BY <1>1, <1>2, <2>1, IterateIs DEF TypeOK
<1>7. ASSUME NEW h \in Heads, ListenClose(h)
      PROVE  TypeOK' /\ Extended(issued, issued')
  <2>1. Iterate(h) /\ dongle' = dongle /\ faults' = faults
    BY <1>7 DEF ListenClose
  <2> QED BY <1>1, <1>2, <2>1, IterateIs DEF TypeOK
<1>8. CASE Tick
  BY <1>1, <1>3, <1>8, TickIs DEF TypeOK
<1>9. ASSUME NEW d \in Dongles, DongleOn(d) \/ DongleOff(d)
      PROVE  TypeOK' /\ Extended(issued, issued')
  BY <1>1, <1>2, <1>9, SwitchIs DEF TypeOK
<1>10. ASSUME NEW d \in Dongles, NEW h \in Heads, Issue(d, h)
       PROVE  TypeOK' /\ Extended(issued, issued')
  <2>1. /\ dongle' \in [Dongles -> DongleRecs]
        /\ issued' \in Seq(Commands) /\ Len(issued') = Len(issued) + 1
        /\ \A m \in 1 .. Len(issued) : issued'[m] = issued[m]
        /\ UNCHANGED <<head, faults>>
    BY <1>10, IssueIs
  <2>2. Len(issued') \in Nat
    BY <2>1, LenProperties
  <2> QED BY <1>1, <2>1, <2>2 DEF TypeOK, Extended
<1>11. ASSUME NEW h \in Heads, HeadCycle(h)
       PROVE  TypeOK' /\ Extended(issued, issued')
  BY <1>1, <1>2, <1>11, CycleIs, BootedIs DEF TypeOK
<1>12. CASE UNCHANGED vars
  BY <1>1, <1>3, <1>12 DEF vars, TypeOK
<1> QED BY <1>4, <1>5, <1>6, <1>7, <1>8, <1>9, <1>10, <1>11, <1>12 DEF Next, Step

LEMMA LatestStep ==
  ASSUME IInv, [Next]_vars
  PROVE  \A d \in Dongles : Latest(d, dongle'[d], issued')
<1> TAKE d \in Dongles
<1>1. TypeOK /\ Latest(d, dongle[d], issued)
  BY DEF IInv
<1>2. Extended(issued, issued')
  BY <1>1, StepTypes
<1>3. ASSUME Len(issued') = Len(issued),
             dongle'[d].left > 0 => dongle[d].left > 0 /\ dongle'[d].pending = dongle[d].pending
      PROVE  Latest(d, dongle'[d], issued')
  <2>1. \A n \in Len(issued) + 1 .. Len(issued') : issued'[n].dongle # d
    BY <1>2, <1>3 DEF Extended
  <2> QED BY <1>1, <1>2, <1>3, <2>1, LatestKept
<1>4. ASSUME NEW e \in Dongles, BeaconWork(e)
      PROVE  Latest(d, dongle'[d], issued')
  BY <1>1, <1>3, <1>4, BeaconIs DEF SameCommands
<1>5. ASSUME NEW h \in Heads, ListenOpen(h) \/ ListenFail(h) \/ ListenClose(h)
      PROVE  Latest(d, dongle'[d], issued')
  <2>1. dongle' = dongle
    BY <1>5 DEF ListenOpen, ListenFail, ListenClose
  <2>2. Len(issued') = Len(issued)
    BY <1>1, <1>5, OpenIs, IterateIs DEF ListenFail, ListenClose, SameCommands
  <2> QED BY <1>3, <2>1, <2>2
<1>6. CASE Tick
  BY <1>1, <1>3, <1>6, TickIs
<1>7. ASSUME NEW e \in Dongles, DongleOn(e) \/ DongleOff(e)
      PROVE  Latest(d, dongle'[d], issued')
  BY <1>1, <1>3, <1>7, SwitchIs DEF SameCommands
<1>8. ASSUME NEW e \in Dongles, NEW h \in Heads, Issue(e, h)
      PROVE  Latest(d, dongle'[d], issued')
  <2>1. /\ Len(issued') = Len(issued) + 1
        /\ issued'[Len(issued) + 1].dongle = e
        /\ e # d => dongle'[d] = dongle[d]
        /\ e = d => dongle'[d].pending = Len(issued) + 1
    BY <1>1, <1>8, IssueIs
  <2>2. CASE e # d
    <3>1. \A n \in Len(issued) + 1 .. Len(issued') : issued'[n].dongle # d
      BY <1>2, <2>1, <2>2 DEF Extended
    <3> QED BY <1>1, <1>2, <2>1, <2>2, <3>1, LatestKept
  <2>3. CASE e = d
    <3>1. Len(issued) \in Nat
      BY <1>2 DEF Extended
    <3> QED BY <2>1, <2>3, <3>1 DEF Latest
  <2> QED BY <2>2, <2>3
<1>9. ASSUME NEW h \in Heads, HeadCycle(h)
      PROVE  Latest(d, dongle'[d], issued')
  BY <1>1, <1>3, <1>9, CycleIs DEF SameCommands
<1>10. CASE UNCHANGED vars
  BY <1>3, <1>10 DEF vars
<1> QED BY <1>4, <1>5, <1>6, <1>7, <1>8, <1>9, <1>10 DEF Next, Step

LEMMA SortedStep ==
  ASSUME IInv, [Next]_vars
  PROVE  \A h \in Heads : Sorted(head'[h], issued')
<1> TAKE h \in Heads
<1>1. TypeOK /\ Sorted(head[h], issued)
  BY DEF IInv
<1>2. Extended(issued, issued') /\ Len(issued') \in Nat
  BY <1>1, StepTypes DEF Extended
<1>3. ASSUME head'[h].queue = head[h].queue, head'[h].setting = head[h].setting,
             head'[h].executed = head[h].executed
      PROVE  Sorted(head'[h], issued')
  BY <1>1, <1>2, <1>3, SortedKept
<1>4. Sorted(head[h], issued')
  BY <1>1, <1>2, SortedKept
<1>5. ASSUME NEW d \in Dongles, BeaconWork(d)
      PROVE  Sorted(head'[h], issued')
  <2>1. /\ head'[h].setting = head[h].setting
        /\ head'[h].executed = head[h].executed
        /\ \/ head'[h].queue = head[h].queue
           \/ head'[h].queue = Append(head[h].queue, Carried(d))
        /\ Len(issued') = Len(issued)
        /\ dongle[d].left > 0 => Latest(d, dongle[d], issued)
    BY <1>1, <1>5, BeaconIs DEF SameCommands, IInv
  <2>2. /\ Carried(d) \in 0 .. Len(issued')
        /\ \A m \in 1 .. Len(issued') : NotBefore(m, Carried(d), issued')
    <3>1. CASE dongle[d].left > 0
      <4> DEFINE n == dongle[d].pending
      <4>1. /\ n \in 1 .. Len(issued) /\ issued[n].dongle = d
            /\ \A m \in 1 .. Len(issued) : issued[m].dongle = d => m <= n
        BY <2>1, <3>1 DEF Latest
      <4> HIDE DEF n
      <4>2. issued'[n].dongle = d /\ n \in 1 .. Len(issued')
            /\ \A m \in 1 .. Len(issued') : issued'[m].dongle = d => m <= n
        BY <1>2, <2>1, <4>1 DEF Extended
      <4>3. Carried(d) = n
        BY <3>1 DEF Carried, n
      <4> QED BY <4>2, <4>3 DEF NotBefore
    <3>2. CASE ~(dongle[d].left > 0)
      BY <1>2, <3>2 DEF Carried, NoCommand, NotBefore
    <3> QED BY <3>1, <3>2
  <2>3. head[h].queue \in Seq(Nat)
    BY <1>1, HeadIs
  <2> QED BY <1>2, <1>3, <1>4, <2>1, <2>2, <2>3, SortedQueued
<1>6. ASSUME NEW g \in Heads, ListenOpen(g)
      PROVE  Sorted(head'[h], issued')
  BY <1>1, <1>3, <1>6, OpenIs
<1>7. ASSUME NEW g \in Heads, ListenFail(g) \/ ListenClose(g)
      PROVE  Sorted(head'[h], issued')
  <2>1. Iterate(g)
    BY <1>7 DEF ListenFail, ListenClose
  <2>2. CASE g # h
    BY <1>1, <1>3, <2>1, <2>2, IterateIs
  <2>3. CASE g = h
    <3> DEFINE mine == Mine(h, head[h].queue)
    <3>1. /\ head'[h].queue = <<>>
          /\ head'[h].setting = IF mine = {} THEN head[h].setting
                                ELSE head[h].queue[Max(mine)]
          /\ head'[h].executed = head[h].executed \cup {head[h].queue[i] : i \in mine}
      BY <1>1, <2>1, <2>3, IterateIs
    <3>2. head[h].queue \in Seq(Nat)
      BY <1>1, HeadIs
    <3>3. /\ mine \in SUBSET (1 .. Len(head[h].queue))
          /\ \A i \in mine : head[h].queue[i] # NoCommand
      BY <3>2, LenProperties DEF Mine
    <3> HIDE DEF mine
    <3> QED BY <1>2, <1>4, <3>1, <3>2, <3>3, SortedDrained
  <2> QED BY <2>2, <2>3
<1>8. CASE Tick
  BY <1>1, <1>3, <1>8, TickIs
<1>9. ASSUME NEW d \in Dongles, DongleOn(d) \/ DongleOff(d)
      PROVE  Sorted(head'[h], issued')
  BY <1>1, <1>3, <1>9, SwitchIs
<1>10. ASSUME NEW d \in Dongles, NEW g \in Heads, Issue(d, g)
       PROVE  Sorted(head'[h], issued')
  BY <1>1, <1>3, <1>10, IssueIs
<1>11. ASSUME NEW g \in Heads, HeadCycle(g)
       PROVE  Sorted(head'[h], issued')
  <2>1. head' = [head EXCEPT ![g] = BootedHead] /\ head \in [Heads -> HeadRecs]
    BY <1>1, <1>11, CycleIs DEF TypeOK
  <2>2. CASE g # h
    BY <1>3, <2>1, <2>2
  <2>3. CASE g = h
    <3>1. head'[h] = BootedHead
      BY <2>1, <2>3
    <3> QED BY <1>2, <3>1, BootedIs, SortedAtFirst
  <2> QED BY <2>2, <2>3
<1>12. CASE UNCHANGED vars
  BY <1>3, <1>12 DEF vars
<1> QED BY <1>5, <1>6, <1>7, <1>8, <1>9, <1>10, <1>11, <1>12 DEF Next, Step

-----------------------------------------------------------------------------
(* Presence.                                                               *)

LEMMA TimedStep ==
  ASSUME IInv, [Next]_vars
  PROVE  \A h \in Heads : Timed(head'[h])
<1> TAKE h \in Heads
<1>1. TypeOK /\ Timed(head[h])
  BY DEF IInv, Presence
<1>2. head[h].timer \in Nat /\ head[h].pc \in {"sleep", "listen"}
  BY <1>1, HeadIs
<1>3. ASSUME head'[h].timer <= head[h].timer, head'[h].timer \in Nat,
             head'[h].pc = head[h].pc, head'[h].state = head[h].state
      PROVE  Timed(head'[h])
  <2>1. LISTEN_WINDOW \in Nat /\ Period(head[h].state) \in Nat
    BY ConstantTypes DEF Period
  <2> QED BY <1>1, <1>2, <1>3, <2>1 DEF Timed
<1>4. head' = head => Timed(head'[h])
  BY <1>1
<1>5. ASSUME NEW d \in Dongles, BeaconWork(d) PROVE Timed(head'[h])
  BY <1>1, <1>2, <1>3, <1>5, BeaconIs
<1>6. ASSUME NEW g \in Heads, ListenOpen(g) PROVE Timed(head'[h])
  <2>1. CASE g # h
    BY <1>1, <1>6, <2>1, OpenIs
  <2>2. CASE g = h
    <3>1. head'[h].pc = "listen" /\ head'[h].timer = LISTEN_WINDOW
      BY <1>1, <1>6, <2>2, OpenIs
    <3> QED BY <3>1, ConstantTypes DEF Timed
  <2> QED BY <2>1, <2>2
<1>7. ASSUME NEW g \in Heads, ListenFail(g) \/ ListenClose(g) PROVE Timed(head'[h])
  <2>1. Iterate(g)
    BY <1>7 DEF ListenFail, ListenClose
  <2>2. CASE g # h
    BY <1>1, <2>1, <2>2, IterateIs
  <2>3. CASE g = h
    <3>1. head'[h].pc = "sleep" /\ head'[h].timer = Period(head'[h].state)
      BY <1>1, <2>1, <2>3, IterateIs
    <3> QED BY <3>1, ConstantTypes DEF Timed, Period
  <2> QED BY <2>2, <2>3
<1>8. CASE Tick
  <2>1. /\ head'[h].timer = head[h].timer - 1 /\ head'[h].timer \in Nat
        /\ head'[h].pc = head[h].pc /\ head'[h].state = head[h].state
    BY <1>1, <1>8, TickIs DEF HeadRecs
  <2>2. head'[h].timer <= head[h].timer
    BY <1>2, <2>1
  <2> QED BY <1>3, <2>1, <2>2
<1>9. ASSUME NEW d \in Dongles, DongleOn(d) \/ DongleOff(d) PROVE Timed(head'[h])
  BY <1>1, <1>4, <1>9, SwitchIs
<1>10. ASSUME NEW d \in Dongles, NEW g \in Heads, Issue(d, g) PROVE Timed(head'[h])
  BY <1>1, <1>4, <1>10, IssueIs
<1>11. ASSUME NEW g \in Heads, HeadCycle(g) PROVE Timed(head'[h])
  <2>1. head' = [head EXCEPT ![g] = BootedHead] /\ head \in [Heads -> HeadRecs]
    BY <1>1, <1>11, CycleIs DEF TypeOK
  <2>2. CASE g # h
    BY <1>1, <2>1, <2>2
  <2>3. CASE g = h
    <3>1. head'[h] = BootedHead
      BY <2>1, <2>3
    <3> QED BY <3>1, BootedIs, ConstantTypes DEF Timed, Period
  <2> QED BY <2>2, <2>3
<1>12. CASE UNCHANGED vars
  BY <1>4, <1>12 DEF vars
<1> QED BY <1>5, <1>6, <1>7, <1>8, <1>9, <1>10, <1>11, <1>12 DEF Next, Step

\* A head and a dongle that are as they were, but for their queue and slot.
LEMMA AwaitedKept ==
  ASSUME NEW hd, NEW hd2, NEW dg, NEW dg2, Awaited(hd, dg),
         hd2.pc = hd.pc, hd2.state = hd.state, hd2.timer = hd.timer,
         dg2.on = dg.on, dg2.up = dg.up,
         \/ dg2.timer = dg.timer /\ hd2.queue = hd.queue
         \/ hd.pc = "listen" => hd2.queue # <<>>
  PROVE  Awaited(hd2, dg2)
BY DEF Awaited, Hearing, Waking

\* Time takes as much from the timer of the head as it adds to the dongle's.
LEMMA AwaitedTick ==
  ASSUME NEW hd \in HeadRecs, NEW hd2 \in HeadRecs,
         NEW dg \in DongleRecs, NEW dg2 \in DongleRecs, Awaited(hd, dg),
         hd2.pc = hd.pc, hd2.state = hd.state, hd2.queue = hd.queue,
         hd2.timer = hd.timer - 1,
         dg2.on = dg.on,
         dg.on => dg2.timer = dg.timer - 1 /\ dg2.up <= dg.up + 1
  PROVE  Awaited(hd2, dg2)
<1>1. /\ hd.timer \in Nat /\ hd2.timer \in Nat
      /\ dg.timer \in Nat /\ dg2.timer \in Nat /\ dg.up \in Nat /\ dg2.up \in Nat
  BY DEF HeadRecs, DongleRecs
<1> SUFFICES ASSUME dg2.on
             PROVE  /\ hd2.pc = "listen" => Hearing(hd2, dg2)
                    /\ hd2.state = STANDBY => Waking(hd2, dg2)
  BY DEF Awaited
<1>2. hd2.timer = hd.timer - 1 /\ dg2.timer = dg.timer - 1 /\ dg2.up <= dg.up + 1
  OBVIOUS
<1>3. ASSUME hd2.pc = "listen" PROVE Hearing(hd2, dg2)
  <2>1. Hearing(hd, dg)
    BY <1>3 DEF Awaited
  <2>2. CASE hd.queue # <<>>
    BY <2>2 DEF Hearing
  <2>3. CASE LISTEN_WINDOW + dg.timer <= BEACON_PERIOD + hd.timer
    <3>1. LISTEN_WINDOW + dg2.timer <= BEACON_PERIOD + hd2.timer
      BY <1>1, <1>2, <2>3, ConstantTypes
    <3> QED BY <3>1 DEF Hearing
  <2>4. CASE dg.up + hd.timer <= LISTEN_WINDOW
    <3>1. dg2.up + hd2.timer <= LISTEN_WINDOW
      BY <1>1, <1>2, <2>4, ConstantTypes
    <3> QED BY <3>1 DEF Hearing
  <2> QED BY <2>1, <2>2, <2>3, <2>4 DEF Hearing
<1>4. ASSUME hd2.state = STANDBY PROVE Waking(hd2, dg2)
  <2> DEFINE bound == LISTEN_PERIOD_STANDBY
                      + (IF hd.pc = "sleep" THEN LISTEN_WINDOW ELSE 2 * LISTEN_WINDOW)
  <2>1. bound \in Nat
    BY ConstantTypes
  <2>2. dg.up + hd.timer <= bound
    BY <1>4 DEF Awaited, Waking
  <2> HIDE DEF bound
  <2>3. dg2.up + hd2.timer <= bound
    BY <1>1, <1>2, <2>1, <2>2
  <2> QED BY <2>3 DEF Waking, bound
<1> QED BY <1>3, <1>4

LEMMA AwaitedNew ==
  ASSUME NEW hd \in HeadRecs, NEW dg, Timed(hd), dg.up = 0
  PROVE  Awaited(hd, dg)
<1>1. hd.timer \in Nat /\ hd.pc \in {"sleep", "listen"}
  BY DEF HeadRecs
<1> QED BY <1>1, ConstantTypes DEF Awaited, Hearing, Waking, Timed, Period, ACTIVE, STANDBY

LEMMA AwaitedStep ==
  ASSUME IInv, [Next]_vars, faults' = 0
  PROVE  faults = 0 /\ \A h \in Heads, d \in Dongles : Awaited(head'[h], dongle'[d])
<1>1. TypeOK /\ faults \in Nat /\ TypeOK'
  BY StepTypes DEF IInv, TypeOK
<1>2. faults = 0
  <2>1. \A h \in Heads : ~ListenFail(h)
    BY <1>1 DEF ListenFail
  <2>2. ASSUME NEW d \in Dongles, BeaconWork(d) PROVE faults = 0
    BY <1>1, <2>2, BeaconIs
  <2> QED BY <2>1, <2>2 DEF Next, Step, ListenOpen, ListenClose, Tick, DongleOn,
             DongleOff, Issue, HeadCycle, vars
<1> SUFFICES ASSUME NEW h \in Heads, NEW d \in Dongles
             PROVE  Awaited(head'[h], dongle'[d])
  BY <1>2
<1>3. Awaited(head[h], dongle[d]) /\ Timed(head[h])
  BY <1>2 DEF IInv, Presence
<1>4. head[h] \in HeadRecs /\ dongle[d] \in DongleRecs
  BY <1>1, HeadIs, DongleIs
<1>5. head'[h] \in HeadRecs /\ dongle'[d] \in DongleRecs
  BY <1>1 DEF TypeOK
<1>6. ASSUME NEW e \in Dongles, BeaconWork(e) PROVE Awaited(head'[h], dongle'[d])
  <2>1. /\ head'[h].pc = head[h].pc /\ head'[h].state = head[h].state
        /\ head'[h].timer = head[h].timer
        /\ head[h].pc = "listen" => head'[h].queue # <<>>
    BY <1>1, <1>6, BeaconIs
  <2>2. dongle'[d].on = dongle[d].on /\ dongle'[d].up = dongle[d].up
    BY <1>1, <1>6, BeaconIs
  <2> QED BY <1>3, <2>1, <2>2, AwaitedKept
<1>7. ASSUME NEW g \in Heads, ListenOpen(g) PROVE Awaited(head'[h], dongle'[d])
  <2>1. CASE g # h
    BY <1>1, <1>3, <1>7, <2>1, OpenIs
  <2>2. CASE g = h
    <3>1. /\ head'[h].pc = "listen" /\ head'[h].timer = LISTEN_WINDOW
          /\ head'[h].state = head[h].state /\ dongle'[d] = dongle[d]
      BY <1>1, <1>7, <2>2, OpenIs
    <3>2. head[h].pc = "sleep" /\ head[h].timer = 0
      BY <1>7, <2>2 DEF ListenOpen
    <3>3. Hearing(head'[h], dongle'[d])
      <4>1. dongle[d].timer \in Nat /\ dongle[d].timer <= BEACON_PERIOD
        BY <1>1, DongleIs, ConstantTypes
      <4>2. LISTEN_WINDOW + dongle[d].timer <= BEACON_PERIOD + LISTEN_WINDOW
        BY <4>1, ConstantTypes
      <4> QED BY <3>1, <4>2 DEF Hearing
    <3>4. ASSUME dongle[d].on, head[h].state = STANDBY PROVE Waking(head'[h], dongle'[d])
      <4>1. dongle[d].up \in Nat
        BY <1>1, DongleIs
      <4>2. dongle[d].up + 0 <= LISTEN_PERIOD_STANDBY + LISTEN_WINDOW
        BY <1>3, <3>2, <3>4 DEF Awaited, Waking
      <4>3. dongle[d].up + LISTEN_WINDOW <= LISTEN_PERIOD_STANDBY + 2 * LISTEN_WINDOW
        BY <4>1, <4>2, ConstantTypes
      <4> QED BY <3>1, <4>3 DEF Waking
    <3> QED BY <3>1, <3>3, <3>4 DEF Awaited
  <2> QED BY <2>1, <2>2
<1>8. ASSUME NEW g \in Heads, ListenClose(g) PROVE Awaited(head'[h], dongle'[d])
  <2>1. Iterate(g) /\ dongle' = dongle /\ head[g].pc = "listen" /\ head[g].timer = 0
    BY <1>8 DEF ListenClose
  <2>2. CASE g # h
    BY <1>1, <1>3, <2>1, <2>2, IterateIs
  <2>3. CASE g = h
    <3>1. /\ head'[h].pc = "sleep" /\ head'[h].timer = Period(head'[h].state)
          /\ head'[h].state = STANDBY => head[h].queue = <<>>
      BY <1>1, <2>1, <2>3, IterateIs
    <3>2. ASSUME dongle[d].on, head'[h].state = STANDBY
          PROVE  Waking(head'[h], dongle'[d])
      <4>1. dongle[d].timer \in Nat /\ dongle[d].up \in Nat
        BY <1>1, DongleIs
      <4>2. dongle[d].up <= LISTEN_WINDOW
        BY <1>3, <2>1, <2>3, <3>1, <3>2, <4>1, ConstantTypes DEF Awaited, Hearing
      <4>3. head'[h].timer = LISTEN_PERIOD_STANDBY
        BY <3>1, <3>2 DEF Period, ACTIVE, STANDBY
      <4>4. dongle[d].up + LISTEN_PERIOD_STANDBY <= LISTEN_PERIOD_STANDBY + LISTEN_WINDOW
        BY <4>1, <4>2, ConstantTypes
      <4> QED BY <2>1, <3>1, <4>3, <4>4 DEF Waking
    <3> QED BY <2>1, <3>1, <3>2 DEF Awaited
  <2> QED BY <2>2, <2>3
<1>9. ASSUME NEW g \in Heads, ListenFail(g) PROVE FALSE
  BY <1>1, <1>2, <1>9 DEF ListenFail
<1>10. CASE Tick
  BY <1>1, <1>3, <1>4, <1>5, <1>10, TickIs, AwaitedTick
<1>11. ASSUME NEW e \in Dongles, DongleOn(e) \/ DongleOff(e)
       PROVE  Awaited(head'[h], dongle'[d])
  <2>1. CASE e # d
    BY <1>1, <1>3, <1>11, <2>1, SwitchIs
  <2>2. CASE e = d
    <3>1. head' = head /\ dongle'[d].up = 0
      BY <1>1, <1>11, <2>2, SwitchIs
    <3> QED BY <1>3, <1>4, <3>1, AwaitedNew
  <2> QED BY <2>1, <2>2
<1>12. ASSUME NEW e \in Dongles, NEW g \in Heads, Issue(e, g)
       PROVE  Awaited(head'[h], dongle'[d])
  <2>1. /\ head' = head /\ dongle'[d].on = dongle[d].on
        /\ dongle'[d].up = dongle[d].up /\ dongle'[d].timer = dongle[d].timer
    BY <1>1, <1>12, IssueIs
  <2> QED BY <1>3, <2>1, AwaitedKept
<1>13. ASSUME NEW g \in Heads, HeadCycle(g) PROVE Awaited(head'[h], dongle'[d])
  <2>1. /\ head' = [head EXCEPT ![g] = BootedHead] /\ head \in [Heads -> HeadRecs]
        /\ dongle' = dongle
    BY <1>1, <1>13, CycleIs DEF TypeOK
  <2>2. CASE g # h
    BY <1>3, <2>1, <2>2
  <2>3. CASE g = h
    <3>1. head'[h] = BootedHead
      BY <2>1, <2>3
    <3> QED BY <3>1, BootedIs DEF Awaited, ACTIVE, STANDBY
  <2> QED BY <2>2, <2>3
<1>14. CASE UNCHANGED vars
  BY <1>3, <1>14 DEF vars
<1> QED BY <1>6, <1>7, <1>8, <1>9, <1>10, <1>11, <1>12, <1>13, <1>14 DEF Next, Step

-----------------------------------------------------------------------------
LEMMA InitIInv == Init => IInv
<1> SUFFICES ASSUME Init PROVE IInv
  OBVIOUS
<1>1. /\ dongle \in [Dongles -> {OffDongle} \cup {OnDongle(p) : p \in 1 .. BEACON_PERIOD}]
      /\ head = [h \in Heads |-> BootedHead]
      /\ issued = <<>> /\ faults = 0
  BY DEF Init
<1>2. ASSUME NEW d \in Dongles
      PROVE  dongle[d] \in DongleRecs /\ dongle[d].up = 0 /\ dongle[d].left = 0
  <2>1. FALSE \in BOOLEAN /\ TRUE \in BOOLEAN /\ 0 \in Nat
        /\ 0 \in 0 .. BEACON_PERIOD /\ 1 .. BEACON_PERIOD \subseteq 0 .. BEACON_PERIOD
    BY ConstantTypes
  <2>2. OffDongle \in DongleRecs
    BY <2>1, Zenon DEF OffDongle, DongleRecs, NoCommand
  <2>3. OffDongle.up = 0 /\ OffDongle.left = 0
    BY DEF OffDongle
  <2>4. ASSUME NEW b \in BOOLEAN, NEW p \in 0 .. BEACON_PERIOD
        PROVE  LET dg == [OffDongle EXCEPT !.on = b, !.timer = p]
               IN dg \in DongleRecs /\ dg.up = 0 /\ dg.left = 0
    BY <2>2, <2>3 DEF DongleRecs
  <2>5. ASSUME NEW p \in 1 .. BEACON_PERIOD
        PROVE  LET dg == OnDongle(p)
               IN dg \in DongleRecs /\ dg.up = 0 /\ dg.left = 0
    BY <2>1, <2>4, Zenon DEF OnDongle
  <2>6. dongle[d] = OffDongle \/ \E p \in 1 .. BEACON_PERIOD : dongle[d] = OnDongle(p)
    BY <1>1
  <2> QED BY <2>2, <2>3, <2>5, <2>6, Zenon
<1>3. \A h \in Heads : head[h] = BootedHead
  BY <1>1
<1>4. issued \in Seq(Commands) /\ Len(issued) = 0
  BY <1>1, EmptySeq
<1>5. TypeOK
  <2>1. dongle \in [Dongles -> DongleRecs]
    BY <1>1, <1>2
  <2>2. head \in [Heads -> HeadRecs]
    BY <1>1, BootedIs
  <2> QED BY <1>1, <1>4, <2>1, <2>2 DEF TypeOK
<1>6. \A d \in Dongles : Latest(d, dongle[d], issued)
  BY <1>2 DEF Latest
<1>7. \A h \in Heads : Sorted(head[h], issued)
  BY <1>3, <1>4, BootedIs, SortedAtFirst
<1>8. \A h \in Heads : Timed(head[h])
  BY <1>3, BootedIs, ConstantTypes DEF Timed, Period
<1>9. \A h \in Heads, d \in Dongles : Awaited(head[h], dongle[d])
  BY <1>2, <1>3, <1>8, BootedIs, AwaitedNew
<1> QED BY <1>5, <1>6, <1>7, <1>8, <1>9 DEF IInv, Presence

LEMMA NextIInv == IInv /\ [Next]_vars => IInv'
<1> SUFFICES ASSUME IInv, [Next]_vars PROVE IInv'
  OBVIOUS
<1>1. TypeOK'
  BY StepTypes DEF IInv
<1>2. Presence'
  BY TimedStep, AwaitedStep DEF Presence
<1> QED BY <1>1, <1>2, LatestStep, SortedStep DEF IInv

LEMMA Invariance == Spec => []IInv
<1> QED BY InitIInv, NextIInv, PTL DEF Spec

(* What a head is set to is the latest command it executed of that dongle: *)
(* no repeat of an earlier command takes effect after a later one.         *)
THEOREM CommandsInOrder == Spec => []InOrder
<1>1. IInv => InOrder
  <2> SUFFICES ASSUME IInv, NEW h \in Heads, head[h].setting # NoCommand,
                      NEW n \in head[h].executed,
                      issued[n].dongle = issued[head[h].setting].dongle
               PROVE  n <= head[h].setting
    BY DEF InOrder
  <2>1. n # NoCommand /\ NotBefore(n, head[h].setting, issued)
    BY DEF IInv, Sorted, NoCommand
  <2> QED BY <2>1 DEF NotBefore
<1> QED BY <1>1, Invariance, PTL

(* With no fault, a head is not in standby once a dongle has been on the   *)
(* air for a standby sleep and two windows.                                *)
THEOREM StandbyIsAlone == Spec => []StandbyMeansAlone
<1>1. IInv => StandbyMeansAlone
  <2> SUFFICES ASSUME IInv, NEW h \in Heads, NEW d \in Dongles,
                      faults = 0, head[h].state = STANDBY, dongle[d].on
               PROVE  dongle[d].up <= LISTEN_PERIOD_STANDBY + 2 * LISTEN_WINDOW
    BY DEF StandbyMeansAlone
  <2>1. dongle[d].up \in Nat /\ head[h].timer \in Nat
    BY DongleIs, HeadIs DEF IInv
  <2>2. Waking(head[h], dongle[d])
    BY DEF IInv, Presence, Awaited
  <2> QED BY <2>1, <2>2, ConstantTypes DEF Waking
<1> QED BY <1>1, Invariance, PTL

-----------------------------------------------------------------------------
(* Delivery, with the sizes Room and Margin of the fabric.                 *)

(* In the window that a head is in, the dongles in once have been heard,   *)
(* and those in twice a second time, as far as the queue tells.            *)
Filled(hd, dgs, once, twice) ==
  /\ Len(hd.queue) <= Cardinality(once) + Cardinality(twice)
  /\ \A d \in once : dgs[d].on =>
       LISTEN_WINDOW + dgs[d].timer >= BEACON_PERIOD + hd.timer
  /\ \A d \in twice :
       /\ LISTEN_WINDOW >= BEACON_PERIOD + hd.timer
       /\ dgs[d].on => LISTEN_WINDOW + dgs[d].timer >= 2 * BEACON_PERIOD + hd.timer

Roomy(hd, dgs) ==
  IF hd.pc = "sleep" THEN hd.queue = <<>>
  ELSE \E once, twice \in SUBSET Dongles : Filled(hd, dgs, once, twice)

(* How long a head takes to hear its dongle, if faults spoil what they     *)
(* still can: a window, the one it is in when the next beacon falls in it, *)
(* and one more iteration as long as there was no fault.                   *)
Spare(f) == IF f = 0 THEN Iteration ELSE 0

Needed(hd, dg, f) ==
  hd.timer + Spare(f)
  + (IF hd.pc = "sleep" THEN LISTEN_WINDOW
     ELSE IF hd.timer > dg.timer THEN 0 ELSE Iteration)

\* How long the dongle goes on repeating the command c.
LastRepeat(dg, c) ==
  dg.timer + (BEACON_CMD_REPEATS - c.beacons - 1) * BEACON_PERIOD

\* A command that has not reached its head will do so before its last repeat.
InTime(n, c, hd, dg, f) ==
  /\ dg.on /\ hd.state = ACTIVE
  /\ c.beacons < BEACON_CMD_REPEATS
  /\ dg.pending = n /\ dg.left = BEACON_CMD_REPEATS - c.beacons
  /\ Needed(hd, dg, f) <= LastRepeat(dg, c)

Has(hd, n) == n \in hd.executed \/ \E i \in 1 .. Len(hd.queue) : hd.queue[i] = n

Awaits(n, cs, hds, f) ==
  /\ cs[n].fair /\ f <= 1
  /\ \A m \in 1 .. Len(cs) : m > n => cs[m].dongle # cs[n].dongle
  /\ ~Has(hds[cs[n].target], n)

JInv ==
  /\ \A h \in Heads : Roomy(head[h], dongle)
  /\ \A n \in 1 .. Len(issued) :
       Awaits(n, issued, head, faults) =>
         InTime(n, issued[n], head[issued[n].target], dongle[issued[n].dongle], faults)

LEMMA RoomIs ==
  ASSUME Room, NEW once \in SUBSET Dongles, NEW twice \in SUBSET Dongles
  PROVE  /\ Cardinality(once) \in Nat /\ Cardinality(twice) \in Nat
         /\ \A d \in Dongles :
              /\ d \notin once => /\ Cardinality(once \cup {d}) = Cardinality(once) + 1
                                  /\ Cardinality(once) + Cardinality(twice) < BEACONQ_DEPTH
              /\ d \notin twice => /\ Cardinality(twice \cup {d}) = Cardinality(twice) + 1
                                   /\ Cardinality(once) + Cardinality(twice) < BEACONQ_DEPTH
<1>1. IsFiniteSet(Dongles) /\ Cardinality(Dongles) \in Nat
  BY FS_CardinalityType DEF Room
<1>2. \A S \in SUBSET Dongles :
        /\ IsFiniteSet(S) /\ Cardinality(S) \in Nat
        /\ Cardinality(S) <= Cardinality(Dongles)
        /\ Cardinality(S) = Cardinality(Dongles) => S = Dongles
  BY <1>1, FS_Subset, FS_CardinalityType
<1>3. \A S \in SUBSET Dongles, d \in Dongles : d \notin S =>
        /\ Cardinality(S \cup {d}) = Cardinality(S) + 1
        /\ Cardinality(S) < Cardinality(Dongles)
  <2> TAKE S \in SUBSET Dongles, d \in Dongles
  <2> HAVE d \notin S
  <2>1. Cardinality(S \cup {d}) = Cardinality(S) + 1
    BY <1>2, FS_AddElement
  <2>2. Cardinality(S) # Cardinality(Dongles)
    BY <1>2
  <2> QED BY <1>1, <1>2, <2>1, <2>2
<1> DEFINE all == Cardinality(Dongles)
           a == Cardinality(once)
           b == Cardinality(twice)
<1>4. /\ all \in Nat /\ a \in Nat /\ b \in Nat /\ a <= all /\ b <= all
      /\ 2 * all <= BEACONQ_DEPTH
  BY <1>1, <1>2 DEF Room
<1>5. a < all \/ b < all => a + b < BEACONQ_DEPTH
  <2> HIDE DEF all, a, b
  <2> QED BY <1>4, ConstantTypes
<1> QED BY <1>3, <1>4, <1>5

\* Time passes for the head and for the dongles alike, or a dongle is on anew.
LEMMA RoomyKept ==
  ASSUME NEW hd \in HeadRecs, NEW hd2 \in HeadRecs,
         NEW dgs \in [Dongles -> DongleRecs], NEW dgs2 \in [Dongles -> DongleRecs],
         Roomy(hd, dgs), Timed(hd),
         hd2.pc = hd.pc, hd2.queue = hd.queue, hd2.timer <= hd.timer,
         \A d \in Dongles : dgs2[d].on =>
           \/ dgs[d].on /\ dgs[d].timer + hd2.timer <= dgs2[d].timer + hd.timer
           \/ dgs2[d].timer = BEACON_PERIOD
  PROVE  Roomy(hd2, dgs2)
<1>1. CASE hd.pc = "sleep"
  BY <1>1 DEF Roomy
<1>2. CASE hd.pc # "sleep"
  <2>1. PICK once, twice \in SUBSET Dongles : Filled(hd, dgs, once, twice)
    BY <1>2 DEF Roomy
  <2>2. hd.timer \in Nat /\ hd2.timer \in Nat /\ hd.timer <= LISTEN_WINDOW
    BY <1>2 DEF HeadRecs, Timed
  <2>3. \A d \in Dongles : dgs[d].timer \in Nat /\ dgs2[d].timer \in Nat
    BY DEF DongleRecs
  <2>4. ASSUME NEW d \in once, dgs2[d].on
        PROVE  LISTEN_WINDOW + dgs2[d].timer >= BEACON_PERIOD + hd2.timer
    <3>1. CASE dgs2[d].timer = BEACON_PERIOD
      BY <2>2, <3>1, ConstantTypes
    <3>2. CASE dgs[d].on /\ dgs[d].timer + hd2.timer <= dgs2[d].timer + hd.timer
      <4>1. LISTEN_WINDOW + dgs[d].timer >= BEACON_PERIOD + hd.timer
        BY <2>1, <3>2 DEF Filled
      <4> QED BY <2>2, <2>3, <3>2, <4>1, ConstantTypes
    <3> QED BY <2>4, <3>1, <3>2
  <2>5. ASSUME NEW d \in twice
        PROVE  /\ LISTEN_WINDOW >= BEACON_PERIOD + hd2.timer
               /\ dgs2[d].on =>
                    LISTEN_WINDOW + dgs2[d].timer >= 2 * BEACON_PERIOD + hd2.timer
    <3>1. /\ LISTEN_WINDOW >= BEACON_PERIOD + hd.timer
          /\ dgs[d].on => LISTEN_WINDOW + dgs[d].timer >= 2 * BEACON_PERIOD + hd.timer
      BY <2>1 DEF Filled
    <3>2. LISTEN_WINDOW >= BEACON_PERIOD + hd2.timer
      BY <2>2, <3>1, ConstantTypes
    <3>3. CASE dgs2[d].timer = BEACON_PERIOD
      BY <2>2, <3>2, <3>3, ConstantTypes
    <3>4. CASE dgs[d].on /\ dgs[d].timer + hd2.timer <= dgs2[d].timer + hd.timer
      BY <2>2, <2>3, <3>1, <3>2, <3>4, ConstantTypes
    <3> QED BY <3>2, <3>3, <3>4
  <2>6. Filled(hd2, dgs2, once, twice)
    BY <2>1, <2>4, <2>5 DEF Filled
  <2> QED BY <1>2, <2>6 DEF Roomy
<1> QED BY <1>1, <1>2

\* A beacon that is due finds room, and takes its place.
LEMMA RoomyHeard ==
  ASSUME Room, NEW hd \in HeadRecs, NEW hd2 \in HeadRecs,
         NEW dgs \in [Dongles -> DongleRecs], NEW dgs2 \in [Dongles -> DongleRecs],
         Roomy(hd, dgs), Timed(hd), hd.pc = "listen",
         NEW d \in Dongles, dgs[d].on, dgs[d].timer = 0,
         dgs2[d].timer = BEACON_PERIOD,
         \A e \in Dongles : e # d => dgs2[e] = dgs[e],
         hd2.pc = hd.pc, hd2.timer = hd.timer,
         Len(hd2.queue) <= Len(hd.queue) + 1
  PROVE  Roomy(hd2, dgs2) /\ Len(hd.queue) < BEACONQ_DEPTH
<1>1. PICK once, twice \in SUBSET Dongles : Filled(hd, dgs, once, twice)
  BY DEF Roomy
<1>2. hd.timer \in Nat /\ hd.timer <= LISTEN_WINDOW
  BY DEF HeadRecs, Timed
<1>3. Len(hd.queue) \in Nat /\ Len(hd2.queue) \in Nat
  BY LenProperties DEF HeadRecs
<1>4. Cardinality(once) \in Nat /\ Cardinality(twice) \in Nat
  BY RoomIs
<1>5. d \notin twice
  <2>1. \A x \in Nat : ~(LISTEN_WINDOW + 0 >= 2 * BEACON_PERIOD + x)
    BY ConstantTypes DEF Room
  <2> QED BY <1>1, <1>2, <2>1 DEF Filled
<1>6. /\ d \in once => LISTEN_WINDOW >= BEACON_PERIOD + hd.timer
      /\ LISTEN_WINDOW + BEACON_PERIOD >= BEACON_PERIOD + hd.timer
  <2>1. d \in once => LISTEN_WINDOW + 0 >= BEACON_PERIOD + hd.timer
    BY <1>1 DEF Filled
  <2> QED BY <1>2, <2>1, ConstantTypes
<1>7. Len(hd.queue) <= Cardinality(once) + Cardinality(twice)
  BY <1>1 DEF Filled
<1>8. Len(hd.queue) < BEACONQ_DEPTH
  <2>1. Cardinality(once) + Cardinality(twice) < BEACONQ_DEPTH
    BY <1>5, RoomIs
  <2> QED BY <1>3, <1>4, <1>7, <2>1, ConstantTypes
<1>9. CASE d \in once
  <2> DEFINE more == twice \cup {d}
  <2>1. Cardinality(more) = Cardinality(twice) + 1
    BY <1>5, RoomIs
  <2>2. Len(hd2.queue) <= Cardinality(once) + Cardinality(more)
    BY <1>3, <1>4, <1>7, <2>1
  <2>3. \A e \in once : dgs2[e].on =>
          LISTEN_WINDOW + dgs2[e].timer >= BEACON_PERIOD + hd2.timer
    BY <1>1, <1>6 DEF Filled
  <2>4. LISTEN_WINDOW + BEACON_PERIOD >= 2 * BEACON_PERIOD + hd.timer
    BY <1>2, <1>6, <1>9, ConstantTypes
  <2>5. \A e \in more :
          /\ LISTEN_WINDOW >= BEACON_PERIOD + hd2.timer
          /\ dgs2[e].on =>
               LISTEN_WINDOW + dgs2[e].timer >= 2 * BEACON_PERIOD + hd2.timer
    BY <1>1, <1>6, <1>9, <2>4 DEF Filled
  <2>6. Filled(hd2, dgs2, once, more)
    BY <2>2, <2>3, <2>5 DEF Filled
  <2> QED BY <1>8, <2>6 DEF Roomy
<1>10. CASE d \notin once
  <2> DEFINE more == once \cup {d}
  <2>1. Cardinality(more) = Cardinality(once) + 1
    BY <1>10, RoomIs
  <2>2. Len(hd2.queue) <= Cardinality(more) + Cardinality(twice)
    BY <1>3, <1>4, <1>7, <2>1
  <2>3. \A e \in more : dgs2[e].on =>
          LISTEN_WINDOW + dgs2[e].timer >= BEACON_PERIOD + hd2.timer
    BY <1>1, <1>6 DEF Filled
  <2>4. \A e \in twice :
          /\ LISTEN_WINDOW >= BEACON_PERIOD + hd2.timer
          /\ dgs2[e].on =>
               LISTEN_WINDOW + dgs2[e].timer >= 2 * BEACON_PERIOD + hd2.timer
    BY <1>1, <1>5 DEF Filled
  <2>5. Filled(hd2, dgs2, more, twice)
    BY <2>2, <2>3, <2>4 DEF Filled
  <2> QED BY <1>8, <2>5 DEF Roomy
<1> QED BY <1>9, <1>10

LEMMA RoomyStep ==
  ASSUME Room, IInv, JInv, [Next]_vars, NEW h \in Heads
  PROVE  Roomy(head'[h], dongle')
<1>1. /\ TypeOK /\ Timed(head[h]) /\ Roomy(head[h], dongle)
      /\ dongle \in [Dongles -> DongleRecs] /\ head[h] \in HeadRecs
  BY DEF IInv, Presence, JInv, TypeOK
<1>2. head'[h] \in HeadRecs /\ dongle' \in [Dongles -> DongleRecs]
  BY <1>1, StepTypes DEF TypeOK
<1>3. head[h].timer \in Nat /\ head'[h].timer \in Nat
  BY <1>1, <1>2 DEF HeadRecs
<1>4. \A d \in Dongles : dongle[d].timer \in Nat /\ dongle'[d].timer \in Nat
  BY <1>1, <1>2 DEF DongleRecs
<1>5. ASSUME head'[h].pc = head[h].pc, head'[h].queue = head[h].queue,
             head'[h].timer = head[h].timer,
             \A d \in Dongles : dongle'[d].on =>
               \/ dongle[d].on /\ dongle'[d].timer = dongle[d].timer
               \/ dongle'[d].timer = BEACON_PERIOD
      PROVE  Roomy(head'[h], dongle')
  <2>1. \A d \in Dongles : dongle'[d].on =>
          \/ dongle[d].on /\ dongle[d].timer + head'[h].timer <= dongle'[d].timer + head[h].timer
          \/ dongle'[d].timer = BEACON_PERIOD
    BY <1>3, <1>4, <1>5
  <2>2. head'[h].timer <= head[h].timer
    BY <1>3, <1>5
  <2> QED BY <1>1, <1>2, <1>5, <2>1, <2>2, RoomyKept
<1>6. ASSUME NEW d \in Dongles, BeaconWork(d) PROVE Roomy(head'[h], dongle')
  <2>1. /\ head'[h].pc = head[h].pc /\ head'[h].timer = head[h].timer
        /\ \A e \in Dongles : e # d => dongle'[e] = dongle[e]
        /\ dongle'[d].timer = BEACON_PERIOD
    BY <1>1, <1>6, BeaconIs
  <2>2. CASE head'[h].queue = head[h].queue
    BY <1>5, <2>1, <2>2
  <2>3. CASE head'[h].queue # head[h].queue
    <3>1. head[h].pc = "listen" /\ head'[h].queue = Append(head[h].queue, Carried(d))
      BY <1>1, <1>6, <2>3, BeaconIs, HeadIs
    <3>2. Len(head'[h].queue) <= Len(head[h].queue) + 1
      BY <1>1, <3>1, HeadIs, AppendProperties, DongleIs DEF Carried, NoCommand
    <3>3. dongle[d].on /\ dongle[d].timer = 0
      BY <1>6 DEF BeaconWork
    <3> HIDE DEF Room
    <3> QED BY <1>1, <1>2, <2>1, <3>1, <3>2, <3>3, RoomyHeard
  <2> QED BY <2>2, <2>3
<1>7. ASSUME NEW g \in Heads, Iterate(g), dongle' = dongle PROVE Roomy(head'[h], dongle')
  <2>1. CASE g # h
    BY <1>1, <1>7, <2>1, IterateIs
  <2>2. CASE g = h
    BY <1>1, <1>7, <2>2, IterateIs DEF Roomy
  <2> QED BY <2>1, <2>2
<1>8. ASSUME NEW g \in Heads, ListenOpen(g) PROVE Roomy(head'[h], dongle')
  <2>1. dongle' = dongle
    BY <1>1, <1>8, OpenIs
  <2>2. CASE g # h
    BY <1>1, <1>8, <2>1, <2>2, OpenIs
  <2>3. CASE g = h
    <3>1. /\ head'[h].pc = "listen" /\ head'[h].queue = head[h].queue
      BY <1>1, <1>8, <2>3, OpenIs
    <3>2. Len(head'[h].queue) = 0
      BY <1>1, <1>8, <2>3, <3>1 DEF Roomy, ListenOpen
    <3>3. Cardinality({}) = 0
      BY FS_EmptySet
    <3>4. Filled(head'[h], dongle', {}, {})
      BY <3>2, <3>3 DEF Filled
    <3> QED BY <3>1, <3>4 DEF Roomy
  <2> QED BY <2>2, <2>3
<1>9. CASE Tick
  <2>1. /\ head'[h].pc = head[h].pc /\ head'[h].queue = head[h].queue
        /\ head'[h].timer = head[h].timer - 1
        /\ \A d \in Dongles : dongle'[d].on =>
             dongle[d].on /\ dongle'[d].timer = dongle[d].timer - 1
    BY <1>1, <1>9, TickIs
  <2>2. head'[h].timer <= head[h].timer
    BY <1>3, <2>1
  <2>3. \A d \in Dongles : dongle'[d].on =>
          dongle[d].on /\ dongle[d].timer + head'[h].timer <= dongle'[d].timer + head[h].timer
    BY <1>3, <1>4, <2>1
  <2> QED BY <1>1, <1>2, <2>1, <2>2, <2>3, RoomyKept
<1>10. ASSUME NEW d \in Dongles, DongleOn(d) \/ DongleOff(d)
       PROVE  Roomy(head'[h], dongle')
  <2>1. head' = head /\ \A e \in Dongles : e # d => dongle'[e] = dongle[e]
    BY <1>1, <1>10, SwitchIs
  <2>2. dongle'[d].on => dongle'[d].timer = BEACON_PERIOD
    <3>1. dongle'[d] = OnDongle(BEACON_PERIOD) \/ dongle'[d] = OffDongle
      BY <1>1, <1>10 DEF DongleOn, DongleOff
    <3>2. OnDongle(BEACON_PERIOD).timer = BEACON_PERIOD /\ ~OffDongle.on
      BY DEF OnDongle, OffDongle
    <3> QED BY <3>1, <3>2, Zenon
  <2>3. \A e \in Dongles : dongle'[e].on =>
          \/ dongle[e].on /\ dongle'[e].timer = dongle[e].timer
          \/ dongle'[e].timer = BEACON_PERIOD
    BY <2>1, <2>2
  <2> QED BY <1>5, <2>1, <2>3
<1>11. ASSUME NEW d \in Dongles, NEW g \in Heads, Issue(d, g)
       PROVE  Roomy(head'[h], dongle')
  <2>1. /\ head' = head /\ \A e \in Dongles : e # d => dongle'[e] = dongle[e]
        /\ dongle'[d].on = dongle[d].on /\ dongle'[d].timer = dongle[d].timer
    BY <1>1, <1>11, IssueIs
  <2>2. \A e \in Dongles : dongle'[e].on =>
          \/ dongle[e].on /\ dongle'[e].timer = dongle[e].timer
          \/ dongle'[e].timer = BEACON_PERIOD
    BY <2>1
  <2> QED BY <1>5, <2>1, <2>2
<1>12. ASSUME NEW g \in Heads, HeadCycle(g) PROVE Roomy(head'[h], dongle')
  <2>1. head' = [head EXCEPT ![g] = BootedHead] /\ dongle' = dongle
    BY <1>1, <1>12, CycleIs
  <2>2. CASE g # h
    BY <1>1, <2>1, <2>2
  <2>3. CASE g = h
    <3>1. head'[h] = BootedHead
      BY <1>1, <2>1, <2>3 DEF TypeOK
    <3> QED BY <3>1, BootedIs DEF Roomy
  <2> QED BY <2>2, <2>3
<1>13. CASE UNCHANGED vars
  BY <1>1, <1>13 DEF vars
<1>14. ASSUME NEW g \in Heads, ListenFail(g) \/ ListenClose(g)
       PROVE  Roomy(head'[h], dongle')
  BY <1>7, <1>14 DEF ListenFail, ListenClose
<1> QED BY <1>6, <1>8, <1>9, <1>10, <1>11, <1>12, <1>13, <1>14 DEF Next, Step

-----------------------------------------------------------------------------
(* How much a step takes from what is left of a command.                   *)

LEMMA LessNeeded ==
  ASSUME NEW hd, NEW dg, NEW f \in Nat, NEW f2 \in Nat, f <= f2,
         hd.timer \in Nat, dg.timer \in Nat
  PROVE  /\ Needed(hd, dg, f) \in Nat /\ Needed(hd, dg, f2) \in Nat
         /\ Needed(hd, dg, f2) <= Needed(hd, dg, f)
BY ConstantTypes DEF Needed, Spare, Iteration

LEMMA InTimeKept ==
  ASSUME NEW n \in Nat, NEW c \in Commands, NEW c2 \in Commands,
         NEW hd \in HeadRecs, NEW hd2 \in HeadRecs, NEW dg \in DongleRecs,
         NEW f \in Nat, NEW f2 \in Nat,
         InTime(n, c, hd, dg, f), f <= f2, c2.beacons = c.beacons,
         hd2.state = hd.state, hd2.pc = hd.pc, hd2.timer = hd.timer
  PROVE  InTime(n, c2, hd2, dg, f2)
<1>1. hd.timer \in Nat /\ dg.timer \in Nat
  BY DEF HeadRecs, DongleRecs
<1>2. Needed(hd2, dg, f2) = Needed(hd, dg, f2)
  BY DEF Needed
<1>3. LastRepeat(dg, c2) = LastRepeat(dg, c)
  BY DEF LastRepeat
<1>4. Needed(hd2, dg, f2) <= LastRepeat(dg, c2)
  <2> DEFINE last == LastRepeat(dg, c)
  <2>1. last \in Int
    BY <1>1, ConstantTypes DEF LastRepeat, Commands
  <2>2. /\ Needed(hd, dg, f) \in Nat /\ Needed(hd, dg, f2) \in Nat
        /\ Needed(hd, dg, f2) <= Needed(hd, dg, f)
    BY <1>1, LessNeeded
  <2>3. Needed(hd, dg, f) <= last
    BY DEF InTime
  <2> HIDE DEF last
  <2>4. Needed(hd, dg, f2) <= last
    BY <2>1, <2>2, <2>3
  <2> QED BY <1>2, <1>3, <2>4 DEF last
<1> QED BY <1>4 DEF InTime

\* Time passes.
LEMMA InTimeTick ==
  ASSUME NEW n \in Nat, NEW c \in Commands,
         NEW hd \in HeadRecs, NEW hd2 \in HeadRecs,
         NEW dg \in DongleRecs, NEW dg2 \in DongleRecs, NEW f \in Nat,
         InTime(n, c, hd, dg, f),
         hd2.state = hd.state, hd2.pc = hd.pc, hd2.timer = hd.timer - 1,
         dg2.on = dg.on, dg2.pending = dg.pending, dg2.left = dg.left,
         dg2.timer = dg.timer - 1
  PROVE  InTime(n, c, hd2, dg2, f)
<1>1. /\ hd.timer \in Nat /\ dg.timer \in Nat /\ hd2.timer \in Nat /\ dg2.timer \in Nat
  BY DEF HeadRecs, DongleRecs
<1>2. Needed(hd2, dg2, f) = Needed(hd, dg, f) - 1
  BY <1>1, ConstantTypes DEF Needed, Spare, Iteration
<1>3. LastRepeat(dg2, c) = LastRepeat(dg, c) - 1
  <2> DEFINE rest == (BEACON_CMD_REPEATS - c.beacons - 1) * BEACON_PERIOD
  <2>1. rest \in Int
    BY ConstantTypes DEF Commands
  <2> HIDE DEF rest
  <2>2. dg2.timer + rest = (dg.timer + rest) - 1
    BY <1>1, <2>1
  <2> QED BY <2>2 DEF LastRepeat, rest
<1>4. Needed(hd, dg, f) \in Nat /\ LastRepeat(dg, c) \in Int
  BY <1>1, LessNeeded, ConstantTypes DEF LastRepeat, Commands
<1>5. Needed(hd2, dg2, f) <= LastRepeat(dg2, c)
  BY <1>2, <1>3, <1>4 DEF InTime
<1> QED BY <1>5 DEF InTime

\* A repeat is spent and the head has not heard it: it sleeps, or a fault took it.
LEMMA InTimeMissed ==
  ASSUME NEW n \in Nat, NEW c \in Commands, NEW c2 \in Commands,
         NEW hd \in HeadRecs, NEW hd2 \in HeadRecs,
         NEW dg \in DongleRecs, NEW dg2 \in DongleRecs, NEW f \in Nat, NEW f2 \in Nat,
         InTime(n, c, hd, dg, f), f <= f2, dg.timer = 0,
         hd2.state = hd.state, hd2.pc = hd.pc, hd2.timer = hd.timer,
         hd.pc = "sleep" \/ (f = 0 /\ f2 = 1),
         dg2.on = dg.on, dg2.pending = dg.pending, dg2.timer = BEACON_PERIOD,
         dg2.left = IF dg.left > 0 THEN dg.left - 1 ELSE 0,
         c2.beacons = c.beacons + 1
  PROVE  InTime(n, c2, hd2, dg2, f2)
<1> DEFINE x == BEACON_CMD_REPEATS - c.beacons - 1
<1>1. /\ hd.timer \in Nat /\ dg.timer \in Nat /\ c.beacons \in Nat
      /\ dg.left \in Nat /\ x \in Int
  <2>1. hd.timer \in Nat
    BY DEF HeadRecs
  <2>2. dg.timer \in Nat /\ dg.left \in Nat
    BY ConstantTypes DEF DongleRecs
  <2>3. c.beacons \in Nat
    BY DEF Commands
  <2> QED BY <2>1, <2>2, <2>3, ConstantTypes
<1>2. c.beacons < BEACON_CMD_REPEATS /\ dg.left = BEACON_CMD_REPEATS - c.beacons
  BY DEF InTime
<1>3. Needed(hd, dg, f) > 0 /\ Needed(hd, dg, f) \in Nat
  BY <1>1, ConstantTypes DEF Needed, Spare, Iteration
<1>4. Needed(hd2, dg2, f2) <= Needed(hd, dg, f) /\ Needed(hd2, dg2, f2) \in Nat
  BY <1>1, ConstantTypes DEF Needed, Spare, Iteration
<1>5. LastRepeat(dg, c) = x * BEACON_PERIOD
  <2>1. x * BEACON_PERIOD \in Int
    BY <1>1, ConstantTypes
  <2>2. LastRepeat(dg, c) = 0 + x * BEACON_PERIOD
    BY DEF LastRepeat
  <2> HIDE DEF x
  <2> QED BY <2>1, <2>2
<1>6. LastRepeat(dg2, c2) = BEACON_PERIOD + (x - 1) * BEACON_PERIOD
  <2>1. BEACON_CMD_REPEATS - c2.beacons - 1 = x - 1
    BY <1>1, ConstantTypes
  <2> HIDE DEF x
  <2> QED BY <2>1 DEF LastRepeat
<1>7. Needed(hd, dg, f) <= x * BEACON_PERIOD
  BY <1>5 DEF InTime
<1>8. x > 0
  <2>1. \A m \in Nat, p \in Nat, k \in Int : m > 0 /\ m <= k * p => k > 0
    OBVIOUS
  <2> HIDE DEF x
  <2> QED BY <1>1, <1>3, <1>7, <2>1, ConstantTypes
<1>9. BEACON_PERIOD + (x - 1) * BEACON_PERIOD = x * BEACON_PERIOD
  <2> HIDE DEF x
  <2> QED BY <1>1, ConstantTypes
<1>10. Needed(hd2, dg2, f2) <= LastRepeat(dg2, c2)
  <2> DEFINE last == x * BEACON_PERIOD
  <2>1. last \in Int
    BY <1>1, ConstantTypes
  <2>2. LastRepeat(dg2, c2) = last /\ Needed(hd, dg, f) <= last
    BY <1>6, <1>7, <1>9
  <2> HIDE DEF last, x
  <2> QED BY <1>3, <1>4, <2>1, <2>2
<1>11. c2.beacons < BEACON_CMD_REPEATS /\ dg2.left = BEACON_CMD_REPEATS - c2.beacons
  BY <1>1, <1>2, <1>8, ConstantTypes
<1> QED BY <1>10, <1>11 DEF InTime

\* The head opens a window ...
LEMMA InTimeOpened ==
  ASSUME NEW n \in Nat, NEW c \in Commands,
         NEW hd \in HeadRecs, NEW hd2 \in HeadRecs, NEW dg \in DongleRecs, NEW f \in Nat,
         InTime(n, c, hd, dg, f),
         hd.pc = "sleep", hd.timer = 0,
         hd2.state = hd.state, hd2.pc = "listen", hd2.timer = LISTEN_WINDOW
  PROVE  InTime(n, c, hd2, dg, f)
<1>1. dg.timer \in 0 .. BEACON_PERIOD
  BY DEF DongleRecs
<1>2. Needed(hd2, dg, f) = Needed(hd, dg, f)
  BY <1>1, ConstantTypes DEF Needed, Spare, Iteration
<1> QED BY <1>2 DEF InTime

\* ... closes it, or cannot open it, and begins another iteration.
LEMMA InTimeIterated ==
  ASSUME NEW n \in Nat, NEW c \in Commands, NEW c2 \in Commands,
         NEW hd \in HeadRecs, NEW hd2 \in HeadRecs, NEW dg \in DongleRecs,
         NEW f \in Nat, NEW f2 \in Nat,
         InTime(n, c, hd, dg, f), c2.beacons = c.beacons, hd.timer = 0,
         \/ hd.pc = "listen" /\ f2 = f
         \/ hd.pc = "sleep" /\ f = 0 /\ f2 = 1,
         hd2.pc = "sleep", hd2.state = ACTIVE, hd2.timer = Period(hd2.state)
  PROVE  InTime(n, c2, hd2, dg, f2)
<1>1. dg.timer \in Nat
  BY DEF DongleRecs
<1>2. Needed(hd2, dg, f2) <= Needed(hd, dg, f)
  <2>1. hd2.timer = LISTEN_PERIOD_ACTIVE
    BY DEF Period
  <2>2. Needed(hd2, dg, f2) = LISTEN_PERIOD_ACTIVE + Spare(f2) + LISTEN_WINDOW
    BY <2>1 DEF Needed
  <2>3. CASE hd.pc = "listen" /\ f2 = f
    <3>1. Needed(hd, dg, f) = 0 + Spare(f) + Iteration
      BY <1>1, <2>3 DEF Needed
    <3> QED BY <2>2, <2>3, <3>1, ConstantTypes DEF Spare, Iteration
  <2>4. CASE hd.pc = "sleep" /\ f = 0 /\ f2 = 1
    <3>1. Needed(hd, dg, f) = 0 + Spare(f) + LISTEN_WINDOW
      BY <2>4 DEF Needed
    <3>2. Spare(f2) = 0 /\ Spare(f) = LISTEN_PERIOD_ACTIVE + LISTEN_WINDOW
      BY <2>4 DEF Spare, Iteration
    <3> QED BY <2>2, <3>1, <3>2, ConstantTypes
  <2> QED BY <2>3, <2>4
<1>3. LastRepeat(dg, c2) = LastRepeat(dg, c)
  BY DEF LastRepeat
<1>4. /\ Needed(hd, dg, f) \in Nat /\ Needed(hd2, dg, f2) \in Nat
      /\ LastRepeat(dg, c) \in Int
  <2>1. hd.timer \in Nat /\ hd2.timer \in Nat /\ c.beacons \in Nat
    BY DEF HeadRecs, Commands
  <2>2. LastRepeat(dg, c) \in Int
    BY <1>1, <2>1, ConstantTypes DEF LastRepeat
  <2> QED BY <1>1, <2>1, <2>2, LessNeeded
<1>5. Needed(hd2, dg, f2) <= LastRepeat(dg, c2)
  <2>1. Needed(hd, dg, f) <= LastRepeat(dg, c)
    BY DEF InTime
  <2> QED BY <1>2, <1>3, <1>4, <2>1
<1> QED BY <1>5 DEF InTime

\* A command that is new has all its repeats.
LEMMA InTimeIssued ==
  ASSUME Margin, NEW n \in Nat, NEW c \in Commands,
         NEW hd \in HeadRecs, NEW dg \in DongleRecs, NEW f \in Nat,
         Timed(hd), hd.state = ACTIVE, dg.on, dg.pending = n,
         dg.left = BEACON_CMD_REPEATS, c.beacons = 0
  PROVE  InTime(n, c, hd, dg, f)
<1> DEFINE last == (BEACON_CMD_REPEATS - 1) * BEACON_PERIOD
<1>1. /\ hd.timer \in Nat /\ dg.timer \in Nat /\ hd.pc \in {"sleep", "listen"}
      /\ last \in Int
  BY ConstantTypes DEF HeadRecs, DongleRecs
<1>2. last >= 2 * Iteration /\ Iteration \in Nat /\ Iteration > 0
  BY ConstantTypes DEF Margin, Iteration
<1>3. BEACON_CMD_REPEATS > 0
  <2>1. \A k, p, m \in Nat : m > 0 /\ (k - 1) * p >= 2 * m => k > 0
    OBVIOUS
  <2> QED BY <1>2, <2>1, ConstantTypes
<1>4. LastRepeat(dg, c) = dg.timer + last
  <2>1. BEACON_CMD_REPEATS - c.beacons - 1 = BEACON_CMD_REPEATS - 1
    BY ConstantTypes
  <2> QED BY <2>1 DEF LastRepeat
<1>5. Needed(hd, dg, f) <= dg.timer + 2 * Iteration
  BY <1>1, ConstantTypes DEF Needed, Spare, Iteration, Timed, Period
<1>6. Needed(hd, dg, f) \in Nat
  BY <1>1, LessNeeded
<1>7. Needed(hd, dg, f) <= LastRepeat(dg, c)
  <2> HIDE DEF last
  <2> QED BY <1>1, <1>2, <1>4, <1>5, <1>6
<1>8. c.beacons < BEACON_CMD_REPEATS /\ dg.left = BEACON_CMD_REPEATS - c.beacons
  BY <1>3, ConstantTypes
<1> QED BY <1>7, <1>8 DEF InTime

-----------------------------------------------------------------------------
(* A command that is awaited after a step was awaited before it, and what  *)
(* the step did to its head and to its dongle was in time.                 *)

Ready(n) ==
  InTime(n, issued[n], head[issued[n].target], dongle[issued[n].dongle], faults)

LEMMA AwaitedBefore ==
  ASSUME TypeOK, Len(issued') \in Nat, Len(issued) <= Len(issued'),
         \A m \in 1 .. Len(issued) : Kept(issued[m], issued'[m]),
         faults' \in Nat, faults <= faults',
         NEW n \in 1 .. Len(issued), Awaits(n, issued', head', faults'),
         Has(head[issued[n].target], n) => Has(head'[issued[n].target], n)
  PROVE  Awaits(n, issued, head, faults)
<1>1. Len(issued) \in Nat /\ faults \in Nat
  BY IssuedIs DEF TypeOK
<1>2. 1 .. Len(issued) \subseteq 1 .. Len(issued')
  BY <1>1
<1>3. \A m \in 1 .. Len(issued) : m > n => issued[m].dongle # issued[n].dongle
  BY <1>2, Zenon DEF Awaits, Kept
<1>4. issued[n].fair /\ ~Has(head[issued[n].target], n)
  BY Zenon DEF Awaits, Kept
<1>5. faults <= 1
  BY <1>1 DEF Awaits
<1> QED BY <1>3, <1>4, <1>5 DEF Awaits

\* What a command is, and the head and dongle it is about.
LEMMA CommandIs ==
  ASSUME TypeOK, NEW n \in 1 .. Len(issued)
  PROVE  /\ n \in Nat /\ n # NoCommand /\ n \in DOMAIN issued
         /\ issued[n] \in Commands
         /\ issued[n].target \in Heads /\ issued[n].dongle \in Dongles
         /\ issued[n].beacons \in Nat
<1>1. issued[n] \in Commands /\ n \in Nat /\ n >= 1 /\ n \in DOMAIN issued
  BY IssuedIs
<1> QED BY <1>1 DEF Commands, NoCommand

LEMMA HasKept ==
  ASSUME NEW n \in Nat, NEW hd \in HeadRecs, NEW hd2,
         hd2.executed = hd.executed, NEW m \in Nat,
         hd2.queue = hd.queue \/ hd2.queue = Append(hd.queue, m)
  PROVE  Has(hd, n) => Has(hd2, n)
<1>1. CASE hd2.queue = hd.queue
  BY <1>1 DEF Has
<1>2. CASE hd2.queue = Append(hd.queue, m)
  <2>1. hd.queue \in Seq(Nat) /\ Len(hd.queue) \in Nat
    BY LenProperties DEF HeadRecs
  <2>2. /\ Len(hd2.queue) = Len(hd.queue) + 1
        /\ \A i \in 1 .. Len(hd.queue) : hd2.queue[i] = hd.queue[i]
    BY <1>2, <2>1, AppendProperties
  <2>3. 1 .. Len(hd.queue) \subseteq 1 .. Len(hd2.queue)
    BY <2>1, <2>2
  <2> QED BY <2>2, <2>3, Zenon DEF Has
<1> QED BY <1>1, <1>2

\* A head that drains its queue has executed what it held.
LEMMA HasDrained ==
  ASSUME TypeOK, NEW h \in Heads, Iterate(h), NEW n \in 1 .. Len(issued),
         Has(head[issued[n].target], n)
  PROVE  Has(head'[issued[n].target], n)
<1>1. CASE issued[n].target # h
  BY <1>1, IterateIs, CommandIs
<1>2. CASE issued[n].target = h
  <2>1. head'[h].executed = head[h].executed
                            \cup {head[h].queue[i] : i \in Mine(h, head[h].queue)}
    BY IterateIs
  <2>2. CASE n \in head[h].executed
    BY <1>2, <2>1, <2>2 DEF Has
  <2>3. ASSUME NEW i \in 1 .. Len(head[h].queue), head[h].queue[i] = n
        PROVE  n \in head'[h].executed
    <3>1. i \in DOMAIN head[h].queue
      BY HeadIs, LenProperties
    <3>2. i \in Mine(h, head[h].queue)
      BY <1>2, <2>3, <3>1, CommandIs DEF Mine
    <3> QED BY <2>1, <2>3, <3>2
  <2> QED BY <1>2, <2>2, <2>3 DEF Has
<1> QED BY <1>1, <1>2

LEMMA IteratedInTime ==
  ASSUME IInv, JInv, NEW h \in Heads, Iterate(h), UNCHANGED dongle,
         head[h].timer = 0,
         \/ head[h].pc = "listen" /\ faults' = faults
         \/ head[h].pc = "sleep" /\ faults' = faults + 1,
         NEW n \in 1 .. Len(issued), Awaits(n, issued', head', faults')
  PROVE  Ready(n)'
<1> DEFINE t == issued[n].target
<1>1. TypeOK /\ SameCommands /\ faults \in Nat /\ Len(issued) \in Nat
  BY IterateIs, IssuedIs DEF IInv, TypeOK
<1>2. faults' \in Nat /\ faults <= faults'
  BY <1>1
<1>3. /\ Len(issued') = Len(issued) /\ Kept(issued[n], issued'[n])
      /\ \A m \in 1 .. Len(issued) : Kept(issued[m], issued'[m])
      /\ issued'[n].beacons = issued[n].beacons /\ issued'[n] \in Commands
  BY <1>1, IterateIs, ElementOfSeq DEF SameCommands
<1>4. Awaits(n, issued, head, faults)
  BY <1>1, <1>2, <1>3, HasDrained, AwaitedBefore
<1>5. InTime(n, issued[n], head[t], dongle[issued[n].dongle], faults)
  BY <1>4 DEF JInv
<1>6. /\ n \in Nat /\ issued[n] \in Commands /\ t \in Heads
      /\ head[t] \in HeadRecs /\ head'[t] \in HeadRecs
      /\ dongle[issued[n].dongle] \in DongleRecs
  BY <1>1, CommandIs, IterateIs, HeadIs, DongleIs
<1>7. issued'[n].target = t /\ issued'[n].dongle = issued[n].dongle
  BY <1>3 DEF Kept
<1>8. InTime(n, issued'[n], head'[t], dongle[issued[n].dongle], faults')
  <2>1. CASE t # h
    <3>1. head'[t] = head[t]
      BY <1>1, <1>6, <2>1, IterateIs
    <3> QED BY <1>1, <1>2, <1>3, <1>5, <1>6, <3>1, InTimeKept
  <2>2. CASE t = h
    <3>1. /\ head'[t].pc = "sleep" /\ head'[t].timer = Period(head'[t].state)
          /\ head'[t].state = ACTIVE
      BY <1>1, <2>2, IterateIs DEF Awaits
    <3>2. head[t].pc = "sleep" => faults = 0 /\ faults' = 1
      BY <1>1, <2>2 DEF Awaits
    <3> QED BY <1>1, <1>2, <1>3, <1>5, <1>6, <2>2, <3>1, <3>2, InTimeIterated
  <2> QED BY <2>1, <2>2
<1> QED BY <1>7, <1>8 DEF Ready

LEMMA BeaconInTime ==
  ASSUME Room, IInv, JInv, NEW d \in Dongles, BeaconWork(d),
         NEW n \in 1 .. Len(issued), Awaits(n, issued', head', faults')
  PROVE  Ready(n)'
<1> DEFINE t == issued[n].target
           e == issued[n].dongle
<1>1. /\ TypeOK /\ SameCommands /\ Len(issued) \in Nat /\ faults \in Nat
      /\ faults' \in Nat /\ faults <= faults'
  BY BeaconIs, IssuedIs DEF IInv, TypeOK
<1>2. /\ Len(issued') = Len(issued) /\ Kept(issued[n], issued'[n])
      /\ \A m \in 1 .. Len(issued) : Kept(issued[m], issued'[m])
      /\ issued'[n] \in Commands
  BY <1>1, ElementOfSeq DEF SameCommands
<1>3. /\ n \in Nat /\ n # NoCommand /\ issued[n] \in Commands /\ t \in Heads /\ e \in Dongles
      /\ head[t] \in HeadRecs /\ head'[t] \in HeadRecs
      /\ dongle[e] \in DongleRecs /\ dongle'[e] \in DongleRecs
  BY <1>1, CommandIs, BeaconIs, HeadIs, DongleIs
<1>4. /\ head'[t].state = head[t].state /\ head'[t].pc = head[t].pc
      /\ head'[t].timer = head[t].timer /\ head'[t].executed = head[t].executed
      /\ \/ head'[t].queue = head[t].queue
         \/ head'[t].queue = Append(head[t].queue, Carried(d))
      /\ /\ faults' = faults /\ head[t].pc = "listen"
         /\ Len(head[t].queue) < BEACONQ_DEPTH
         => head'[t].queue = Append(head[t].queue, Carried(d))
  BY <1>1, <1>3, BeaconIs
<1>5. Carried(d) \in Nat
  BY <1>1, DongleIs DEF Carried, NoCommand
<1>6. Has(head[t], n) => Has(head'[t], n)
  BY <1>3, <1>4, <1>5, HasKept
<1>7. Awaits(n, issued, head, faults)
  BY <1>1, <1>2, <1>6, AwaitedBefore
<1>8. InTime(n, issued[n], head[t], dongle[e], faults)
  BY <1>7 DEF JInv
<1>9. issued'[n].target = t /\ issued'[n].dongle = e
  BY <1>2 DEF Kept
<1>10. CASE e # d
  <2>1. dongle'[e] = dongle[e] /\ issued'[n].beacons = issued[n].beacons
    BY <1>1, <1>3, <1>10, BeaconIs
  <2> DEFINE c == issued[n]
             c2 == issued'[n]
             hd == head[t]
             hd2 == head'[t]
             dg == dongle[e]
             f == faults
             f2 == faults'
  <2>2. /\ n \in Nat /\ c \in Commands /\ c2 \in Commands /\ hd \in HeadRecs
        /\ hd2 \in HeadRecs /\ dg \in DongleRecs /\ f \in Nat /\ f2 \in Nat
        /\ InTime(n, c, hd, dg, f) /\ f <= f2 /\ c2.beacons = c.beacons
        /\ hd2.state = hd.state /\ hd2.pc = hd.pc /\ hd2.timer = hd.timer
    BY <1>1, <1>2, <1>3, <1>4, <1>8, <2>1
  <2> HIDE DEF c, c2, hd, hd2, dg, f, f2
  <2>3. InTime(n, c2, hd2, dg, f2)
    BY <2>2, InTimeKept
  <2> QED BY <1>9, <2>1, <2>3 DEF Ready, c2, hd2, dg, f2
<1>11. CASE e = d
  <2>1. /\ dongle[d].on /\ dongle[d].timer = 0
        /\ dongle[d].pending = n
        /\ issued[n].beacons < BEACON_CMD_REPEATS
        /\ dongle[d].left = BEACON_CMD_REPEATS - issued[n].beacons
    BY <1>8, <1>11 DEF BeaconWork, InTime
  <2>2. /\ dongle'[d].on = dongle[d].on /\ dongle'[d].pending = dongle[d].pending
        /\ dongle'[d].timer = BEACON_PERIOD
        /\ dongle'[d].left = IF dongle[d].left > 0 THEN dongle[d].left - 1 ELSE 0
        /\ issued'[n].beacons = issued[n].beacons + 1
    <3>1. /\ dongle'[d].on = dongle[d].on /\ dongle'[d].pending = dongle[d].pending
          /\ dongle'[d].timer = BEACON_PERIOD
          /\ dongle'[d].left = IF dongle[d].left > 0 THEN dongle[d].left - 1 ELSE 0
      BY <1>1, BeaconIs
    <3>2. \A m \in 1 .. Len(issued) :
            issued'[m].beacons =
              IF issued[m].dongle = d /\ issued[m].beacons < BEACON_CMD_REPEATS
              THEN issued[m].beacons + 1 ELSE issued[m].beacons
      BY <1>1, BeaconIs
    <3> QED BY <1>11, <2>1, <3>1, <3>2
  <2>3. Carried(d) = n
    <3>1. issued[n].beacons \in Nat
      BY <1>1, CommandIs
    <3>2. dongle[d].left > 0
      BY <2>1, <3>1, ConstantTypes
    <3> QED BY <2>1, <3>2 DEF Carried
  <2>4. head[t].pc = "sleep" \/ (faults = 0 /\ faults' = 1)
    <3> SUFFICES ASSUME head[t].pc # "sleep", ~(faults = 0 /\ faults' = 1) PROVE FALSE
      OBVIOUS
    <3>1. head[t].pc = "listen"
      BY <1>1, <1>3, HeadIs
    <3>2. faults' = faults
      BY <1>1 DEF Awaits
    <3>3. Len(head[t].queue) < BEACONQ_DEPTH
      <4>1. Roomy(head[t], dongle) /\ Timed(head[t])
        BY <1>3 DEF JInv, IInv, Presence
      <4>2. \/ head'[t].queue = head[t].queue
            \/ head'[t].queue = Append(head[t].queue, Carried(d))
        BY <1>4
      <4>3. Len(head'[t].queue) <= Len(head[t].queue) + 1
        <5> DEFINE q == head[t].queue
                   x == Carried(d)
        <5> HIDE DEF q, x
        <5>1. q \in Seq(Nat) /\ x \in Nat /\ Len(q) \in Nat
          BY <1>1, <1>3, <1>5, HeadIs DEF q, x
        <5>2. Len(Append(q, x)) = Len(q) + 1
          BY <5>1, AppendProperties
        <5> QED BY <4>2, <5>1, <5>2 DEF q, x
      <4>4. /\ dongle \in [Dongles -> DongleRecs] /\ dongle' \in [Dongles -> DongleRecs]
            /\ \A x \in Dongles : x # d => dongle'[x] = dongle[x]
        BY <1>1, BeaconIs DEF TypeOK
      <4> DEFINE hd == head[t]
                 hd2 == head'[t]
                 dgs == dongle
                 dgs2 == dongle'
      <4>5. /\ hd \in HeadRecs /\ hd2 \in HeadRecs
            /\ Roomy(hd, dgs) /\ Timed(hd) /\ hd.pc = "listen"
            /\ hd2.pc = hd.pc /\ hd2.timer = hd.timer
            /\ Len(hd2.queue) <= Len(hd.queue) + 1
        BY <1>3, <1>4, <3>1, <4>1, <4>3
      <4>6. /\ dgs \in [Dongles -> DongleRecs] /\ dgs2 \in [Dongles -> DongleRecs]
            /\ dgs[d].on /\ dgs[d].timer = 0 /\ dgs2[d].timer = BEACON_PERIOD
            /\ \A x \in Dongles : x # d => dgs2[x] = dgs[x]
        BY <2>1, <2>2, <4>4
      <4> HIDE DEF Room, hd, hd2, dgs, dgs2
      <4>7. Len(hd.queue) < BEACONQ_DEPTH
        BY <4>5, <4>6, RoomyHeard
      <4> QED BY <4>7 DEF hd
    <3>4. head'[t].queue = Append(head[t].queue, n)
      BY <1>4, <2>3, <3>1, <3>2, <3>3
    <3>5. /\ head[t].queue \in Seq(Nat) /\ Len(head[t].queue) \in Nat
      BY <1>1, <1>3, HeadIs
    <3>6. /\ Len(head'[t].queue) = Len(head[t].queue) + 1
          /\ head'[t].queue[Len(head[t].queue) + 1] = n
      <4> DEFINE q == head[t].queue
      <4> HIDE DEF q
      <4>1. q \in Seq(Nat) /\ n \in Nat
        BY <1>3, <3>5 DEF q
      <4>2. Len(Append(q, n)) = Len(q) + 1 /\ Append(q, n)[Len(q) + 1] = n
        BY <4>1, AppendProperties
      <4> QED BY <3>4, <4>2 DEF q
    <3>7. Has(head'[t], n)
      <4>1. Len(head[t].queue) + 1 \in 1 .. Len(head'[t].queue)
        BY <3>5, <3>6
      <4> QED BY <3>6, <4>1 DEF Has
    <3> QED BY <1>9, <3>7 DEF Awaits
  <2> DEFINE c == issued[n]
             c2 == issued'[n]
             hd == head[t]
             hd2 == head'[t]
             dg == dongle[d]
             dg2 == dongle'[d]
             f == faults
             f2 == faults'
  <2>5. /\ n \in Nat /\ c \in Commands /\ c2 \in Commands /\ hd \in HeadRecs
        /\ hd2 \in HeadRecs /\ dg \in DongleRecs /\ dg2 \in DongleRecs
        /\ f \in Nat /\ f2 \in Nat
        /\ InTime(n, c, hd, dg, f) /\ f <= f2 /\ dg.timer = 0
        /\ hd2.state = hd.state /\ hd2.pc = hd.pc /\ hd2.timer = hd.timer
        /\ hd.pc = "sleep" \/ (f = 0 /\ f2 = 1)
        /\ dg2.on = dg.on /\ dg2.pending = dg.pending /\ dg2.timer = BEACON_PERIOD
        /\ dg2.left = IF dg.left > 0 THEN dg.left - 1 ELSE 0
        /\ c2.beacons = c.beacons + 1
    BY <1>1, <1>2, <1>3, <1>4, <1>8, <1>11, <2>1, <2>2, <2>4, Zenon
  <2> HIDE DEF c, c2, hd, hd2, dg, dg2, f, f2
  <2>6. InTime(n, c2, hd2, dg2, f2)
    BY <2>5, InTimeMissed
  <2> QED BY <1>9, <1>11, <2>6 DEF Ready, c2, hd2, dg2, f2
<1> QED BY <1>10, <1>11

\* A step that leaves a command, its head and its dongle alone.
LEMMA SameInTime ==
  ASSUME IInv, JInv, TypeOK', Len(issued) <= Len(issued'),
         \A m \in 1 .. Len(issued) : Kept(issued[m], issued'[m]),
         faults' = faults,
         NEW n \in 1 .. Len(issued), Awaits(n, issued', head', faults'),
         issued'[n].beacons = issued[n].beacons,
         LET t == issued[n].target
         IN /\ head'[t].state = head[t].state /\ head'[t].pc = head[t].pc
            /\ head'[t].timer = head[t].timer
            /\ head'[t].queue = head[t].queue /\ head'[t].executed = head[t].executed,
         dongle'[issued[n].dongle] = dongle[issued[n].dongle]
  PROVE  Ready(n)'
<1> DEFINE t == issued[n].target
           e == issued[n].dongle
<1>1. TypeOK /\ Len(issued) \in Nat /\ faults \in Nat /\ Len(issued') \in Nat
  BY IssuedIs, LenProperties DEF IInv, TypeOK
<1>2. n \in 1 .. Len(issued') /\ issued'[n] \in Commands /\ Kept(issued[n], issued'[n])
  BY <1>1, ElementOfSeq DEF TypeOK
<1>3. /\ n \in Nat /\ issued[n] \in Commands /\ t \in Heads /\ e \in Dongles
      /\ head[t] \in HeadRecs /\ dongle[e] \in DongleRecs
  BY <1>1, CommandIs, HeadIs, DongleIs
<1>4. head'[t] \in HeadRecs
  BY <1>3 DEF TypeOK
<1>5. Has(head[t], n) => Has(head'[t], n)
  BY DEF Has
<1>6. faults' \in Nat /\ faults <= faults'
  BY <1>1
<1>7. Awaits(n, issued, head, faults)
  BY <1>1, <1>5, <1>6, AwaitedBefore
<1>8. InTime(n, issued[n], head[t], dongle[e], faults)
  BY <1>7 DEF JInv
<1>9. InTime(n, issued'[n], head'[t], dongle[e], faults)
  <2> DEFINE c == issued[n]
             c2 == issued'[n]
             hd == head[t]
             hd2 == head'[t]
             dg == dongle[e]
             f == faults
  <2>1. /\ n \in Nat /\ c \in Commands /\ c2 \in Commands /\ hd \in HeadRecs
        /\ hd2 \in HeadRecs /\ dg \in DongleRecs /\ f \in Nat /\ f <= f
        /\ InTime(n, c, hd, dg, f) /\ c2.beacons = c.beacons
        /\ hd2.state = hd.state /\ hd2.pc = hd.pc /\ hd2.timer = hd.timer
    BY <1>1, <1>2, <1>3, <1>4, <1>8
  <2> HIDE DEF c, c2, hd, hd2, dg, f
  <2>2. InTime(n, c2, hd2, dg, f)
    BY <2>1, InTimeKept
  <2> QED BY <2>2 DEF c2, hd2, dg, f
<1>10. issued'[n].target = t /\ issued'[n].dongle = e
  BY <1>2 DEF Kept
<1> QED BY <1>9, <1>10 DEF Ready

LEMMA OpenInTime ==
  ASSUME IInv, JInv, NEW h \in Heads, ListenOpen(h),
         NEW n \in 1 .. Len(issued), Awaits(n, issued', head', faults')
  PROVE  Ready(n)'
<1> DEFINE t == issued[n].target
           e == issued[n].dongle
<1>1. /\ TypeOK /\ UNCHANGED <<dongle, issued, faults>> /\ faults \in Nat
      /\ Len(issued) \in Nat
  BY OpenIs, IssuedIs DEF IInv, TypeOK
<1>2. /\ n \in Nat /\ issued[n] \in Commands /\ t \in Heads /\ e \in Dongles
      /\ head[t] \in HeadRecs /\ head'[t] \in HeadRecs /\ dongle[e] \in DongleRecs
  BY <1>1, CommandIs, OpenIs, HeadIs, DongleIs
<1>3. head'[t].executed = head[t].executed /\ head'[t].queue = head[t].queue
  BY <1>1, <1>2, OpenIs
<1>4. Awaits(n, issued, head, faults)
  BY <1>1, <1>3 DEF Awaits, Has
<1>5. InTime(n, issued[n], head[t], dongle[e], faults)
  BY <1>4 DEF JInv
<1>6. InTime(n, issued[n], head'[t], dongle[e], faults)
  <2>1. CASE t # h
    BY <1>1, <1>2, <1>5, <2>1, OpenIs
  <2>2. CASE t = h
    <3>1. head[t].pc = "sleep" /\ head[t].timer = 0
      BY <2>2 DEF ListenOpen
    <3>2. /\ head'[t].state = head[t].state
          /\ head'[t].pc = "listen" /\ head'[t].timer = LISTEN_WINDOW
      BY <1>1, <2>2, OpenIs
    <3> QED BY <1>1, <1>2, <1>5, <3>1, <3>2, InTimeOpened
  <2> QED BY <2>1, <2>2
<1> QED BY <1>1, <1>6 DEF Ready

LEMMA TickInTime ==
  ASSUME IInv, JInv, Tick,
         NEW n \in 1 .. Len(issued), Awaits(n, issued', head', faults')
  PROVE  Ready(n)'
<1> DEFINE t == issued[n].target
           e == issued[n].dongle
<1>1. /\ TypeOK /\ UNCHANGED <<issued, faults>> /\ faults \in Nat
  BY TickIs DEF IInv, TypeOK
<1>2. /\ n \in Nat /\ issued[n] \in Commands /\ t \in Heads /\ e \in Dongles
      /\ head[t] \in HeadRecs /\ head'[t] \in HeadRecs
      /\ dongle[e] \in DongleRecs /\ dongle'[e] \in DongleRecs
  BY <1>1, CommandIs, TickIs, HeadIs, DongleIs
<1>3. /\ head'[t].state = head[t].state /\ head'[t].pc = head[t].pc
      /\ head'[t].queue = head[t].queue /\ head'[t].executed = head[t].executed
      /\ head'[t].timer = head[t].timer - 1
  BY <1>1, <1>2, TickIs
<1>4. Awaits(n, issued, head, faults)
  BY <1>1, <1>3 DEF Awaits, Has
<1>5. InTime(n, issued[n], head[t], dongle[e], faults)
  BY <1>4 DEF JInv
<1>6. /\ dongle'[e].on = dongle[e].on /\ dongle'[e].pending = dongle[e].pending
      /\ dongle'[e].left = dongle[e].left /\ dongle'[e].timer = dongle[e].timer - 1
  BY <1>1, <1>2, <1>5, TickIs DEF InTime
<1>7. InTime(n, issued[n], head'[t], dongle'[e], faults)
  BY <1>1, <1>2, <1>3, <1>5, <1>6, InTimeTick
<1> QED BY <1>1, <1>7 DEF Ready

LEMMA IssueInTime ==
  ASSUME Margin, IInv, JInv, TypeOK', NEW d \in Dongles, NEW h \in Heads, Issue(d, h),
         NEW n \in 1 .. Len(issued'), Awaits(n, issued', head', faults')
  PROVE  Ready(n)'
<1> DEFINE new == Len(issued) + 1
<1>1. /\ TypeOK /\ Len(issued) \in Nat /\ faults \in Nat
  BY IssuedIs DEF IInv, TypeOK
<1>2. /\ \A e \in Dongles : e # d => dongle'[e] = dongle[e]
      /\ dongle'[d].on = dongle[d].on /\ dongle'[d].pending = new
      /\ dongle'[d] \in DongleRecs
      /\ Len(issued') = new /\ issued'[new].dongle = d
      /\ \A m \in 1 .. Len(issued) : issued'[m] = issued[m]
      /\ UNCHANGED <<head, faults>>
      /\ dongle[d].on /\ dongle'[d].left = BEACON_CMD_REPEATS
      /\ issued'[new].target = h /\ issued'[new].beacons = 0
      /\ issued'[new].fair => head[h].state = ACTIVE
  BY <1>1, IssueIs
<1>3. CASE n = new
  <2>1. issued'[n] \in Commands /\ n \in Nat /\ head[h] \in HeadRecs /\ Timed(head[h])
    BY <1>1, <1>2, <1>3, ElementOfSeq, HeadIs DEF TypeOK, IInv, Presence
  <2>2. issued'[n].fair
    BY DEF Awaits
  <2>3. InTime(n, issued'[n], head[h], dongle'[d], faults)
    BY <1>1, <1>2, <1>3, <2>1, <2>2, InTimeIssued
  <2> QED BY <1>2, <1>3, <2>3 DEF Ready
<1>4. CASE n # new
  <2>1. n \in 1 .. Len(issued) /\ n < new /\ new \in 1 .. Len(issued')
    BY <1>1, <1>2, <1>4
  <2>2. issued'[n].dongle # d
    BY <1>2, <2>1, Zenon DEF Awaits
  <2>3. dongle'[issued[n].dongle] = dongle[issued[n].dongle]
    BY <1>1, <1>2, <2>1, <2>2, CommandIs
  <2>4. \A m \in 1 .. Len(issued) : Kept(issued[m], issued'[m])
    BY <1>2 DEF Kept
  <2>5. Len(issued) <= Len(issued')
    BY <1>1, <1>2
  <2> QED BY <1>2, <2>1, <2>3, <2>4, <2>5, SameInTime
<1> QED BY <1>3, <1>4

LEMMA SwitchInTime ==
  ASSUME IInv, JInv, TypeOK', NEW d \in Dongles, DongleOn(d) \/ DongleOff(d),
         NEW n \in 1 .. Len(issued), Awaits(n, issued', head', faults')
  PROVE  Ready(n)'
<1>1. TypeOK /\ Len(issued) \in Nat
  BY IssuedIs DEF IInv
<1>2. /\ \A e \in Dongles : e # d => dongle'[e] = dongle[e]
      /\ UNCHANGED <<head, faults>> /\ SameCommands
      /\ issued'[n].beacons = issued[n].beacons
      /\ issued'[n].fair /\ dongle[d].on => issued[n].dongle # d
  BY <1>1, SwitchIs
<1>3. /\ Len(issued') = Len(issued) /\ Kept(issued[n], issued'[n])
      /\ \A m \in 1 .. Len(issued) : Kept(issued[m], issued'[m])
  BY <1>2 DEF SameCommands
<1>4. issued[n].dongle # d
  <2>1. Awaits(n, issued, head, faults)
    <3>1. Has(head[issued[n].target], n) => Has(head'[issued[n].target], n)
      BY <1>2
    <3>2. faults' \in Nat /\ faults <= faults' /\ Len(issued') \in Nat
          /\ Len(issued) <= Len(issued')
      BY <1>1, <1>2, <1>3 DEF TypeOK
    <3> QED BY <1>1, <1>3, <3>1, <3>2, AwaitedBefore
  <2>2. dongle[issued[n].dongle].on
    BY <2>1 DEF JInv, InTime
  <2>3. issued'[n].fair
    BY DEF Awaits
  <2> QED BY <1>2, <2>2, <2>3
<1>5. dongle'[issued[n].dongle] = dongle[issued[n].dongle]
  BY <1>1, <1>2, <1>4, CommandIs
<1>6. Len(issued) <= Len(issued')
  BY <1>1, <1>3
<1> QED BY <1>2, <1>3, <1>5, <1>6, SameInTime

LEMMA CycleInTime ==
  ASSUME IInv, JInv, TypeOK', NEW h \in Heads, HeadCycle(h),
         NEW n \in 1 .. Len(issued), Awaits(n, issued', head', faults')
  PROVE  Ready(n)'
<1>1. TypeOK /\ Len(issued) \in Nat /\ head \in [Heads -> HeadRecs]
  BY IssuedIs DEF IInv, TypeOK
<1>2. /\ head' = [head EXCEPT ![h] = BootedHead]
      /\ UNCHANGED <<dongle, faults>> /\ SameCommands
      /\ issued'[n].beacons = issued[n].beacons
      /\ issued'[n].fair => issued[n].target # h
  BY <1>1, CycleIs
<1>3. /\ Len(issued') = Len(issued)
      /\ \A m \in 1 .. Len(issued) : Kept(issued[m], issued'[m])
  BY <1>2 DEF SameCommands
<1>4. issued[n].target # h
  BY <1>2 DEF Awaits
<1>5. head'[issued[n].target] = head[issued[n].target]
  BY <1>1, <1>2, <1>4, CommandIs
<1>6. Len(issued) <= Len(issued')
  BY <1>1, <1>3
<1> QED BY <1>2, <1>3, <1>5, <1>6, SameInTime

LEMMA DeliveryStep ==
  ASSUME Room, Margin, IInv, JInv, [Next]_vars,
         NEW n \in 1 .. Len(issued'), Awaits(n, issued', head', faults')
  PROVE  Ready(n)'
<1>1. TypeOK /\ TypeOK'
  BY StepTypes DEF IInv
<1>2. SameCommands => n \in 1 .. Len(issued)
  BY DEF SameCommands
<1> HIDE DEF Room, Margin, IInv, JInv
<1>3. ASSUME NEW d \in Dongles, BeaconWork(d) PROVE Ready(n)'
  BY <1>1, <1>2, <1>3, BeaconIs, BeaconInTime
<1>4. ASSUME NEW h \in Heads, ListenOpen(h) PROVE Ready(n)'
  BY <1>1, <1>4, OpenIs, OpenInTime
<1>5. ASSUME NEW h \in Heads, ListenFail(h) \/ ListenClose(h) PROVE Ready(n)'
  <2>1. /\ Iterate(h) /\ UNCHANGED dongle /\ head[h].timer = 0
        /\ \/ head[h].pc = "listen" /\ faults' = faults
           \/ head[h].pc = "sleep" /\ faults' = faults + 1
    BY <1>5 DEF ListenFail, ListenClose
  <2>2. SameCommands
    BY <1>1, <2>1, IterateIs
  <2> QED BY <1>2, <2>1, <2>2, IteratedInTime
<1>6. CASE Tick
  BY <1>1, <1>6, TickIs, TickInTime
<1>7. ASSUME NEW d \in Dongles, DongleOn(d) \/ DongleOff(d) PROVE Ready(n)'
  BY <1>1, <1>2, <1>7, SwitchIs, SwitchInTime
<1>8. ASSUME NEW d \in Dongles, NEW h \in Heads, Issue(d, h) PROVE Ready(n)'
  BY <1>1, <1>8, IssueInTime
<1>9. ASSUME NEW h \in Heads, HeadCycle(h) PROVE Ready(n)'
  BY <1>1, <1>2, <1>9, CycleIs, CycleInTime
<1>10. CASE UNCHANGED vars
  BY <1>10 DEF vars, Awaits, Ready, JInv
<1> QED BY <1>3, <1>4, <1>5, <1>6, <1>7, <1>8, <1>9, <1>10 DEF Next, Step

LEMMA InitJInv == Init => JInv
<1> SUFFICES ASSUME Init PROVE JInv
  OBVIOUS
<1>1. \A h \in Heads : head[h] = BootedHead
  BY DEF Init
<1>2. \A h \in Heads : Roomy(head[h], dongle)
  BY <1>1, BootedIs DEF Roomy
<1>3. Len(issued) = 0
  BY EmptySeq DEF Init
<1> QED BY <1>2, <1>3 DEF JInv

(* Margin: the repeats of a command outlast two iterations of the active   *)
(* loop.  Room: a window hears each dongle at most twice, and the queue of *)
(* a head holds that.  Under both, whatever single fault occurs, a command *)
(* that was not displaced is with its head when its repeats are spent, for *)
(* any number of heads, commands and power cycles.                         *)
THEOREM DeliveryInTime ==
  ASSUME Room, Margin
  PROVE  Spec => []CommandDelivered
<1>1. IInv /\ JInv /\ [Next]_vars => JInv'
  <2> SUFFICES ASSUME IInv, JInv, [Next]_vars PROVE JInv'
    OBVIOUS
  <2>1. \A h \in Heads : Roomy(head'[h], dongle')
    BY RoomyStep
  <2>2. \A n \in 1 .. Len(issued') : Awaits(n, issued', head', faults') => Ready(n)'
    BY DeliveryStep
  <2> QED BY <2>1, <2>2 DEF JInv, Ready
<1>2. IInv /\ JInv => CommandDelivered
  <2> SUFFICES ASSUME IInv, JInv, NEW n \in DOMAIN issued,
                      Expired(n), issued[n].fair, faults <= 1, ~Displaced(n)
               PROVE  Reached(n)
    BY DEF CommandDelivered
  <2> DEFINE t == issued[n].target
  <2>1. TypeOK /\ DOMAIN issued = 1 .. Len(issued) /\ n \in 1 .. Len(issued)
    BY IssuedIs DEF IInv
  <2>2. ~Awaits(n, issued, head, faults)
    <3> SUFFICES ASSUME Awaits(n, issued, head, faults) PROVE FALSE
      OBVIOUS
    <3>1. issued[n].beacons < BEACON_CMD_REPEATS
      BY <2>1 DEF JInv, InTime
    <3> QED BY <3>1, ConstantTypes DEF Expired
  <2>3. Has(head[t], n)
    BY <2>1, <2>2 DEF Awaits, Displaced
  <2>4. n \in ToSet(head[t].queue) <=>
          \E i \in 1 .. Len(head[t].queue) : head[t].queue[i] = n
    <3>1. DOMAIN head[t].queue = 1 .. Len(head[t].queue)
      BY <2>1, CommandIs, HeadIs, LenProperties
    <3> QED BY <3>1 DEF ToSet
  <2> QED BY <2>3, <2>4 DEF Has, Reached
<1> QED BY <1>1, <1>2, InitJInv, InitIInv, NextIInv, PTL DEF Spec
=============================================================================
