------------------------------- MODULE Fabric -------------------------------
(***************************************************************************)
(* The downlink of the radio fabric: presence beacons and the commands they*)
(* carry.  A dongle (firmware/app_dongle/src/radio.c) emits a beacon every *)
(* HTK_BEACON_PERIOD_MS and puts its one pending command in the next       *)
(* HTK_BEACON_CMD_REPEATS of them; the control loop of a head              *)
(* (firmware/app_head/src/main.c) sleeps, listens for one window, drains   *)
(* the beacons it queued, and moves between ACTIVE and STANDBY.            *)
(*                                                                         *)
(* Timers are countdowns and silences saturate, so a behaviour can go on   *)
(* for ever in finitely many states; time passes (Tick) only when nothing  *)
(* is due.  Within an instant the order of events is free.  A command is   *)
(* its issue number: two commands never carry the same setting, and what a *)
(* head is set to is the number of the last command it executed.           *)
(***************************************************************************)
EXTENDS Integers, Sequences, FiniteSets, SequencesExt

CONSTANTS
  Heads, Dongles,
  BEACON_PERIOD,          \* HTK_BEACON_PERIOD_MS          100
  BEACON_CMD_REPEATS,     \* HTK_BEACON_CMD_REPEATS         30
  LISTEN_WINDOW,          \* HTK_LISTEN_WINDOW_MS          110
  LISTEN_PERIOD_ACTIVE,   \* HTK_LISTEN_PERIOD_ACTIVE_MS  1000
  LISTEN_PERIOD_STANDBY,  \* HTK_LISTEN_PERIOD_STANDBY_MS 5000
  STANDBY_AFTER,          \* HTK_STANDBY_AFTER_MS        15000
  BEACONQ_DEPTH,          \* beacon_q of a head, 8
  MaxCommands,            \* bound on the commands the hosts issue
  MaxFaults,              \* bound on lost beacons and radio failures
  MaxPowerCycles          \* bound on power cycles of dongles and heads

ASSUME TimingAssumption ==
  /\ IsFiniteSet(Heads)
  /\ BEACON_PERIOD \in Nat \ {0}
  /\ LISTEN_WINDOW \in Nat /\ LISTEN_WINDOW > BEACON_PERIOD
  /\ LISTEN_PERIOD_ACTIVE \in Nat \ {0}
  /\ LISTEN_PERIOD_STANDBY \in Nat \ {0}
  /\ STANDBY_AFTER \in Nat \ {0}
  /\ BEACON_CMD_REPEATS \in Nat
  /\ BEACONQ_DEPTH \in Nat \ {0}

VARIABLES
  dongle,    \* per dongle: power, time to the next beacon, pending_cmd
  head,      \* per head: run_state, control loop, beacon_q, settings
  issued,    \* history: the commands issued, in order
  faults,    \* faults so far
  cycles     \* power cycles so far

vars == <<dongle, head, issued, faults, cycles>>

NoCommand == 0
ACTIVE    == "ACTIVE"
STANDBY   == "STANDBY"

Period(state) ==
  IF state = ACTIVE THEN LISTEN_PERIOD_ACTIVE ELSE LISTEN_PERIOD_STANDBY

\* main() starts optimistically: ACTIVE, as if a beacon had just been heard.
BootedHead ==
  [state |-> ACTIVE, pc |-> "sleep", timer |-> LISTEN_PERIOD_ACTIVE,
   silence |-> 0, queue |-> <<>>, setting |-> NoCommand, executed |-> {}]

\* How long a dongle has been on the air, up to what the properties tell apart.
UpCap == STANDBY_AFTER + LISTEN_PERIOD_STANDBY + 2 * LISTEN_WINDOW + 1

OffDongle ==
  [on |-> FALSE, timer |-> 0, up |-> 0, pending |-> NoCommand, left |-> 0]

OnDongle(phase) == [OffDongle EXCEPT !.on = TRUE, !.timer = phase]

Init ==
  /\ dongle \in [Dongles -> {OffDongle}
                             \cup {OnDongle(p) : p \in 1 .. BEACON_PERIOD}]
  /\ head = [h \in Heads |-> BootedHead]
  /\ issued = <<>>
  /\ faults = 0
  /\ cycles = 0

-----------------------------------------------------------------------------
(* Commands: the host's frame reaches dispatch_payload(), which hands it to*)
(* radio_set_pending_cmd().                                                *)

\* Mutant: a command still being repeated is not overwritten.
WithPendingKeep(dg, n) ==
  IF dg.left > 0 THEN dg
  ELSE [dg EXCEPT !.pending = n, !.left = BEACON_CMD_REPEATS]

\* One slot for all targets: the latest command wins and its repeats restart.
WithPending(dg, n) ==
  [dg EXCEPT !.pending = n, !.left = BEACON_CMD_REPEATS]

Issue(d, h) ==
  /\ Len(issued) < MaxCommands
  /\ dongle[d].on
  /\ dongle' = [dongle EXCEPT ![d] = WithPending(@, Len(issued) + 1)]
  /\ issued' = Append(issued, [dongle |-> d, target |-> h, beacons |-> 0,
                               fair |-> head[h].state = ACTIVE])
  /\ UNCHANGED <<head, faults, cycles>>

-----------------------------------------------------------------------------
(* Beacons.                                                                *)

Carried(d) == IF dongle[d].left > 0 THEN dongle[d].pending ELSE NoCommand

Listening == {h \in Heads : head[h].pc = "listen"}

\* esb_handler() of a head: a full beacon_q drops the beacon.
Queued(hd, n) ==
  [hd EXCEPT !.queue = IF Len(@) < BEACONQ_DEPTH THEN Append(@, n) ELSE @]

AfterBeacon(dg) ==
  [dg EXCEPT !.timer = BEACON_PERIOD, !.left = IF @ > 0 THEN @ - 1 ELSE 0]

CountBeacon(d) ==
  issued' = [i \in DOMAIN issued |->
               IF issued[i].dongle = d /\ issued[i].beacons < BEACON_CMD_REPEATS
               THEN [issued[i] EXCEPT !.beacons = @ + 1]
               ELSE issued[i]]

\* beacon_work_fn(): the repeat is spent before the radio is set up, so it is
\* spent even when the setup, the write or the transmission fails (missed is
\* then every head) or the beacon collides on its way to some of them.
BeaconWork(d) ==
  /\ dongle[d].on /\ dongle[d].timer = 0
  /\ \E missed \in SUBSET Listening :
       /\ faults + Cardinality(missed) <= MaxFaults
       /\ faults' = faults + Cardinality(missed)
       /\ head' = [h \in Heads |->
                     IF h \in Listening \ missed
                     THEN Queued(head[h], Carried(d))
                     ELSE head[h]]
  /\ dongle' = [dongle EXCEPT ![d] = AfterBeacon(@)]
  /\ CountBeacon(d)
  /\ UNCHANGED cycles

-----------------------------------------------------------------------------
(* The control loop of a head.                                             *)

\* handle_beacon(): execute a command addressed to this head, skip the rest.
Mine(h, queue) ==
  {i \in DOMAIN queue : queue[i] # NoCommand /\ issued[queue[i]].target = h}

\* Mutant: the queue is drained last in, first out.
HandledReversed(h, hd) ==
  LET mine == Mine(h, hd.queue)
  IN [hd EXCEPT !.setting = IF mine = {} THEN @ ELSE hd.queue[Min(mine)],
                !.executed = @ \cup {hd.queue[i] : i \in mine}, !.queue = <<>>]

Handled(h, hd) ==
  LET mine == Mine(h, hd.queue)
  IN [hd EXCEPT !.setting = IF mine = {} THEN @ ELSE hd.queue[Max(mine)],
                !.executed = @ \cup {hd.queue[i] : i \in mine}, !.queue = <<>>]

\* Mutant: only a beacon that carries a command counts as presence.
NextStateDeaf(hd, heard) ==
  [hd EXCEPT
     !.silence = IF heard /\ hd.setting # NoCommand THEN 0 ELSE @,
     !.state = IF @ = ACTIVE /\ hd.silence >= STANDBY_AFTER THEN STANDBY
               ELSE IF @ = STANDBY /\ heard THEN ACTIVE ELSE @]

\* The power-state machine at the end of an iteration of main().
NextState(hd, heard) ==
  [hd EXCEPT
     !.silence = IF heard THEN 0 ELSE @,
     !.state = IF @ = ACTIVE /\ ~heard /\ hd.silence >= STANDBY_AFTER
               THEN STANDBY
               ELSE IF @ = STANDBY /\ heard THEN ACTIVE ELSE @]

\* The rest of an iteration, after the listen window: drain, decide, sleep.
Iterate(h) ==
  LET hd == NextState(Handled(h, head[h]), head[h].queue # <<>>)
  IN /\ head' = [head EXCEPT ![h] = [hd EXCEPT !.pc = "sleep",
                                               !.timer = Period(hd.state)]]
     /\ issued' = [i \in DOMAIN issued |->
                     [issued[i] EXCEPT !.fair = @ /\ (issued[i].target = h
                                                        => hd.state = ACTIVE)]]

\* Mutant: the window is as long as the beacon period.
WindowTight == BEACON_PERIOD

Window == LISTEN_WINDOW

\* htk_radio_listen(): the radio turns to the downlink for one window ...
ListenOpen(h) ==
  /\ head[h].pc = "sleep" /\ head[h].timer = 0
  /\ head' = [head EXCEPT ![h].pc = "listen", ![h].timer = Window]
  /\ UNCHANGED <<dongle, issued, faults, cycles>>

\* ... or cannot be configured for it, and the window is skipped.
ListenFail(h) ==
  /\ head[h].pc = "sleep" /\ head[h].timer = 0
  /\ faults < MaxFaults
  /\ faults' = faults + 1
  /\ Iterate(h)
  /\ UNCHANGED <<dongle, cycles>>

ListenClose(h) ==
  /\ head[h].pc = "listen" /\ head[h].timer = 0
  /\ Iterate(h)
  /\ UNCHANGED <<dongle, faults, cycles>>

-----------------------------------------------------------------------------
(* Power.                                                                  *)

DongleOn(d) ==
  /\ ~dongle[d].on /\ cycles < MaxPowerCycles
  /\ cycles' = cycles + 1
  /\ dongle' = [dongle EXCEPT ![d] = OnDongle(BEACON_PERIOD)]
  /\ UNCHANGED <<head, issued, faults>>

DongleOff(d) ==
  /\ dongle[d].on /\ cycles < MaxPowerCycles
  /\ cycles' = cycles + 1
  /\ dongle' = [dongle EXCEPT ![d] = OffDongle]
  /\ issued' = [i \in DOMAIN issued |->
                  [issued[i] EXCEPT !.fair = @ /\ issued[i].dongle # d]]
  /\ UNCHANGED <<head, faults>>

\* Settings are volatile: a head comes back with its defaults.
HeadCycle(h) ==
  /\ cycles < MaxPowerCycles
  /\ cycles' = cycles + 1
  /\ head' = [head EXCEPT ![h] = BootedHead]
  /\ issued' = [i \in DOMAIN issued |->
                  [issued[i] EXCEPT !.fair = @ /\ issued[i].target # h]]
  /\ UNCHANGED <<dongle, faults>>

-----------------------------------------------------------------------------
Due == \/ \E d \in Dongles : dongle[d].on /\ dongle[d].timer = 0
       \/ \E h \in Heads : head[h].timer = 0

Capped(n, cap) == IF n < cap THEN n + 1 ELSE cap

Tick ==
  /\ ~Due
  /\ dongle' = [d \in Dongles |->
                  IF dongle[d].on
                  THEN [dongle[d] EXCEPT !.timer = @ - 1,
                                         !.up = Capped(@, UpCap)]
                  ELSE dongle[d]]
  /\ head' = [h \in Heads |->
                [head[h] EXCEPT !.timer = @ - 1,
                                !.silence = Capped(@, STANDBY_AFTER)]]
  /\ UNCHANGED <<issued, faults, cycles>>

Step ==
  \/ \E d \in Dongles : BeaconWork(d)
  \/ \E h \in Heads : ListenOpen(h) \/ ListenFail(h) \/ ListenClose(h)
  \/ Tick

Next ==
  \/ Step
  \/ \E d \in Dongles : DongleOn(d) \/ DongleOff(d)
  \/ \E d \in Dongles, h \in Heads : Issue(d, h)
  \/ \E h \in Heads : HeadCycle(h)

Spec == Init /\ [][Next]_vars

\* Time passes and what is due is done; nobody has to press a switch.
FairSpec == Spec /\ WF_vars(Step)

-----------------------------------------------------------------------------
(* Properties.                                                             *)

(* Recovery from standby is bounded by the standby listen interval: with   *)
(* no fault, a head is not in standby once some dongle has been on the air *)
(* for one standby sleep and two windows.  It also says that a head in the *)
(* presence of a dongle never drops to standby at all.                     *)
StandbyMeansAlone ==
  \A h \in Heads, d \in Dongles :
    faults = 0 /\ head[h].state = STANDBY /\ dongle[d].on
      => dongle[d].up <= LISTEN_PERIOD_STANDBY + 2 * LISTEN_WINDOW

(* What delivery rests on.  Room: a window hears each dongle at most twice,*)
(* and the queue of a head holds that.  Margin: the repeats of a command   *)
(* outlast two iterations of the active loop.                              *)
Room ==
  /\ IsFiniteSet(Dongles) /\ 2 * Cardinality(Dongles) <= BEACONQ_DEPTH
  /\ LISTEN_WINDOW < 2 * BEACON_PERIOD

Iteration == LISTEN_PERIOD_ACTIVE + LISTEN_WINDOW

Margin == (BEACON_CMD_REPEATS - 1) * BEACON_PERIOD >= 2 * Iteration

(* A command carried by N_repeat beacons reaches a head that stays active, *)
(* with margin for one fault, unless a later command took the slot of its  *)
(* dongle.                                                                 *)
Expired(n) == issued[n].beacons = BEACON_CMD_REPEATS

Displaced(n) ==
  \E m \in DOMAIN issued : m > n /\ issued[m].dongle = issued[n].dongle

Reached(n) ==
  LET hd == head[issued[n].target]
  IN n \in hd.executed \/ n \in ToSet(hd.queue)

CommandDelivered ==
  \A n \in DOMAIN issued :
    Expired(n) /\ issued[n].fair /\ faults <= 1 /\ ~Displaced(n) => Reached(n)

(* Commands of one dongle take effect in the order they were issued: what a*)
(* head is set to is the latest it executed of that dongle, whatever       *)
(* repeats of an earlier one were still queued beside it.                  *)
InOrder ==
  \A h \in Heads :
    LET hd == head[h]
    IN hd.setting # NoCommand
         => \A n \in hd.executed :
              issued[n].dongle = issued[hd.setting].dongle => n <= hd.setting

(* A head beside a dongle that stays on ends up active and stays so, and   *)
(* with no dongle left every head ends up in standby and stays there.      *)
PresenceDecides ==
  \A h \in Heads :
    /\ \A d \in Dongles : <>[](dongle[d].on) => <>[](head[h].state = ACTIVE)
    /\ <>[](\A d \in Dongles : ~dongle[d].on) => <>[](head[h].state = STANDBY)
=============================================================================
