----------------------------- MODULE Stabilizer -----------------------------
(***************************************************************************)
(* The reference frame of one tracker: htk::Stabilizer::update() of        *)
(* host/libheadtracker/src/stabilizer.cpp, on the samples that the radio   *)
(* lets through, and the requests of other threads.                        *)
(*                                                                         *)
(* update() takes two steps, before and after it takes the requests.  Its  *)
(* geometry is abstracted to what its control depends on: how the unit     *)
(* really turns (motion), and what the averages of gravity say of a sample *)
(* (\E in Finish).  The options have their defaults: taps recenter, the    *)
(* level is automatic, the center is not.  Which pose a reference is taken *)
(* from is left out, and so is the snapshot.                               *)
(***************************************************************************)
EXTENDS Integers, FiniteSets, FiniteSetsExt

CONSTANTS
  GAP_MAX,           \* 0.1 s: a longer dt is a gap
  T_WRAP,            \* 2^32 us, at which t_us wraps
  TAP_HOLD,          \* 250 ms: how long a head holds the TAP level
  refractory_s, min_worn_s, settle_timeout_s,   \* TapConfig
  worn_hold_s, off_hold_s,                      \* WearConfig
  warmup_s,          \* AutoLevelConfig
  Kinds              \* of requests: to clear, boresight, recenter

ASSUME StabilizerAssumption ==
  /\ GAP_MAX \in Nat \ {0}
  /\ T_WRAP \in Nat /\ T_WRAP > GAP_MAX
  /\ TAP_HOLD \in Nat \ {0}
  /\ {refractory_s, min_worn_s, settle_timeout_s} \subseteq Nat
  /\ {worn_hold_s, off_hold_s, warmup_s} \subseteq Nat
  /\ worn_hold_s > GAP_MAX /\ off_hold_s > 0

VARIABLES
  motion,           \* how the unit turns: "calm", "turn" or "swing"
  level,            \* for how long its TAP level is still held
  since,            \* t_us since the last sample taken, modulo its width
  spaced,           \* history: time since a tap was last counted
  pc,               \* "idle", or "taken": the requests have been taken
  dt,               \* locals of update()
  req,
  have_t_,          \* also have_prev_q_ and tap_seeded_
  tap_prev_,
  tap_refractory_left_,
  tap_settle_left_, \* -1 if no tap recenter is pending
  taps_,            \* counts modulo 2: whether they change is what matters
  level_updates_,
  g_ema_init_,
  wear,             \* worn_, worn_time_, still_time_, worn_stable_s_
  worn_total_s_,
  requests_,
  owed,             \* history: requests made and not applied
  handled,          \* history: time counted since it was seen picked up or
                    \* put down
  resting           \* history: time counted since it was last seen alive

unitVars  == <<motion, level>>
clockVars == <<since, spaced>>
tapVars   == <<have_t_, tap_prev_, tap_refractory_left_, taps_>>
levelVars == <<g_ema_init_, wear, worn_total_s_, level_updates_>>
seenVars  == <<handled, resting>>
vars == <<unitVars, clockVars, pc, dt, req, tapVars, tap_settle_left_,
          levelVars, requests_, owed, seenVars>>

\* What is compared with a limit need not be told apart beyond it.
Added(a, d, limit) == Min({a + d, limit})

Init ==
  /\ motion = "calm"
  /\ level = 0
  /\ since = 0
  /\ spaced = refractory_s
  /\ pc = "idle"
  /\ dt = 0
  /\ req = {}
  /\ have_t_ = FALSE
  /\ tap_prev_ = FALSE
  /\ tap_refractory_left_ = 0
  /\ tap_settle_left_ = -1
  /\ taps_ = 0
  /\ level_updates_ = 0
  /\ g_ema_init_ = FALSE
  /\ wear = [worn |-> FALSE, worn_time |-> 0, still_time |-> 0, stable |-> 0]
  /\ worn_total_s_ = 0
  /\ requests_ = {}
  /\ owed = {}
  /\ handled = 0
  /\ resting = 0

-----------------------------------------------------------------------------
(* The unit and the link.  A sample that is lost, or dropped because it is *)
(* not finite, is one that update() does not Begin with.                   *)

Tick ==
  /\ pc = "idle"
  /\ since' = (since + 1) % T_WRAP
  /\ level' = IF level > 0 THEN level - 1 ELSE 0
  /\ motion' \in {"calm", "turn", "swing"}
  /\ spaced' = Added(spaced, 1, refractory_s)
  /\ UNCHANGED <<pc, dt, req, tapVars, tap_settle_left_,
                 levelVars, requests_, owed, seenVars>>

Gesture ==
  /\ pc = "idle" /\ level = 0
  /\ level' = TAP_HOLD
  /\ UNCHANGED <<motion, clockVars, pc, dt, req, tapVars,
                 tap_settle_left_, levelVars, requests_, owed, seenVars>>

\* Its clock starts anew, and it has sent nothing for longer than a gap.
Reboot ==
  /\ pc = "idle"
  /\ since' \in 0 .. T_WRAP - 1
  /\ spaced' = Added(spaced, GAP_MAX + 1, refractory_s)
  /\ level' = 0
  /\ UNCHANGED <<motion, pc, dt, req, tapVars,
                 tap_settle_left_, levelVars, requests_, owed, seenVars>>

\* request_clear(), request_boresight(), request_recenter()
Request(kind) ==
  /\ requests_' = requests_ \cup {kind}
  /\ owed' = owed \cup {kind}
  /\ UNCHANGED <<unitVars, clockVars, pc, dt, req, tapVars, tap_settle_left_,
                 levelVars, seenVars>>

-----------------------------------------------------------------------------
(* update(), up to the requests.                                           *)

Dt == IF have_t_ /\ since <= GAP_MAX THEN since ELSE 0

\* The first sample seeds tap_prev_.
Edge(now) == have_t_ /\ now /\ ~tap_prev_

Refractory == IF tap_refractory_left_ > Dt THEN tap_refractory_left_ - Dt ELSE 0

CountsTap == Edge(level > 0) /\ Refractory = 0

ActsOnTap == wear.worn /\ wear.stable >= min_worn_s

\* Mutant: the refractory time is not started.
RefractoryAfterNone == Refractory

RefractoryAfter == IF CountsTap THEN refractory_s ELSE Refractory

\* Two samples of a unit never carry the same t_us.
Begin ==
  /\ pc = "idle"
  /\ have_t_ => since > 0
  /\ pc' = "taken"
  /\ dt' = Dt
  /\ since' = 0
  /\ have_t_' = TRUE
  /\ tap_prev_' = (level > 0)
  /\ tap_refractory_left_' = RefractoryAfter
  /\ taps_' = IF CountsTap THEN 1 - taps_ ELSE taps_
  /\ tap_settle_left_' = IF CountsTap /\ ActsOnTap THEN settle_timeout_s
                                                   ELSE tap_settle_left_
  /\ spaced' = IF CountsTap THEN 0 ELSE spaced
  /\ req' = requests_
  /\ requests_' = {}
  /\ UNCHANGED <<unitVars, levelVars, owed, seenVars>>

-----------------------------------------------------------------------------
(* update(), from the requests on.                                         *)

\* Mutant: the requests are cleared once they have been applied.
LeftOverNone == {}

LeftOver == requests_

\* Mutant: being moved does not start the time worn anew.
DistrustedKeep(w) == [w EXCEPT !.worn = FALSE]

\* A large step: picked up or put down.
Distrusted(w) == [w EXCEPT !.worn = FALSE, !.worn_time = 0, !.still_time = 0]

Alive(w) ==
  [worn       |-> w.worn \/ w.worn_time + dt >= worn_hold_s,
   worn_time  |-> Added(w.worn_time, dt, worn_hold_s),
   still_time |-> 0,
   stable     |-> w.stable]

Still(w) ==
  [worn       |-> w.worn /\ w.still_time + dt < off_hold_s,
   worn_time  |-> 0,
   still_time |-> Added(w.still_time, dt, off_hold_s),
   stable     |-> w.stable]

\* After a large step the mean deviation is above alive_min_deg.
Wear(gravity) ==
  LET w == CASE gravity = "jolt"  -> Alive(Distrusted(wear))
             [] gravity = "alive" -> Alive(wear)
             [] gravity = "still" -> Still(wear)
  IN [w EXCEPT !.stable = IF w.worn THEN Added(@, dt, min_worn_s) ELSE 0]

\* The rate the code computes: none without a dt.
Rate == IF dt > 0 THEN motion ELSE "calm"

\* Mutant: the timeout is not looked at.
RecentersCalm == tap_settle_left_ >= 0 /\ Rate = "calm"

Recenters ==
  tap_settle_left_ >= 0 /\ (Rate = "calm" \/ tap_settle_left_ - dt <= 0)

SettleLeft ==
  IF tap_settle_left_ < 0 \/ Recenters THEN -1 ELSE tap_settle_left_ - dt

Levels(w) == w.worn /\ dt > 0 /\ Rate # "swing"

\* tilts: the estimate is trusted and differs from the tilt.
Finish ==
  /\ pc = "taken"
  /\ pc' = "idle"
  /\ dt' = 0
  /\ req' = {}
  /\ requests_' = LeftOver
  /\ owed' = owed \ req
  /\ tap_settle_left_' = SettleLeft
  /\ g_ema_init_' = (g_ema_init_ \/ dt > 0)
  /\ \E gravity \in {"still", "alive", "jolt"}, tilts \in BOOLEAN :
       /\ ~g_ema_init_ => gravity = "still"
       /\ IF dt = 0
          THEN UNCHANGED <<wear, worn_total_s_, level_updates_, seenVars>>
          ELSE LET w == Wear(gravity)
                   total == IF Levels(w) THEN Added(worn_total_s_, dt, warmup_s)
                                         ELSE worn_total_s_
               IN /\ wear' = w
                  /\ worn_total_s_' = total
                  /\ level_updates_' =
                       IF Levels(w) /\ total >= warmup_s /\ tilts
                       THEN 1 - level_updates_ ELSE level_updates_
                  /\ handled' = Added(IF gravity = "jolt" THEN 0 ELSE handled,
                                      dt, worn_hold_s + min_worn_s)
                  /\ resting' = IF gravity = "still"
                                THEN Added(resting, dt, off_hold_s) ELSE 0
  /\ UNCHANGED <<unitVars, clockVars, tapVars>>

Next ==
  \/ Tick \/ Gesture \/ Reboot
  \/ \E kind \in Kinds : Request(kind)
  \/ Begin \/ Finish

Spec == Init /\ [][Next]_vars

\* Time passes, and the stream never stops for good.
FairSpec == Spec /\ WF_vars(Tick) /\ SF_vars(Begin) /\ WF_vars(Finish)

-----------------------------------------------------------------------------
(* Properties.                                                             *)

(* Two taps are never counted within the refractory time of each other, by *)
(* a real clock: lost samples, a wrap of t_us and a reboot of the unit only*)
(* make the host's wait longer.                                            *)
TapsSpaced == [][taps_' # taps_ => spaced >= refractory_s]_vars

(* The recenter that a tap asked for takes place, however the wearer moves *)
(* and taps meanwhile, as long as samples keep coming.                     *)
TapRecenters == tap_settle_left_ >= 0 ~> tap_settle_left_ < 0

(* Only a wearer counts.  A tap asks for a recenter only if the unit has   *)
(* been worn, and has been settled, since it was last seen picked up or put*)
(* down: donning is full of tap-like jostles (stabilizer.hpp:67-70).  The  *)
(* tilt is corrected neither right after that nor once the unit has rested *)
(* for long: one put down in an odd position does not corrupt it (4-8).    *)
NeedsWearer ==
  [][/\ tap_settle_left_ < 0 /\ tap_settle_left_' >= 0
          => handled >= worn_hold_s + min_worn_s - GAP_MAX
     /\ level_updates_' # level_updates_
          => handled' >= worn_hold_s /\ resting' < off_hold_s]_vars

(* No request of another thread is lost, at whatever point of update() it  *)
(* comes.                                                                  *)
RequestsKept == owed \subseteq requests_ \cup req
=============================================================================
