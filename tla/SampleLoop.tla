------------------------------ MODULE SampleLoop ------------------------------
(***************************************************************************)
(* What a head does with a sample of its IMU: the data-ready handler, its  *)
(* queue and fusion_thread() of firmware/app_head/src/main.c, the detector *)
(* of double taps of firmware/common/imu/htk_tapdet.c and the counter of   *)
(* firmware/app_head/src/leds.c that IDENTIFY and a tap share.             *)
(*                                                                         *)
(* The main thread has the higher priority and runs between any two steps  *)
(* of the fusion thread; it blocks, and lets the others run, where it      *)
(* writes to the IMU.  The unit of time is the sensor's own sampling       *)
(* period; time passes when the sensor takes a sample, and while it is     *)
(* powered down.  A timestamp is modelled by its distance from the one     *)
(* before.  What the filter does with a sample is left to FusionFilter.    *)
(*                                                                         *)
(* A packet counts as received when it was offered to a radio set up for   *)
(* the uplink: what the air loses, and a radio that could not be set up    *)
(* again after a window (HeadRadio), are left out here.                    *)
(***************************************************************************)
EXTENDS Naturals, Sequences

CONSTANTS
  QUEUE,         \* depth of imu_msgq, 4
  ODR_WINDOW,    \* samples of a measurement of the true rate, 4096
  NOMINAL,       \* the period of 416 Hz, in units of the sensors' deviation
  Periods,       \* true periods of sensors, in the same units
  BAND,          \* largest sum of a window taken for nominal, less the nominal
  IMU_ODR_HZ,    \* 416
  RATES,         \* rates of transmission: 52, 104, 208, 416
  Requests,      \* rates an application asks for
  WARMUP,        \* samples before the detector trusts its baseline
  SHOCK_MAX,     \* 60 ms
  GAP_MIN,       \* 70 ms
  GAP_MAX,       \* 500 ms
  REFRACTORY,    \* 1 s
  TAP_HOLD,      \* 250 ms
  IDENTIFY_TICKS,
  TAP_TICKS,
  WINDOW,        \* 110 ms, a listen window with the turns of the radio
  LISTEN_PERIOD, \* 1 s, the sleep between two of them
  Gaps,          \* how long a standby may last
  MaxStandbys,   \* bound on standbys
  MaxLost,       \* bound on samples lost to one turn of the fusion thread
  MaxCommands    \* bound on the commands of the run

ASSUME SampleAssumption ==
  /\ QUEUE \in Nat \ {0}
  /\ ODR_WINDOW \in Nat \ {0}
  /\ NOMINAL \in Nat \ {0}
  /\ Periods \subseteq Nat \ {0}
  /\ BAND \in Nat /\ BAND < NOMINAL * ODR_WINDOW
  /\ IMU_ODR_HZ \in Nat \ {0}
  /\ RATES # {} /\ RATES \subseteq Nat \ {0}
  /\ \A r \in RATES : IMU_ODR_HZ % r = 0
  /\ Requests \subseteq Nat
  /\ {WARMUP, MaxStandbys, MaxLost, MaxCommands} \subseteq Nat
  /\ {WINDOW, LISTEN_PERIOD} \subseteq Nat
  /\ {SHOCK_MAX, GAP_MIN, GAP_MAX, REFRACTORY, TAP_HOLD} \subseteq Nat
  /\ GAP_MIN <= GAP_MAX /\ GAP_MAX < REFRACTORY /\ TAP_HOLD < REFRACTORY
  /\ {IDENTIFY_TICKS, TAP_TICKS} \subseteq Nat /\ TAP_TICKS < IDENTIFY_TICKS
  /\ Gaps \subseteq Nat /\ \A g \in Gaps : g >= REFRACTORY

VARIABLES
  period,          \* the true period of this head's sensor
  imu,             \* is it powered?
  main,            \* asleep, in htk_radio_listen(), handling what it heard,
                   \* or in imu_set_odr(): "up" or "down"
  spell,           \* time since a window began, or since the last one ended
  g_streaming,
  g_tx_div,
  g_orient,        \* does g_mode include ORIENT packets?
  gap,             \* time without samples since the last one
  imu_msgq,        \* samples [dt, acc], each with the time from the one before
  fusion,          \* where the fusion thread is
  odr,             \* odr_have_prev, odr_n, odr_sum_us and rate_corrected
  rate,            \* what a window lasts at the period the filter assumes
  decim,
  tapdet,          \* the detector: its state, the time since t_mark, warmup
  tap_left,        \* time until tap_until_ms
  identify_ticks,
  blemished,       \* history: a standby or a lost sample fell in this window
  misled,          \* history: the filter's rate is from such a window
  unsent,          \* history: samples fused since the last one sent
  level,           \* history: TAP as the receiver of the stream knows it
  lull,            \* history: time since the end of the last shock
  lost,            \* samples lost since the fusion thread last took one
  standbys, commands

mainVars == <<main, imu, g_streaming, g_tx_div, g_orient, standbys, commands>>
timeVars == <<spell, gap>>
odrVars  == <<odr, rate, blemished, misled>>
tapVars  == <<tapdet, lull>>
vars == <<period, mainVars, timeVars, imu_msgq, fusion, odrVars, decim,
          tapVars, tap_left, identify_ticks, unsent, level, lost>>

Accs == {"spike", "between", "quiet"}

\* Times are told apart up to a little more than the longest that matters.
Later(t, dt) == IF t + dt <= REFRACTORY THEN t + dt ELSE REFRACTORY + 1

\* Not a time: a shock that has not ended, and none of late.
InShock == REFRACTORY + 2
NoLull == REFRACTORY + 3

Nearest(hz, r) ==
  LET d(x) == IF hz > x THEN hz - x ELSE x - hz
  IN \A x \in RATES : d(r) < d(x) \/ (d(r) = d(x) /\ r <= x)

\* set_rate(): the nearest rate, the lower of two as near.
Divider(hz) == IMU_ODR_HZ \div (CHOOSE r \in RATES : Nearest(hz, r))

Largest == IMU_ODR_HZ \div (CHOOSE r \in RATES : \A x \in RATES : r <= x)

Init ==
  /\ period \in Periods
  /\ imu = TRUE
  /\ main = "sleep"
  /\ spell = 0
  /\ g_streaming = TRUE
  /\ g_tx_div \in {Divider(hz) : hz \in Requests}
  /\ g_orient = TRUE
  /\ gap = 0
  /\ imu_msgq = <<>>
  /\ fusion = "get"
  /\ odr = [have_prev |-> FALSE, n |-> 0, sum |-> 0, corrected |-> FALSE]
  /\ rate = NOMINAL * ODR_WINDOW
  /\ decim = 0
  /\ tapdet = [state |-> "IDLE", since |-> 0, warmup |-> WARMUP]
  /\ tap_left = 0
  /\ identify_ticks = 0
  /\ blemished = FALSE
  /\ misled = FALSE
  /\ unsent = 0
  /\ level = "off"
  /\ lull = NoLull
  /\ standbys = 0 /\ lost = 0 /\ commands = 0

-----------------------------------------------------------------------------
(* imu_drdy(), in the driver's thread.                                     *)

\* The sensor's clock, by which the other times pass too.
Passes ==
  /\ imu
  /\ main = "listen" => spell < WINDOW
  /\ spell' = IF main # "listen" /\ spell >= LISTEN_PERIOD THEN spell
              ELSE spell + 1
  /\ tap_left' = IF tap_left > 0 THEN tap_left - 1 ELSE 0

\* The oldest is lost; the distance from the one before it is not.
Evicted(q) == [Tail(q) EXCEPT ![1].dt = Later(@, Head(q).dt)]

Drdy(acc) ==
  /\ Passes
  /\ LET q == Append(imu_msgq, [dt |-> Later(1, gap), acc |-> acc])
     IN IF Len(imu_msgq) < QUEUE
        THEN imu_msgq' = q /\ UNCHANGED lost
        ELSE /\ lost < MaxLost
             /\ lost' = lost + 1
             /\ imu_msgq' = Evicted(q)
  /\ gap' = 0
  /\ UNCHANGED <<period, mainVars, fusion, odrVars, decim, tapVars,
                 identify_ticks, unsent, level>>

\* The sample could not be fetched or converted, and is lost.
DrdyFails ==
  /\ Passes
  /\ lost < MaxLost
  /\ lost' = lost + 1
  /\ gap' = Later(gap, 1)
  /\ UNCHANGED <<period, mainVars, imu_msgq, fusion, odrVars, decim, tapVars,
                 identify_ticks, unsent, level>>

-----------------------------------------------------------------------------
(* fusion_thread(): the measurement of the true rate.                      *)

\* Mutant: the sum is not cleared with the count.
RestartedSumKept(o) == [o EXCEPT !.n = 0]

Restarted(o) == [o EXCEPT !.n = 0, !.sum = 0]

InBand(sum) == sum <= NOMINAL * ODR_WINDOW + BAND
               /\ sum + BAND >= NOMINAL * ODR_WINDOW

\* The sample dt after the one before it.  Once the rate has been corrected
\* the measurements are only logged.
Measure(dt) ==
  IF ~odr.have_prev \/ odr.corrected
  THEN odr' = [odr EXCEPT !.have_prev = TRUE]
       /\ UNCHANGED <<rate, blemished, misled>>
  ELSE LET o == [odr EXCEPT !.n = @ + 1, !.sum = @ + dt * period]
           b == blemished \/ dt # 1
       IN IF o.n < ODR_WINDOW
          THEN odr' = o /\ blemished' = b /\ UNCHANGED <<rate, misled>>
          ELSE /\ odr' = [Restarted(o) EXCEPT !.corrected = ~InBand(o.sum)]
               /\ rate' = IF InBand(o.sum) THEN rate ELSE o.sum
               /\ misled' = (b /\ ~InBand(o.sum))
               /\ blemished' = FALSE

-----------------------------------------------------------------------------
(* htk_tapdet_feed().                                                      *)

\* Mutant: the gap is measured from the beginning of the first spike.
MarkedEarly(t) == t

\* t_mark when the spike is over.
Marked(t) == 0

\* Is it the second spike of a pair?
Pair(t, acc) ==
  /\ tapdet.warmup = 0 /\ tapdet.state = "GAP" /\ acc = "spike"
  /\ t >= GAP_MIN /\ t <= GAP_MAX

\* The detector after a sample, t being the time since t_mark.
Fed(t, acc) ==
  LET In(state, since) == [state |-> state, since |-> since, warmup |-> 0]
      Idle == In("IDLE", 0)
      Shock == In("SHOCK1", 0)
  IN CASE tapdet.warmup > 0 -> [tapdet EXCEPT !.warmup = @ - 1]
       [] tapdet.warmup = 0 /\ tapdet.state = "IDLE" ->
            IF acc = "spike" THEN Shock ELSE Idle
       [] tapdet.warmup = 0 /\ tapdet.state = "SHOCK1" ->
            IF acc = "quiet" THEN In("GAP", Marked(t))
            ELSE IF t > SHOCK_MAX THEN Idle ELSE In("SHOCK1", t)
       [] tapdet.warmup = 0 /\ tapdet.state = "GAP" ->
            IF Pair(t, acc) THEN In("REFRACTORY", 0)
            ELSE IF acc = "spike" THEN Shock
            ELSE IF t > GAP_MAX THEN Idle ELSE In("GAP", t)
       [] tapdet.warmup = 0 /\ tapdet.state = "REFRACTORY" ->
            IF t > REFRACTORY THEN Idle ELSE In("REFRACTORY", t)

-----------------------------------------------------------------------------
(* fusion_thread(): one turn.                                              *)

\* The end of a shock is the first quiet sample after its last spike.
Lulled(dt, acc) ==
  IF acc = "spike" THEN InShock
  ELSE IF lull = InShock THEN (IF acc = "quiet" THEN 0 ELSE InShock)
  ELSE IF lull + dt <= GAP_MAX THEN lull + dt ELSE NoLull

\* A receiver of ORIENT packets ought to see a rising edge for each tap.
TapOwed ==
  IF level = "low" THEN "due" ELSE IF level = "off" THEN "off" ELSE "merged"

\* k_msgq_get(), the measurement, the detector.
Take ==
  /\ fusion = "get" /\ imu_msgq # <<>>
  /\ imu_msgq' = Tail(imu_msgq)
  /\ lost' = 0
  /\ LET s == Head(imu_msgq)
         t == Later(tapdet.since, s.dt)
     IN /\ Measure(s.dt)
        /\ tapdet' = Fed(t, s.acc)
        /\ lull' = Lulled(s.dt, s.acc)
        /\ IF Pair(t, s.acc)
           THEN /\ tap_left' = TAP_HOLD
                /\ level' = TapOwed
                /\ fusion' = "tap"
           ELSE fusion' = "send" /\ UNCHANGED <<tap_left, level>>
  /\ UNCHANGED <<period, mainVars, timeVars, decim, identify_ticks, unsent>>

\* leds_tap(): a look at the counter, and then a write.
TapLook ==
  /\ fusion = "tap"
  /\ fusion' = IF identify_ticks < TAP_TICKS THEN "blip" ELSE "send"
  /\ UNCHANGED <<period, mainVars, timeVars, imu_msgq, odrVars, decim, tapVars,
                 tap_left, identify_ticks, unsent, level, lost>>

TapBlip ==
  /\ fusion = "blip"
  /\ identify_ticks' = TAP_TICKS
  /\ fusion' = "send"
  /\ UNCHANGED <<period, mainVars, timeVars, imu_msgq, odrVars, decim, tapVars,
                 tap_left, unsent, level, lost>>

\* Mutant: only the exact count sends.
DueExact(n) == n = g_tx_div

Due(n) == n >= g_tx_div

\* Mutant: the flag is raised in the packet of the tap alone.
TapFlagOnce == tap_left = TAP_HOLD

TapFlag == tap_left > 0

Shown ==
  IF TapFlag THEN (IF level = "due" THEN "high" ELSE level)
  ELSE IF level = "due" THEN "due" ELSE "low"

\* Only ORIENT packets have flags, and in a listen window htk_radio_send()
\* refuses them; its result is ignored.
Signals == g_orient /\ main # "listen"

\* After htk_fusion_update(): decimation, flags and transmission.
Send ==
  /\ fusion = "send"
  /\ fusion' = "get"
  /\ IF g_streaming /\ Due(decim + 1)
     THEN /\ decim' = 0 /\ unsent' = 0
          /\ level' = IF Signals THEN Shown ELSE level
     ELSE /\ decim' = IF g_streaming THEN decim + 1 ELSE 0
          /\ unsent' = IF g_streaming THEN unsent + 1 ELSE 0
          /\ UNCHANGED level
  /\ UNCHANGED <<period, mainVars, timeVars, imu_msgq, odrVars, tapVars,
                 tap_left, identify_ticks, lost>>

-----------------------------------------------------------------------------
(* The main thread: a sleep, a listen window, and what it has heard.       *)

\* A sleep is as long at least as that of the ACTIVE state.
Listen ==
  /\ main = "sleep"
  /\ imu => spell >= LISTEN_PERIOD
  /\ main' = "listen"
  /\ spell' = 0
  /\ UNCHANGED <<period, imu, g_streaming, g_tx_div, g_orient, standbys,
                 commands, gap, imu_msgq, fusion, odrVars, decim, tapVars,
                 tap_left, identify_ticks, unsent, level, lost>>

\* A window ends early when the radio could not be set up for it.
WindowOver ==
  /\ main = "listen"
  /\ main' = "handle"
  /\ spell' = 0
  /\ UNCHANGED <<period, imu, g_streaming, g_tx_div, g_orient, standbys,
                 commands, gap, imu_msgq, fusion, odrVars, decim, tapVars,
                 tap_left, identify_ticks, unsent, level, lost>>

\* Handled: nothing more to do before the next sleep.
Sleep ==
  /\ main = "handle"
  /\ main' = "sleep"
  /\ UNCHANGED <<period, imu, g_streaming, g_tx_div, g_orient, standbys,
                 commands, timeVars, imu_msgq, fusion, odrVars, decim, tapVars,
                 tap_left, identify_ticks, unsent, level, lost>>

\* enter_standby() and enter_active(); which beacons were heard is Fabric's.
EnterStandby ==
  /\ main = "handle" /\ g_streaming
  /\ standbys < MaxStandbys
  /\ standbys' = standbys + 1
  /\ g_streaming' = FALSE
  /\ main' = "down"
  /\ level' = "off"
  /\ UNCHANGED <<period, imu, g_tx_div, g_orient, commands, timeVars, imu_msgq,
                 fusion, odrVars, decim, tapVars, tap_left, identify_ticks,
                 unsent, lost>>

\* imu_set_odr(0) has returned; its result is ignored.
PoweredDown ==
  /\ main = "down"
  /\ main' = "sleep"
  /\ imu' \in BOOLEAN
  /\ UNCHANGED <<period, g_streaming, g_tx_div, g_orient, standbys, commands,
                 timeVars, imu_msgq, fusion, odrVars, decim, tapVars, tap_left,
                 identify_ticks, unsent, level, lost>>

\* A standby is long enough for the fusion thread to empty the queue.
EnterActive ==
  /\ main = "handle" /\ ~g_streaming
  /\ imu \/ (imu_msgq = <<>> /\ fusion = "get")
  /\ main' = "up"
  /\ imu' \in {imu, TRUE}
  /\ IF imu' /\ ~imu THEN gap' \in Gaps /\ tap_left' = 0
                     ELSE UNCHANGED <<gap, tap_left>>
  /\ UNCHANGED <<period, g_streaming, g_tx_div, g_orient, standbys, commands,
                 spell, imu_msgq, fusion, odrVars, decim, tapVars,
                 identify_ticks, unsent, level, lost>>

Resumed ==
  /\ main = "up"
  /\ main' = "sleep"
  /\ g_streaming' = TRUE
  /\ UNCHANGED <<period, imu, g_tx_div, g_orient, standbys, commands, timeVars,
                 imu_msgq, fusion, odrVars, decim, tapVars, tap_left,
                 identify_ticks, unsent, level, lost>>

Command ==
  /\ main = "handle" /\ commands < MaxCommands
  /\ commands' = commands + 1
  /\ UNCHANGED <<period, main, imu, g_streaming, standbys, timeVars, imu_msgq,
                 fusion, odrVars, decim, tapVars, tap_left, unsent, lost>>

SetRate(hz) ==
  /\ Command
  /\ g_tx_div' = Divider(hz)
  /\ UNCHANGED <<g_orient, identify_ticks, level>>

\* In RAW mode a receiver knows nothing of TAP.
SetMode(orient) ==
  /\ Command
  /\ g_orient' = orient
  /\ level' = IF orient THEN level ELSE "off"
  /\ UNCHANGED <<g_tx_div, identify_ticks>>

\* leds_identify()
Identify ==
  /\ Command
  /\ identify_ticks' = IDENTIFY_TICKS
  /\ UNCHANGED <<g_tx_div, g_orient, level>>

\* led_tick(), in the timer's interrupt; other patterns keep no state.
LedTick ==
  /\ identify_ticks > 0
  /\ identify_ticks' = identify_ticks - 1
  /\ UNCHANGED <<period, mainVars, timeVars, imu_msgq, fusion, odrVars, decim,
                 tapVars, tap_left, unsent, level, lost>>

-----------------------------------------------------------------------------
Next ==
  \/ \E acc \in Accs : Drdy(acc)
  \/ DrdyFails
  \/ Take \/ TapLook \/ TapBlip \/ Send
  \/ Listen \/ WindowOver \/ Sleep
  \/ EnterStandby \/ PoweredDown \/ EnterActive \/ Resumed
  \/ \E hz \in Requests : SetRate(hz)
  \/ \E orient \in BOOLEAN : SetMode(orient)
  \/ Identify \/ LedTick

Spec == Init /\ [][Next]_vars

-----------------------------------------------------------------------------
(* Properties.                                                             *)

(* The filter runs at the nominal rate or, once corrected, at the true rate*)
(* of the sensor, unless the window of the measurement lost a sample or    *)
(* spans a standby (main.c:262-287): a nominal sensor is never "corrected" *)
(* by a window that is all of its own samples.                             *)
RateTrueUnlessGap ==
  ~misled => rate = (IF odr.corrected THEN period ELSE NOMINAL) * ODR_WINDOW

(* However SET_RATE and standbys fall between the steps of the loop, a head*)
(* that streams offers the radio at least each sample that the slowest rate*)
(* allows (main.c:341-344), though a listen window may refuse it.          *)
SendsOnTime == unsent < Largest

(* A double tap is two spikes, the second between gap_min and gap_max after*)
(* the end of the first (htk_tapdet.h:36-37), whatever ringing, samples    *)
(* lost and standbys fall between.                                         *)
TapPairs ==
  [][fusion' = "tap" /\ fusion = "get" =>
       /\ lull < InShock
       /\ Later(lull, Head(imu_msgq).dt) \in GAP_MIN .. GAP_MAX]_vars

\* The samples between two packets offered to the radio: those in the queue
\* and, for each turn until one is due, the one taken and those lost.
Lag == QUEUE + MaxLost + Largest * (MaxLost + 1)

\* How old a sample may be when the fusion thread takes it.
Stale == QUEUE * (1 + QUEUE * MaxLost)

\* What signalling a tap rests on.  The flag is held for longer than the wait
\* for a packet, which a window in between prolongs; a second window does not
\* fall into it; and the detector, which goes by the stamps of its samples,
\* listens for no other tap until the flag has been seen low again.
Prompt ==
  /\ 2 * Lag + WINDOW < TAP_HOLD /\ 2 * Lag + WINDOW < LISTEN_PERIOD
  /\ TAP_HOLD + Stale + 2 * Lag + WINDOW <= REFRACTORY

(* Each double tap of a head that streams orientation is signalled by a    *)
(* rising edge of its own of the TAP flag (main.c:328, 359), listen windows*)
(* in between included: the flag is held long enough to be in a packet that*)
(* the radio takes at the slowest rate, and seen low before the next tap.  *)
TapsSignalled == level # "merged" /\ (level = "due" => tap_left > 0)

-----------------------------------------------------------------------------
(* htk_fusion.h:65-67 and main.c:285-287: the correction is to the true    *)
(* sample interval.  The run of this loses no sample.                      *)
CorrectedIsTrue == odr.corrected => rate = period * ODR_WINDOW
=============================================================================
