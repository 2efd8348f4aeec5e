---------------------------- MODULE FusionFilter ----------------------------
(***************************************************************************)
(* The filter of a head: firmware/common/fusion/htk_fusion.cpp, as the     *)
(* fusion thread and the main thread of firmware/app_head/src/main.c call  *)
(* it, and what it uses of the vendored fusion/vqf/vqf.cpp.                *)
(*                                                                         *)
(* The main thread has the higher priority and no lock is held: RESET_     *)
(* FUSION, suspend and resume run between any two steps of an update.  An  *)
(* update is cut into the steps between which what it has read can become  *)
(* stale.  Of the numbers only the bias of the gyroscope is kept (where it *)
(* comes from, how it moves, and how certain VQF is of it) and how long VQF*)
(* has seen no motion.  The attitude and the yaw offset of the servo are   *)
(* left out.                                                               *)
(***************************************************************************)
EXTENDS Integers

CONSTANTS
  COARSE,      \* samples of the coarse offset, one second
  REST_MIN,    \* samples of VQF's restMinT, 1.5 s
  SUSTAIN,     \* samples of REST_SUSTAIN_S, two seconds
  BAD_RUN,     \* REST_BAD_RUN_DROP
  MAX_BIAS,    \* biasClip, in the steps of the slew clamp
  MaxResets,   \* bound on RESET_FUSION commands
  MaxStandbys  \* bound on standbys

ASSUME FusionAssumption ==
  /\ {COARSE, REST_MIN, SUSTAIN, BAD_RUN, MAX_BIAS} \subseteq Nat \ {0}
  /\ {MaxResets, MaxStandbys} \subseteq Nat

\* VQF's sigma: under 0.15 deg/s, between, and over 0.25 deg/s.
Low == 0
Mid == 1
High == 2

VARIABLES
  filt,            \* VQF: its bias [val, from], sigma and restT
  g_bias_ok,
  g_bias_latched,
  g_bias_prev,     \* [val, from]
  g_saved,         \* g_have_saved_bias, g_saved_bias and g_saved_sigma
  g_suspended,
  g_coarse,        \* g_coarse_n, g_coarse_done, where the sum is from, and
                   \* where the offset g_coarse[] that is applied is from
  gate,            \* g_reseed, g_rest, g_rest_sustain_s and g_bad_run
  fusion,          \* where the fusion thread is
  local,           \* what it has read there
  main,            \* "loop", or in imu_set_odr(): "up" or "down"
  active,          \* the main thread's state is ST_ACTIVE
  imu,             \* is the sensor powered?
  burst,           \* samples taken during this imu_set_odr(IMU_ODR_HZ)
  epoch,           \* history: resets so far
  good,            \* history: quiet samples since the last disturbance
  torn,            \* history: what calls of main have cut short since the last
                   \* reset that did not
  standbys

biasVars == <<filt, g_bias_ok, g_bias_latched, g_bias_prev>>
mainVars == <<main, active, imu, epoch, standbys, g_saved, g_suspended>>
vars == <<biasVars, mainVars, g_coarse, gate, fusion, local, burst,
          good, torn>>

Least(a, b) == IF a <= b THEN a ELSE b

\* VQF::resetState(): no bias, as uncertain as at first, and no rest.
Fresh(e) == [val |-> 0, from |-> e, sigma |-> High, restT |-> 0]

Bias(f) == [val |-> f.val, from |-> f.from]

\* The offset until one has been found.
NoOffset == -1

Init ==
  /\ epoch = 0
  /\ filt = Fresh(0)
  /\ g_bias_ok = FALSE
  /\ g_bias_latched = FALSE
  /\ g_bias_prev = [val |-> 0, from |-> 0]
  /\ g_saved = [have |-> FALSE, val |-> 0, from |-> 0, sigma |-> High]
  /\ g_suspended = FALSE
  /\ g_coarse = [n |-> 0, done |-> FALSE, from |-> 0, applied |-> NoOffset]
  /\ gate = [reseed |-> TRUE, rest |-> FALSE, sustain |-> 0, bad |-> 0]
  /\ fusion = "idle"
  /\ local = <<>>
  /\ main = "loop"
  /\ active = TRUE
  /\ imu = TRUE
  /\ burst = 0
  /\ good = 0
  /\ torn = {}
  /\ standbys = 0

-----------------------------------------------------------------------------
(* htk_fusion_update(), in the fusion thread.                              *)

\* A sample arrives; the coarse offset is still to be found, or is known.
Sample ==
  /\ fusion = "idle" /\ imu
  /\ main = "up" => burst = 0
  /\ burst' = IF main = "up" THEN 1 ELSE 0
  /\ IF g_coarse.done THEN fusion' = "filter" /\ local' = filt
                      ELSE fusion' = "coarse" /\ local' = g_coarse
  /\ UNCHANGED <<biasVars, mainVars, g_coarse, gate, good, torn>>

\* coarse_restart()
CoarseRestarted(c) == [c EXCEPT !.n = 0, !.from = epoch]

\* The offset is the mean of a consecutive quiet second.  The sum is of this
\* epoch if its first sample is.
Coarse(moving, absurd) ==
  /\ fusion = "coarse"
  /\ \E c \in {local, g_coarse} :
       LET from == IF c.n = 0 THEN epoch ELSE c.from
       IN g_coarse' =
            IF moving THEN CoarseRestarted(c)
            ELSE IF c.n + 1 < COARSE THEN [c EXCEPT !.n = @ + 1, !.from = from]
            ELSE IF absurd THEN CoarseRestarted(c)
            ELSE [n |-> c.n + 1, done |-> TRUE, from |-> from, applied |-> from]
  /\ fusion' = "filter" /\ local' = filt
  /\ UNCHANGED <<biasVars, mainVars, gate, burst, good, torn>>

\* VQF's test for rest in updateGyr(), and then in updateAcc().
GyrRest(t, turning) == IF turning THEN 0 ELSE t

AccRest(t, shaking) == IF shaking THEN 0 ELSE Least(REST_MIN, t + 1)

\* restDetected, whose every assignment agrees with one of restT.
Detected(f) == f.restT = REST_MIN

\* updateGyr() and updateAcc() learn of the bias from what it was; sigma goes
\* from one level to the next.
Learnt(f, turning, shaking) ==
  [val : 0 .. MAX_BIAS, from : {f.from},
   sigma : {s \in Low .. High : s - f.sigma \in {-1, 0, 1}},
   restT : {AccRest(GyrRest(f.restT, turning), shaking)}]

\* The filter's step, and getBiasEstimate().
Filter(turning, shaking) ==
  /\ fusion = "filter"
  /\ filt' \in Learnt(filt, turning, shaking) \cup Learnt(local, turning, shaking)
  /\ fusion' = "judge" /\ local' = filt'
  /\ UNCHANGED <<g_bias_ok, g_bias_latched, g_bias_prev, mainVars, g_coarse,
                 gate, burst, good, torn>>

\* update_bias_ok(), and the look at g_bias_latched.
Judge ==
  /\ fusion = "judge"
  /\ g_bias_ok' = IF g_bias_ok THEN local.sigma # High ELSE local.sigma = Low
  /\ \/ /\ g_bias_latched
        /\ fusion' = "clamp" /\ UNCHANGED local
     \/ /\ ~g_bias_latched /\ g_bias_ok'
        /\ fusion' = "latch" /\ UNCHANGED local
     \/ /\ ~g_bias_latched /\ ~g_bias_ok'
        /\ fusion' = "gate" /\ local' = gate
  /\ UNCHANGED <<filt, g_bias_latched, g_bias_prev, mainVars, g_coarse, gate,
                 burst, good, torn>>

\* The first honest convergence.
Latch ==
  /\ fusion = "latch"
  /\ g_bias_latched' = TRUE
  /\ g_bias_prev' = Bias(local)
  /\ fusion' = "gate" /\ local' = gate
  /\ UNCHANGED <<filt, g_bias_ok, mainVars, g_coarse, gate, burst, good,
                 torn>>

\* One step from p towards f at most.
Slewed(p, f) ==
  [val |-> IF f.val > p.val + 1 THEN p.val + 1
           ELSE IF p.val > f.val + 1 THEN p.val - 1 ELSE f.val,
   from |-> Least(p.from, f.from)]

\* Mutant: the filter keeps the bias that the clamp has refused.
KeptRaw(f, b) == f

\* setBiasEstimate() without a sigma.
WrittenBack(f, b) == [f EXCEPT !.val = b.val, !.from = b.from]

\* The clamp on how the bias moves once it has converged.
Clamp ==
  /\ fusion = "clamp"
  /\ LET b == Slewed(g_bias_prev, local)
     IN IF b.val # local.val
        THEN g_bias_prev' = b /\ filt' = WrittenBack(filt, b)
        ELSE g_bias_prev' = Bias(local) /\ UNCHANGED filt
  /\ fusion' = "gate" /\ local' = gate
  /\ UNCHANGED <<g_bias_ok, g_bias_latched, mainVars, g_coarse, gate, burst,
                 good, torn>>

Reseeded(g) ==
  IF g.reseed THEN [g EXCEPT !.sustain = 0, !.rest = FALSE, !.bad = 0] ELSE g

\* Mutant: motion drops the gate and leaves the time that it was held.
MovedKept(g) == [g EXCEPT !.rest = FALSE]

\* A run of bad samples that is long enough is motion.
Moved(g) == [g EXCEPT !.rest = FALSE, !.sustain = 0]

\* The gate after a sample: "bad", "rough" (the accelerometer's deviation is
\* too large to count it) or "still".
Gated(g, kind) ==
  LET bad == [g EXCEPT !.bad = Least(BAD_RUN, @ + 1)]
      ok  == [g EXCEPT !.bad = 0]
      s   == Least(SUSTAIN, g.sustain + 1)
  IN CASE kind = "bad" -> IF bad.bad = BAD_RUN THEN Moved(bad) ELSE bad
       [] kind # "bad" /\ g.rest -> ok
       [] kind = "rough" /\ ~g.rest -> [ok EXCEPT !.sustain = 0]
       [] kind = "still" /\ ~g.rest -> [ok EXCEPT !.sustain = s, !.rest = (s = SUSTAIN)]

\* The rest gate, up to the end of the update.  A sample whose rate, less the
\* bias, is high ("fast") is bad, and so is any while VQF sees no rest.
Gate(kind) ==
  /\ fusion = "gate"
  /\ LET k == IF kind = "fast" \/ ~Detected(filt) THEN "bad" ELSE kind
     IN /\ \E g \in {gate, local} :
             gate' = [Gated(Reseeded(g), k) EXCEPT !.reseed = FALSE]
        /\ good' = CASE k = "still" -> Least(SUSTAIN, good + 1)
                     [] k = "rough" -> IF gate.rest THEN good ELSE 0
                     [] k = "bad" -> IF gate'.bad = BAD_RUN THEN 0 ELSE good
  /\ fusion' = "idle" /\ local' = <<>>
  /\ UNCHANGED <<biasVars, mainVars, g_coarse, burst, torn>>

\* htk_fusion_set_sample_rate(): getState(), and setState() of a new filter.
\* When, and that it is once, is SampleLoop's matter.
Retune ==
  /\ fusion = "idle" /\ imu
  /\ fusion' = "retune" /\ local' = filt
  /\ UNCHANGED <<biasVars, mainVars, g_coarse, gate, burst, good, torn>>

Retuned ==
  /\ fusion = "retune"
  /\ filt' = local
  /\ fusion' = "idle" /\ local' = <<>>
  /\ UNCHANGED <<g_bias_ok, g_bias_latched, g_bias_prev, mainVars, g_coarse,
                 gate, burst, good, torn>>

-----------------------------------------------------------------------------
(* The main thread.                                                        *)

\* The gate, or what comes before it.
Tears ==
  torn' = CASE fusion = "idle" -> torn
            [] fusion = "gate" -> torn \cup {"gate"}
            [] fusion \notin {"idle", "gate"} -> torn \cup {"resume"}

\* Mutant: the bias saved at the last standby outlives the reset.
SavedKept == g_saved

SavedForgotten == [g_saved EXCEPT !.have = FALSE]

\* A reset that cuts nothing short makes good what was before.
Heals ==
  torn' = CASE fusion = "idle" -> {}
            [] fusion = "gate" -> {"gate"}
            [] fusion \notin {"idle", "gate"} -> torn \cup {"reset"}

\* htk_fusion_reset(), on a command that came with a beacon.  In standby the
\* beacon wakes the head in the same turn of the loop.  The offset is found
\* anew, and the old one applied until then.
Reset ==
  /\ main = "loop" /\ epoch < MaxResets
  /\ epoch' = epoch + 1
  /\ filt' = Fresh(epoch')
  /\ g_bias_ok' = FALSE
  /\ g_bias_latched' = FALSE
  /\ g_saved' = SavedForgotten
  /\ g_coarse' = [g_coarse EXCEPT !.n = 0, !.done = FALSE, !.from = epoch']
  /\ gate' = [gate EXCEPT !.reseed = TRUE, !.rest = FALSE, !.sustain = 0]
  /\ good' = 0
  /\ Heals
  /\ IF active THEN UNCHANGED <<main, active, imu, burst>>
     ELSE /\ imu \/ fusion = "idle"
          /\ main' = "up" /\ active' = TRUE /\ imu' \in {imu, TRUE} /\ burst' = 0
  /\ UNCHANGED <<g_bias_prev, fusion, local, standbys, g_suspended>>

\* enter_standby(): htk_fusion_suspend(), and imu_set_odr(0) begins.
Suspend ==
  /\ main = "loop" /\ active /\ standbys < MaxStandbys
  /\ standbys' = standbys + 1
  /\ active' = FALSE
  /\ g_saved' = [have |-> TRUE, val |-> filt.val, from |-> filt.from,
                 sigma |-> filt.sigma]
  /\ g_suspended' = TRUE
  /\ main' = "down"
  /\ UNCHANGED <<biasVars, imu, epoch, g_coarse, gate, fusion, local, burst,
                 good, torn>>

\* imu_set_odr(0) returns; its result is ignored.
PoweredDown ==
  /\ main = "down"
  /\ main' = "loop"
  /\ imu' \in BOOLEAN
  /\ UNCHANGED <<biasVars, active, epoch, standbys, g_saved, g_suspended,
                 g_coarse, gate, fusion, local, burst, good, torn>>

\* A beacon; a standby is long enough for the last update to end.
EnterActive ==
  /\ main = "loop" /\ ~active
  /\ imu \/ fusion = "idle"
  /\ active' = TRUE
  /\ main' = "up"
  /\ imu' \in {imu, TRUE}
  /\ burst' = 0
  /\ UNCHANGED <<biasVars, epoch, standbys, g_saved, g_suspended, g_coarse,
                 gate, fusion, local, good, torn>>

\* htk_fusion_resume()
Resume ==
  /\ main = "up"
  /\ main' = "loop"
  /\ burst' = 0
  /\ g_suspended' = FALSE
  /\ IF g_saved.have
     THEN /\ filt' = [Fresh(epoch) EXCEPT !.val = g_saved.val,
                                           !.from = g_saved.from,
                                           !.sigma = g_saved.sigma]
          /\ g_bias_prev' = Bias(g_saved)
     ELSE filt' = Fresh(epoch) /\ UNCHANGED g_bias_prev
  /\ gate' = [gate EXCEPT !.reseed = TRUE, !.rest = FALSE, !.sustain = 0]
  /\ good' = 0
  /\ Tears
  /\ UNCHANGED <<g_bias_ok, g_bias_latched, active, imu, epoch, standbys,
                 g_saved, g_coarse, fusion, local>>

-----------------------------------------------------------------------------
Next ==
  \/ Sample
  \/ \E moving, absurd \in BOOLEAN : Coarse(moving, absurd)
  \/ \E turning, shaking \in BOOLEAN : Filter(turning, shaking)
  \/ Judge \/ Latch \/ Clamp
  \/ \E kind \in {"fast", "rough", "still"} : Gate(kind)
  \/ Retune \/ Retuned
  \/ Reset \/ Suspend \/ PoweredDown \/ EnterActive \/ Resume

Spec == Init /\ [][Next]_vars

-----------------------------------------------------------------------------
(* Properties.                                                             *)

\* Of the bias: in the filter, in the clamp, for the next resume.
BiasForgotten ==
  /\ filt.from = epoch \/ (filt.val = 0 /\ filt.sigma = High)
  /\ g_bias_latched => g_bias_prev.from = epoch
  /\ g_saved.have => g_saved.from = epoch

(* A reset leaves nothing of the bias that was learnt before it, whatever  *)
(* standbys and changes of rate follow, and the offset found after it is   *)
(* of samples after it (htk_fusion.cpp:458-474), unless it cut an update   *)
(* short before its gate, or a change of the sample rate, and no reset has *)
(* come since that did not.                                                *)
ResetForgets ==
  "reset" \notin torn =>
    BiasForgotten /\ (g_coarse.done => g_coarse.applied = epoch)

(* REST is only reported after REST_SUSTAIN_S of quiet samples since the   *)
(* last reset, standby or motion (htk_fusion.h:31-35), unless one of the   *)
(* calls cut the gate itself short and no reset has come since.            *)
RestEarned ==
  "gate" \notin torn /\ gate.rest => good = SUSTAIN

(* Between updates the bias that the filter integrates with is the one that*)
(* the clamp has accepted (htk_fusion.cpp:276-294, 495-501), unless a reset*)
(* or a resume cut an update or a change of the sample rate short and no   *)
(* reset has come since that did not.                                      *)
ClampHolds ==
  torn = {} /\ fusion = "idle" /\ g_bias_latched =>
    g_bias_prev = Bias(filt)
=============================================================================
