----------------------------- MODULE HeadProofs -----------------------------
(***************************************************************************)
(* The safety properties of FusionFilter hold for every length of its      *)
(* windows and any number of resets and standbys.  What has to be known    *)
(* beside them is what the fusion thread holds in its locals: at each of   *)
(* its steps they agree with the state they were read from, unless a call  *)
(* of the main thread has fallen in between, which torn remembers.         *)
(*                                                                         *)
(* Those of HeadRadio, in the second part, hold for every size of the      *)
(* sequence space and of the FIFO, and for any number of failures.  The    *)
(* invariants of the two threads are proved together, since each rests on  *)
(* the mutex telling who of them may touch the radio.                      *)
(***************************************************************************)
EXTENDS FusionFilter, HeadRadio, TLAPS

Filters ==
  [val : 0 .. MAX_BIAS, from : Nat, sigma : Low .. High, restT : 0 .. REST_MIN]

Gates ==
  [reseed : BOOLEAN, rest : BOOLEAN, sustain : 0 .. SUSTAIN, bad : 0 .. BAD_RUN]

Offsets == [n : Nat, done : BOOLEAN, from : Nat, applied : Int]

\* What the fusion thread has read, at each step.
LocalOK ==
  /\ fusion \in {"filter", "judge", "latch", "clamp", "retune"} => local \in Filters
  /\ fusion = "coarse" => local \in Offsets
  /\ fusion = "gate" => local \in Gates

FilterTypes ==
  /\ filt \in Filters
  /\ g_bias_ok \in BOOLEAN /\ g_bias_latched \in BOOLEAN
  /\ g_bias_prev \in [val : 0 .. MAX_BIAS, from : Nat]
  /\ g_saved \in [have : BOOLEAN, val : 0 .. MAX_BIAS, from : Nat,
                  sigma : Low .. High]
  /\ g_coarse \in Offsets
  /\ gate \in Gates
  /\ fusion \in {"idle", "coarse", "filter", "judge", "latch", "clamp", "gate",
                 "retune"}
  /\ LocalOK
  /\ main \in {"loop", "up", "down"}
  /\ active \in BOOLEAN
  /\ epoch \in Nat
  /\ good \in 0 .. SUSTAIN
  /\ torn \subseteq {"reset", "resume", "gate"}

(* The gate is held by quiet samples alone, and a call to reseed it has    *)
(* dropped it.                                                             *)
Earned ==
  /\ gate.reseed => ~gate.rest /\ gate.sustain = 0
  /\ "gate" \notin torn =>
       /\ fusion = "gate" => local = gate
       /\ gate.sustain <= good
       /\ gate.rest => good = SUSTAIN

(* All that the main thread has not cut short is of this epoch.            *)
OfEpoch ==
  "reset" \notin torn =>
    /\ filt.from = epoch
    /\ fusion \in {"filter", "judge", "latch", "clamp", "retune"} =>
         local.from = epoch
    /\ fusion = "coarse" => (local.n = 0 \/ local.from = epoch) /\ ~local.done
    /\ fusion = "coarse" => ~g_coarse.done
    /\ g_coarse.n > 0 \/ g_coarse.done => g_coarse.from = epoch
    /\ g_coarse.done => g_coarse.applied = epoch
    /\ g_bias_latched \/ fusion = "clamp" => g_bias_prev.from = epoch
    /\ g_saved.have => g_saved.from = epoch

(* The clamp has the bias of the filter, but for the steps in which the    *)
(* filter has learnt and the clamp has not yet looked.                     *)
Clamped ==
  torn = {} =>
    /\ fusion \in {"filter", "judge", "latch", "clamp", "retune"} => local = filt
    /\ fusion = "latch" => ~g_bias_latched
    /\ fusion \in {"idle", "coarse", "gate", "retune"} /\ g_bias_latched =>
         g_bias_prev = Bias(filt)

(* A resume finds the bias of the standby, or a reset has taken it in this *)
(* turn of the loop; the one sample since then cannot have latched a bias. *)
Resumable ==
  /\ ~active => g_saved.have /\ main # "up"
  /\ torn = {} /\ main = "up" /\ ~g_saved.have =>
       /\ ~g_bias_ok /\ ~g_bias_latched
       /\ fusion \notin {"latch", "clamp"}
       /\ filt.sigma # Low
       /\ burst = 0 \/ fusion \in {"coarse", "filter"} => filt.sigma = High
       /\ burst = 0 => fusion \in {"idle", "retune"}

FilterInv == FilterTypes /\ Earned /\ OfEpoch /\ Clamped /\ Resumable

-----------------------------------------------------------------------------
LEMMA ConstantTypes ==
  /\ COARSE \in Nat /\ COARSE > 0
  /\ REST_MIN \in Nat /\ REST_MIN > 0
  /\ SUSTAIN \in Nat /\ SUSTAIN > 0
  /\ BAD_RUN \in Nat /\ BAD_RUN > 0
  /\ MAX_BIAS \in Nat /\ MAX_BIAS > 0
BY FusionAssumption

LEMMA FreshIs ==
  ASSUME NEW e \in Nat
  PROVE  Fresh(e) \in Filters /\ Fresh(e).from = e /\ Fresh(e).sigma = High
BY ConstantTypes DEF Fresh, Filters, Low, High

LEMMA GateBounds ==
  /\ 0 \in 0 .. SUSTAIN /\ 0 \in 0 .. BAD_RUN
  /\ FALSE \in BOOLEAN /\ TRUE \in BOOLEAN
BY ConstantTypes

(* What becomes of a gate that is dropped: coarsely, in its own words.     *)
LEMMA DroppedIs ==
  ASSUME NEW g \in Gates, NEW d, d = [g EXCEPT !.rest = FALSE, !.sustain = 0]
  PROVE  d \in Gates /\ ~d.rest /\ d.sustain = 0 /\ d.bad = g.bad
<1>1. d \in Gates
  BY GateBounds, Zenon DEF Gates
<1> QED BY <1>1 DEF Gates

(* A gate that awaits its reseeding.                                       *)
LEMMA AwaitingIs ==
  ASSUME NEW g \in Gates,
         NEW d, d = [g EXCEPT !.reseed = TRUE, !.rest = FALSE, !.sustain = 0]
  PROVE  d \in Gates /\ ~d.rest /\ d.sustain = 0
<1>1. d \in Gates
  BY GateBounds, Zenon DEF Gates
<1> QED BY <1>1 DEF Gates

LEMMA FilterStarts == Init => FilterInv
<1> SUFFICES ASSUME Init PROVE FilterInv
  OBVIOUS
<1> USE ConstantTypes DEF Init
<1>1. filt \in Filters /\ filt.from = 0
  BY FreshIs
<1>2. gate \in Gates /\ g_coarse \in Offsets
  BY DEF Gates, Offsets, NoOffset
<1>3. /\ g_bias_prev \in [val : 0 .. MAX_BIAS, from : Nat]
      /\ g_saved \in [have : BOOLEAN, val : 0 .. MAX_BIAS, from : Nat,
                      sigma : Low .. High]
  BY DEF Low, High
<1>4. LocalOK
  BY DEF LocalOK
<1>5. /\ epoch \in Nat /\ good \in 0 .. SUSTAIN
      /\ torn \subseteq {"reset", "resume", "gate"}
  OBVIOUS
<1>6. FilterTypes
  BY <1>1, <1>2, <1>3, <1>4, <1>5 DEF FilterTypes
<1>7. Earned /\ OfEpoch /\ Clamped /\ Resumable
  BY <1>1 DEF Earned, OfEpoch, Clamped, Resumable
<1> QED BY <1>6, <1>7 DEF FilterInv

-----------------------------------------------------------------------------
(* The fusion thread.                                                      *)

LEMMA SampleIInv ==
  ASSUME FilterInv, Sample
  PROVE  FilterInv'
<1> USE DEF Sample, biasVars, mainVars
<1>1. FilterTypes'
  BY DEF FilterInv, FilterTypes, LocalOK
<1>2. Earned'
  BY DEF FilterInv, Earned
<1>3. OfEpoch'
  BY DEF FilterInv, FilterTypes, OfEpoch, Offsets
<1>4. Clamped'
  BY DEF FilterInv, Clamped, Bias
<1>5. Resumable'
  BY DEF FilterInv, Resumable
<1> QED BY <1>1, <1>2, <1>3, <1>4, <1>5 DEF FilterInv

LEMMA CoarseIInv ==
  ASSUME FilterInv, NEW moving \in BOOLEAN, NEW absurd \in BOOLEAN,
         Coarse(moving, absurd)
  PROVE  FilterInv'
<1> USE DEF Coarse, biasVars, mainVars
<1>1. PICK c \in {local, g_coarse} :
        LET from == IF c.n = 0 THEN epoch ELSE c.from
        IN g_coarse' =
             IF moving THEN CoarseRestarted(c)
             ELSE IF c.n + 1 < COARSE THEN [c EXCEPT !.n = @ + 1, !.from = from]
             ELSE IF absurd THEN CoarseRestarted(c)
             ELSE [n |-> c.n + 1, done |-> TRUE, from |-> from,
                   applied |-> from]
  OBVIOUS
<1>2. c \in Offsets /\ epoch \in Nat
  BY DEF FilterInv, FilterTypes, LocalOK
<1> DEFINE from == IF c.n = 0 THEN epoch ELSE c.from
<1>3. \/ g_coarse' = [c EXCEPT !.n = 0, !.from = epoch]
      \/ g_coarse' = [c EXCEPT !.n = c.n + 1, !.from = from]
      \/ g_coarse' = [n |-> c.n + 1, done |-> TRUE, from |-> from,
                      applied |-> from]
  BY <1>1 DEF CoarseRestarted
<1>4. from \in Nat /\ c.n + 1 \in Nat
      /\ ("reset" \notin torn => from = epoch)
  BY <1>2 DEF Offsets, FilterInv, OfEpoch
<1> HIDE DEF from
<1>5. /\ g_coarse' \in Offsets /\ g_coarse'.from \in {epoch, from}
      /\ g_coarse'.done => c.done \/ g_coarse'.applied = from
  <2>1. CASE g_coarse' = [c EXCEPT !.n = 0, !.from = epoch]
    BY <1>2, <2>1 DEF Offsets
  <2>2. CASE g_coarse' = [c EXCEPT !.n = c.n + 1, !.from = from]
    BY <1>2, <1>4, <2>2 DEF Offsets
  <2>3. CASE g_coarse' = [n |-> c.n + 1, done |-> TRUE, from |-> from,
                          applied |-> from]
    <3>1. from \in Int /\ TRUE \in BOOLEAN
      BY <1>4
    <3>2. g_coarse' \in Offsets
      BY <1>4, <2>3, <3>1, Zenon DEF Offsets
    <3>3. g_coarse'.from = from /\ g_coarse'.applied = from
      BY <2>3
    <3> QED BY <3>2, <3>3
  <2> QED BY <1>3, <2>1, <2>2, <2>3
<1>6. FilterTypes'
  BY <1>5 DEF FilterInv, FilterTypes, LocalOK
<1>7. Earned'
  BY DEF FilterInv, Earned
<1>8. OfEpoch'
  <2>1. "reset" \notin torn => ~c.done
    BY DEF FilterInv, OfEpoch
  <2> QED BY <1>4, <1>5, <2>1 DEF FilterInv, OfEpoch
<1>9. Clamped'
  BY DEF FilterInv, Clamped, Bias
<1>10. Resumable'
  BY DEF FilterInv, Resumable
<1> QED BY <1>6, <1>7, <1>8, <1>9, <1>10 DEF FilterInv

LEMMA FilterIInv ==
  ASSUME FilterInv, NEW turning \in BOOLEAN, NEW shaking \in BOOLEAN,
         Filter(turning, shaking)
  PROVE  FilterInv'
<1> USE DEF Filter, mainVars
<1>1. PICK f \in {filt, local} : filt' \in Learnt(f, turning, shaking)
  OBVIOUS
<1>2. f \in Filters
  BY DEF FilterInv, FilterTypes, LocalOK
<1>3. filt' \in Filters /\ filt'.from = f.from
      /\ (f.sigma = High => filt'.sigma # Low)
  <2>1. AccRest(GyrRest(f.restT, turning), shaking) \in 0 .. REST_MIN
    BY <1>2, ConstantTypes DEF Filters, AccRest, GyrRest, Least
  <2> QED BY <1>1, <1>2, <2>1 DEF Learnt, Filters, Low, High
<1>4. FilterTypes'
  BY <1>3 DEF FilterInv, FilterTypes, LocalOK
<1>5. Earned'
  BY DEF FilterInv, Earned
<1>6. OfEpoch'
  BY <1>3 DEF FilterInv, OfEpoch
<1>7. Clamped'
  BY DEF FilterInv, Clamped
<1>8. Resumable'
  BY <1>3 DEF FilterInv, Resumable, Clamped, High, Low
<1> QED BY <1>4, <1>5, <1>6, <1>7, <1>8 DEF FilterInv

LEMMA JudgeIInv ==
  ASSUME FilterInv, Judge
  PROVE  FilterInv'
<1> USE DEF Judge, mainVars
<1>1. FilterTypes'
  BY DEF FilterInv, FilterTypes, LocalOK
<1>2. Earned'
  BY DEF FilterInv, Earned
<1>3. OfEpoch'
  BY DEF FilterInv, OfEpoch
<1>4. Clamped'
  BY DEF FilterInv, Clamped, Bias
<1>5. Resumable'
  BY DEF FilterInv, Resumable, Clamped
<1> QED BY <1>1, <1>2, <1>3, <1>4, <1>5 DEF FilterInv

LEMMA LatchIInv ==
  ASSUME FilterInv, Latch
  PROVE  FilterInv'
<1> USE DEF Latch, mainVars
<1>1. FilterTypes'
  BY DEF FilterInv, FilterTypes, LocalOK, Bias, Filters
<1>2. Earned'
  BY DEF FilterInv, Earned
<1>3. OfEpoch'
  BY DEF FilterInv, OfEpoch, Bias
<1>4. Clamped'
  BY DEF FilterInv, Clamped, Bias
<1>5. Resumable'
  BY DEF FilterInv, Resumable
<1> QED BY <1>1, <1>2, <1>3, <1>4, <1>5 DEF FilterInv

LEMMA ClampIInv ==
  ASSUME FilterInv, Clamp
  PROVE  FilterInv'
<1> USE DEF Clamp, mainVars
<1> DEFINE b == Slewed(g_bias_prev, local)
<1>1. /\ local \in Filters /\ filt \in Filters
      /\ g_bias_prev \in [val : 0 .. MAX_BIAS, from : Nat]
  BY DEF FilterInv, FilterTypes, LocalOK
<1>2. /\ b \in [val : 0 .. MAX_BIAS, from : Nat]
      /\ g_bias_prev.from = local.from => b.from = local.from
  BY <1>1, ConstantTypes DEF Slewed, Filters, Least
<1>3. \/ /\ g_bias_prev' = b
         /\ filt' = [filt EXCEPT !.val = b.val, !.from = b.from]
      \/ g_bias_prev' = Bias(local) /\ filt' = filt
  BY DEF WrittenBack
<1>4. /\ filt' \in Filters /\ g_bias_prev' \in [val : 0 .. MAX_BIAS, from : Nat]
      /\ filt'.sigma = filt.sigma
      /\ \/ /\ g_bias_prev' = b /\ Bias(filt') = b /\ filt'.from = b.from
         \/ /\ g_bias_prev' = Bias(local) /\ filt' = filt
            /\ g_bias_prev'.from = local.from
  <2> HIDE DEF b
  <2>1. CASE /\ g_bias_prev' = b
             /\ filt' = [filt EXCEPT !.val = b.val, !.from = b.from]
    <3>1. b = [val |-> b.val, from |-> b.from]
      BY <1>2
    <3>2. /\ filt' \in Filters /\ filt'.val = b.val /\ filt'.from = b.from
          /\ filt'.sigma = filt.sigma
      BY <1>1, <1>2, <2>1 DEF Filters
    <3> QED BY <1>2, <2>1, <3>1, <3>2 DEF Bias
  <2>2. CASE g_bias_prev' = Bias(local) /\ filt' = filt
    BY <1>1, <2>2 DEF Filters, Bias
  <2> QED BY <1>3, <2>1, <2>2
<1>5. FilterTypes'
  BY <1>4 DEF FilterInv, FilterTypes, LocalOK
<1>6. Earned'
  BY DEF FilterInv, Earned
<1>7. OfEpoch'
  <2> HIDE DEF b
  <2>1. "reset" \notin torn => g_bias_prev'.from = epoch /\ filt'.from = epoch
    BY <1>2, <1>4 DEF FilterInv, OfEpoch
  <2> QED BY <2>1 DEF FilterInv, OfEpoch
<1>8. Clamped'
  <2> HIDE DEF b
  <2>1. torn = {} => g_bias_prev' = Bias(filt')
    BY <1>4 DEF FilterInv, Clamped
  <2> QED BY <2>1 DEF Clamped
<1>9. Resumable'
  BY <1>4 DEF FilterInv, Resumable
<1> QED BY <1>5, <1>6, <1>7, <1>8, <1>9 DEF FilterInv

(* The gate is dropped by motion and held by the count of quiet samples,   *)
(* which the history counts beside it.                                     *)
LEMMA GateIInv ==
  ASSUME FilterInv, NEW kind \in {"fast", "rough", "still"}, Gate(kind)
  PROVE  FilterInv'
<1> USE DEF Gate, mainVars, biasVars
<1> DEFINE k == IF kind = "fast" \/ ~Detected(filt) THEN "bad" ELSE kind
<1>1. k \in {"bad", "rough", "still"}
  OBVIOUS
<1>2. PICK g \in {gate, local} :
        gate' = [Gated(Reseeded(g), k) EXCEPT !.reseed = FALSE]
  OBVIOUS
<1>3. good' = CASE k = "still" -> Least(SUSTAIN, good + 1)
                [] k = "rough" -> IF gate.rest THEN good ELSE 0
                [] k = "bad" -> IF gate'.bad = BAD_RUN THEN 0 ELSE good
  OBVIOUS
<1> HIDE DEF k
<1>4. g \in Gates /\ good \in 0 .. SUSTAIN /\ gate \in Gates
  BY DEF FilterInv, FilterTypes, LocalOK
<1> DEFINE r == Reseeded(g)
<1>5. r \in Gates /\ (g.reseed => ~r.rest /\ r.sustain = 0)
      /\ (~g.reseed => r = g)
  <2>1. CASE g.reseed
    <3>1. r = [g EXCEPT !.sustain = 0, !.rest = FALSE, !.bad = 0]
      BY <2>1 DEF Reseeded
    <3> HIDE DEF r
    <3>2. r \in Gates
      BY <1>4, <3>1, GateBounds, Zenon DEF Gates
    <3> QED BY <1>4, <2>1, <3>1, <3>2 DEF Gates
  <2>2. CASE ~g.reseed
    BY <1>4, <2>2 DEF Reseeded
  <2> QED BY <2>1, <2>2
<1> HIDE DEF r
<1> DEFINE d == Gated(r, k)
<1>6. /\ d \in Gates
      /\ \/ /\ k = "bad" /\ d.bad = BAD_RUN /\ ~d.rest /\ d.sustain = 0
         \/ /\ k = "bad" /\ d.bad # BAD_RUN /\ (d.rest <=> r.rest)
            /\ d.sustain = r.sustain
         \/ k \in {"rough", "still"} /\ r.rest /\ d.rest /\ d.sustain = r.sustain
         \/ k = "rough" /\ ~r.rest /\ ~d.rest /\ d.sustain = 0
         \/ /\ k = "still" /\ ~r.rest
            /\ d.sustain = Least(SUSTAIN, r.sustain + 1)
            /\ d.rest <=> d.sustain = SUSTAIN
  <2> DEFINE bad == [r EXCEPT !.bad = Least(BAD_RUN, r.bad + 1)]
             ok  == [r EXCEPT !.bad = 0]
             s   == Least(SUSTAIN, r.sustain + 1)
  <2>1. d = CASE k = "bad" -> IF bad.bad = BAD_RUN THEN Moved(bad) ELSE bad
              [] k # "bad" /\ r.rest -> ok
              [] k = "rough" /\ ~r.rest -> [ok EXCEPT !.sustain = 0]
              [] k = "still" /\ ~r.rest ->
                   [ok EXCEPT !.sustain = s, !.rest = (s = SUSTAIN)]
    BY DEF Gated
  <2>2. bad \in Gates /\ (bad.rest <=> r.rest) /\ bad.sustain = r.sustain
    BY <1>5, ConstantTypes DEF Gates, Least
  <2>3. ok \in Gates /\ (ok.rest <=> r.rest) /\ ok.sustain = r.sustain
    BY <1>5, ConstantTypes DEF Gates
  <2>4. s \in 0 .. SUSTAIN /\ (s = SUSTAIN) \in BOOLEAN
    BY <1>5, ConstantTypes DEF Gates, Least
  <2> HIDE DEF bad, ok, d
  <2>5. CASE k = "bad" /\ bad.bad = BAD_RUN
    <3>1. d = [bad EXCEPT !.rest = FALSE, !.sustain = 0]
      BY <2>1, <2>5 DEF Moved
    <3> QED BY <2>2, <2>5, <3>1, DroppedIs
  <2>6. CASE k = "bad" /\ bad.bad # BAD_RUN
    BY <2>1, <2>2, <2>6
  <2>7. CASE k \in {"rough", "still"} /\ r.rest
    BY <2>1, <2>3, <2>7
  <2>8. CASE k = "rough" /\ ~r.rest
    <3>1. d = [ok EXCEPT !.sustain = 0]
      BY <2>1, <2>8
    <3>2. d \in Gates
      BY <2>3, <3>1, GateBounds, Zenon DEF Gates
    <3> QED BY <2>3, <2>8, <3>1, <3>2 DEF Gates
  <2>9. CASE k = "still" /\ ~r.rest
    <3>1. d = [ok EXCEPT !.sustain = s, !.rest = (s = SUSTAIN)]
      BY <2>1, <2>9
    <3> HIDE DEF s
    <3>2. d \in Gates
      BY <2>3, <2>4, <3>1, Zenon DEF Gates
    <3>3. d.sustain = s /\ (d.rest <=> s = SUSTAIN)
      BY <2>3, <2>4, <3>1 DEF Gates
    <3> QED BY <2>9, <3>2, <3>3 DEF s
  <2> QED BY <1>1, <2>5, <2>6, <2>7, <2>8, <2>9
<1>7. /\ gate' = [d EXCEPT !.reseed = FALSE]
      /\ gate' \in Gates /\ ~gate'.reseed
      /\ gate'.rest = d.rest /\ gate'.sustain = d.sustain /\ gate'.bad = d.bad
  <2>1. gate' = [d EXCEPT !.reseed = FALSE]
    BY <1>2 DEF r
  <2> HIDE DEF d
  <2> QED BY <1>6, <2>1 DEF Gates
<1> HIDE DEF d
<1>8. good' \in 0 .. SUSTAIN
  BY <1>1, <1>3, <1>4, ConstantTypes DEF Least
<1>9. FilterTypes'
  BY <1>7, <1>8 DEF FilterInv, FilterTypes, LocalOK
<1>10. Earned'
  <2>1. CASE "gate" \in torn
    BY <1>7, <2>1 DEF Earned
  <2>2. CASE "gate" \notin torn
    <3>1. g = gate /\ gate.sustain <= good /\ (gate.rest => good = SUSTAIN)
          /\ (gate.reseed => ~gate.rest /\ gate.sustain = 0)
      BY <2>2 DEF FilterInv, Earned
    <3>2. /\ r.sustain <= good /\ (r.rest => good = SUSTAIN)
          /\ (r.rest <=> gate.rest)
      BY <1>4, <1>5, <3>1 DEF Gates
    <3>3. /\ d.sustain <= good' /\ (d.rest => good' = SUSTAIN)
      <4>1. /\ r.sustain \in 0 .. SUSTAIN /\ d.sustain \in 0 .. SUSTAIN
            /\ k \in {"bad", "rough", "still"}
        BY <1>1, <1>5, <1>6 DEF Gates
      <4>2. CASE k = "bad"
        BY <1>3, <1>4, <1>6, <1>7, <3>2, <4>1, <4>2, ConstantTypes
      <4>3. CASE k = "rough"
        BY <1>3, <1>4, <1>6, <3>2, <4>1, <4>3, ConstantTypes
      <4>4. CASE k = "still"
        <5>1. good' = Least(SUSTAIN, good + 1)
          BY <1>3, <4>4
        <5>2. PICK h \in 0 .. SUSTAIN : good' = h
          BY <1>8
        <5>3. d.sustain <= h /\ (d.rest => h = SUSTAIN)
          BY <1>4, <1>6, <3>2, <4>1, <4>4, <5>1, <5>2, ConstantTypes DEF Least
        <5> QED BY <5>2, <5>3
      <4> QED BY <4>1, <4>2, <4>3, <4>4
    <3> QED BY <1>7, <3>3 DEF Earned
  <2> QED BY <2>1, <2>2
<1>11. OfEpoch'
  BY DEF FilterInv, OfEpoch
<1>12. Clamped'
  BY DEF FilterInv, Clamped, Bias
<1>13. Resumable'
  BY DEF FilterInv, Resumable
<1> QED BY <1>9, <1>10, <1>11, <1>12, <1>13 DEF FilterInv

LEMMA RetuneIInv ==
  ASSUME FilterInv, Retune \/ Retuned
  PROVE  FilterInv'
<1> USE DEF Retune, Retuned, mainVars, biasVars
<1>1. FilterTypes'
  BY DEF FilterInv, FilterTypes, LocalOK
<1>2. Earned'
  BY DEF FilterInv, Earned
<1>3. OfEpoch'
  BY DEF FilterInv, OfEpoch
<1>4. Clamped'
  BY DEF FilterInv, Clamped, Bias
<1>5. Resumable'
  BY DEF FilterInv, Resumable, Clamped
<1> QED BY <1>1, <1>2, <1>3, <1>4, <1>5 DEF FilterInv

-----------------------------------------------------------------------------
(* The main thread.                                                        *)

LEMMA ResetIInv ==
  ASSUME FilterInv, Reset
  PROVE  FilterInv'
<1> USE DEF Reset
<1>1. /\ epoch' = epoch + 1 /\ epoch' \in Nat
      /\ filt' = Fresh(epoch') /\ filt' \in Filters
      /\ filt'.from = epoch' /\ filt'.sigma = High
  <2>1. epoch' = epoch + 1 /\ epoch' \in Nat /\ filt' = Fresh(epoch')
    BY DEF FilterInv, FilterTypes
  <2> QED BY <2>1, FreshIs
<1>2. /\ gate' \in Gates /\ ~gate'.rest /\ gate'.sustain = 0
      /\ g_coarse' \in Offsets /\ g_coarse'.n = 0 /\ ~g_coarse'.done
      /\ g_saved' \in [have : BOOLEAN, val : 0 .. MAX_BIAS, from : Nat,
                       sigma : Low .. High]
      /\ ~g_saved'.have
  <2>1. gate' \in Gates /\ ~gate'.rest /\ gate'.sustain = 0
    BY AwaitingIs DEF FilterInv, FilterTypes
  <2>2. g_coarse' \in Offsets /\ g_coarse'.n = 0 /\ ~g_coarse'.done
    <3>1. g_coarse' = [g_coarse EXCEPT !.n = 0, !.done = FALSE, !.from = epoch']
          /\ g_coarse \in Offsets
      BY DEF FilterInv, FilterTypes
    <3> DEFINE now == epoch'
    <3>2. now \in Nat /\ 0 \in Nat /\ FALSE \in BOOLEAN
      BY <1>1
    <3>3. g_coarse' = [g_coarse EXCEPT !.n = 0, !.done = FALSE, !.from = now]
      BY <3>1
    <3> HIDE DEF now
    <3>4. g_coarse' \in Offsets
      BY <3>1, <3>2, <3>3, Zenon DEF Offsets
    <3>5. g_coarse'.n = 0 /\ ~g_coarse'.done
      BY <3>1, <3>3 DEF Offsets
    <3> QED BY <3>4, <3>5
  <2>3. g_saved' = [g_saved EXCEPT !.have = FALSE]
    BY DEF SavedForgotten
  <2>4. g_saved' \in [have : BOOLEAN, val : 0 .. MAX_BIAS, from : Nat,
                      sigma : Low .. High]
        /\ ~g_saved'.have
    BY <2>3 DEF FilterInv, FilterTypes
  <2> QED BY <2>1, <2>2, <2>4
<1>3. \/ fusion = "idle" /\ torn' = {}
      \/ fusion = "gate" /\ torn' = {"gate"}
      \/ fusion \notin {"idle", "gate"} /\ torn' = torn \cup {"reset"}
  BY DEF Heals
<1>4. FilterTypes'
  <2>1. main' \in {"loop", "up", "down"} /\ active' \in BOOLEAN
    BY Zenon DEF FilterInv, FilterTypes
  <2>. g_bias_ok' \in BOOLEAN /\ g_bias_latched' \in BOOLEAN /\ good' = 0
    OBVIOUS
  <2>2. torn' \subseteq {"reset", "resume", "gate"}
    BY <1>3 DEF FilterInv, FilterTypes
  <2>3. UNCHANGED <<g_bias_prev, fusion, local>>
    OBVIOUS
  <2> QED BY <1>1, <1>2, <2>1, <2>2, <2>3, ConstantTypes DEF FilterInv, FilterTypes, LocalOK
<1>5. Earned'
  BY <1>2, <1>3, <1>4 DEF FilterInv, FilterTypes, Earned
<1>6. OfEpoch'
  BY <1>1, <1>2, <1>3 DEF OfEpoch
<1>7. Clamped'
  BY <1>3 DEF Clamped
<1>8. Resumable'
  <2>1. active'
    BY DEF FilterInv, FilterTypes
  <2>2. ASSUME torn' = {}, main' = "up"
        PROVE  fusion' = "idle" /\ burst' = 0
    BY <1>3, <2>2 DEF FilterInv, FilterTypes
  <2>3. ~g_bias_ok' /\ ~g_bias_latched'
    OBVIOUS
  <2> QED BY <1>1, <2>1, <2>2, <2>3 DEF Resumable, Low, High
<1> QED BY <1>4, <1>5, <1>6, <1>7, <1>8 DEF FilterInv

LEMMA StandbyIInv ==
  ASSUME FilterInv, Suspend \/ PoweredDown \/ EnterActive
  PROVE  FilterInv'
<1>1. /\ UNCHANGED <<biasVars, epoch, g_coarse, gate, fusion, local, good, torn>>
      /\ main' \in {"loop", "up", "down"} /\ active' \in BOOLEAN
      /\ \/ /\ UNCHANGED g_saved
            /\ ~active' => ~active /\ main' # "up"
            /\ main' = "up" => ~active
         \/ /\ ~active' /\ main' = "down"
            /\ g_saved' = [have |-> TRUE, val |-> filt.val, from |-> filt.from,
                           sigma |-> filt.sigma]
  <2>1. CASE Suspend
    BY <2>1 DEF Suspend
  <2>2. CASE PoweredDown
    BY <2>2 DEF PoweredDown, FilterInv, FilterTypes, Resumable
  <2>3. CASE EnterActive
    BY <2>3 DEF EnterActive
  <2> QED BY <2>1, <2>2, <2>3
<1>2. FilterTypes'
  <2>1. g_saved' \in [have : BOOLEAN, val : 0 .. MAX_BIAS, from : Nat,
                      sigma : Low .. High]
    <3>1. /\ filt.val \in 0 .. MAX_BIAS /\ filt.from \in Nat
          /\ filt.sigma \in Low .. High
      BY DEF FilterInv, FilterTypes, Filters
    <3>2. ASSUME g_saved' = [have |-> TRUE, val |-> filt.val,
                             from |-> filt.from, sigma |-> filt.sigma]
          PROVE  <2>1!:
      BY <3>1, <3>2, Zenon
    <3> QED BY <1>1, <3>2 DEF FilterInv, FilterTypes
  <2> QED BY <1>1, <2>1 DEF FilterInv, FilterTypes, LocalOK, biasVars
<1>3. Earned'
  BY <1>1 DEF FilterInv, Earned
<1>4. OfEpoch'
  BY <1>1 DEF FilterInv, OfEpoch, biasVars
<1>5. Clamped'
  BY <1>1 DEF FilterInv, Clamped, Bias, biasVars
<1>6. Resumable'
  BY <1>1 DEF FilterInv, Resumable, biasVars
<1> QED BY <1>2, <1>3, <1>4, <1>5, <1>6 DEF FilterInv

LEMMA ResumeIInv ==
  ASSUME FilterInv, Resume
  PROVE  FilterInv'
<1> USE DEF Resume
<1>1. \/ /\ g_saved.have /\ filt' \in Filters /\ filt'.from = g_saved.from
         /\ g_bias_prev' = Bias(g_saved) /\ Bias(filt') = Bias(g_saved)
      \/ ~g_saved.have /\ filt' = Fresh(epoch) /\ UNCHANGED g_bias_prev
  <2>1. CASE g_saved.have
    <3>1. /\ g_saved.val \in 0 .. MAX_BIAS /\ g_saved.from \in Nat
          /\ g_saved.sigma \in Low .. High /\ 0 \in 0 .. REST_MIN
      BY ConstantTypes DEF FilterInv, FilterTypes
    <3>2. filt' = [val |-> g_saved.val, from |-> g_saved.from,
                   sigma |-> g_saved.sigma, restT |-> 0]
      BY <2>1 DEF Fresh
    <3> QED BY <2>1, <3>1, <3>2 DEF Filters, Bias
  <2>2. CASE ~g_saved.have
    BY <2>2
  <2> QED BY <2>1, <2>2
<1>2. filt' \in Filters /\ g_bias_prev' \in [val : 0 .. MAX_BIAS, from : Nat]
  BY <1>1, FreshIs DEF FilterInv, FilterTypes, Bias
<1>3. gate' \in Gates /\ ~gate'.rest /\ gate'.sustain = 0
  BY AwaitingIs DEF FilterInv, FilterTypes
<1>4. \/ fusion = "idle" /\ torn' = torn
      \/ fusion = "gate" /\ torn' = torn \cup {"gate"}
      \/ fusion \notin {"idle", "gate"} /\ torn' = torn \cup {"resume"}
  BY DEF Tears
<1>5. FilterTypes'
  BY <1>2, <1>3, <1>4, ConstantTypes DEF FilterInv, FilterTypes, LocalOK
<1>6. Earned'
  BY <1>3, <1>4, <1>5 DEF FilterInv, FilterTypes, Earned
<1>7. OfEpoch'
  BY <1>1, <1>4, FreshIs DEF FilterInv, FilterTypes, OfEpoch, Bias
<1>8. Clamped'
  <2>1. fusion = "idle" /\ torn = {} /\ g_bias_latched => g_bias_prev' = Bias(filt')
    BY <1>1 DEF FilterInv, Resumable
  <2> QED BY <1>4, <2>1 DEF Clamped
<1>9. Resumable'
  BY DEF FilterInv, Resumable
<1> QED BY <1>5, <1>6, <1>7, <1>8, <1>9 DEF FilterInv

-----------------------------------------------------------------------------
LEMMA FilterKeeps == FilterInv /\ [Next]_vars => FilterInv'
<1>1. ASSUME FilterInv, UNCHANGED vars PROVE FilterInv'
  BY <1>1 DEF vars, biasVars, mainVars, FilterInv, FilterTypes, LocalOK, Earned, OfEpoch,
              Clamped, Resumable, Bias
<1> QED
  BY <1>1, SampleIInv, CoarseIInv, FilterIInv, JudgeIInv, LatchIInv, ClampIInv,
     GateIInv, RetuneIInv, ResetIInv, StandbyIInv, ResumeIInv DEF Next

LEMMA FilterInvariance == Spec => []FilterInv
BY FilterStarts, FilterKeeps, PTL DEF Spec

(* After a reset nothing is left of the bias learnt before it, and a new   *)
(* offset is of after it, wherever in an update it fell, but for the       *)
(* updates and changes of rate that it cut short, until a reset that cuts  *)
(* none.                                                                   *)
THEOREM ResetLeavesNothing == Spec => []ResetForgets
<1>1. FilterInv => ResetForgets
  BY DEF FilterInv, OfEpoch, ResetForgets, BiasForgotten
<1> QED BY <1>1, FilterInvariance, PTL

(* REST is reported only once the whole of REST_SUSTAIN_S has been quiet.  *)
THEOREM RestIsEarned == Spec => []RestEarned
<1>1. FilterInv => RestEarned
  BY DEF FilterInv, Earned, RestEarned
<1> QED BY <1>1, FilterInvariance, PTL

(* The filter never integrates with a bias that the clamp has refused.     *)
THEOREM ClampIsKept == Spec => []ClampHolds
<1>1. FilterInv => ClampHolds
  BY DEF FilterInv, Clamped, ClampHolds
<1> QED BY <1>1, FilterInvariance, PTL

-----------------------------------------------------------------------------
(* The radio.                                                              *)

(* The mutex is held exactly in the two critical sections.                 *)
MutexHeld ==
  /\ radio_lock = "control" <=> control # "sleep"
  /\ radio_lock = "fusion" <=> sender.pc = "write"

(* What main has done to the radio where it stands, and the failures of the*)
(* listen it is in.                                                        *)
MainProgress ==
  /\ control = "settle" => failed = 0
  /\ control = "window" => failed = 0 /\ radio = Configured("PRX")
  /\ control = "restore" => failed = 1
  /\ control = "sleep" /\ failed < 2 => (radio.in_ptx <=> Ready)

(* The check that htk_radio_send() made stays true until it writes, and a  *)
(* packet under construction is one of those still to be sent.             *)
CheckHolds ==
  /\ sender.pc = "write" => radio.in_ptx
  /\ sender.pc = "build" => sender.left > 0

RadioInv == TypeOK /\ MutexHeld /\ MainProgress /\ CheckHolds

-----------------------------------------------------------------------------
LEMMA ConfiguredType ==
  ASSUME NEW m \in {"PTX", "PRX"}
  PROVE  Configured(m) \in Radios
BY DEF Configured, Radios

LEMMA ConfiguredFields ==
  /\ Configured("PTX").in_ptx = TRUE
  /\ Configured("PRX").in_ptx = FALSE
  /\ \A m : Configured(m).addressed = TRUE
BY DEF Configured

LEMMA FailuresType ==
  ASSUME NEW r \in Radios, NEW m \in {"PTX", "PRX"}
  PROVE  \A x \in Failures(r, m) :
           x \in Radios /\ x.in_ptx = r.in_ptx /\ x.addressed = FALSE
BY DEF Failures, Radios

LEMMA RadioStarts == RadioInit => RadioInv
<1> SUFFICES ASSUME RadioInit PROVE RadioInv
  OBVIOUS
<1> USE RadioAssumption DEF RadioInit
<1>1. TypeOK
  <2>1. radio \in Radios
    BY ConfiguredType
  <2>2. fifo \in Seq(0 .. SEQ_MOD - 1) /\ Len(fifo) <= TX_FIFO
    OBVIOUS
  <2> QED BY <2>1, <2>2 DEF TypeOK, Modes
<1>2. MutexHeld
  BY DEF MutexHeld
<1>3. MainProgress
  BY DEF MainProgress, Ready, Configured
<1>4. CheckHolds
  BY DEF CheckHolds
<1> QED BY <1>1, <1>2, <1>3, <1>4 DEF RadioInv

-----------------------------------------------------------------------------
(* Steps of the fusion thread and of the radio leave main and the radio's  *)
(* setup alone.                                                            *)
LEMMA SenderKeeps ==
  ASSUME RadioInv, Fusion
  PROVE  RadioInv'
<1> DEFINE Threads == [pc : {"wait", "build", "send", "write"}, left : 0 .. 2,
                       pkt : 0 .. SEQ_MOD - 1]
<1>1. /\ TypeOK /\ MutexHeld /\ MainProgress /\ CheckHolds
      /\ sender \in Threads
  BY DEF RadioInv, TypeOK
<1>2. UNCHANGED <<radio, control, streaming, mode, sent, faults, failed>>
  BY DEF Fusion, FusionSkip, FusionSample, FusionBuild, FusionBusy,
         FusionAgain, FusionLock, FusionWrite, radioVars
<1>3. seq' \in 0 .. SEQ_MOD - 1
  BY <1>1, RadioAssumption
     DEF Fusion, FusionSkip, FusionSample, FusionBuild, FusionBusy,
         FusionAgain, FusionLock, FusionWrite, radioVars, TypeOK
<1>4. fifo' \in Seq(0 .. SEQ_MOD - 1) /\ Len(fifo') <= TX_FIFO
  <2>1. CASE FusionWrite
    <3>1. sender.pkt \in 0 .. SEQ_MOD - 1 /\ fifo \in Seq(0 .. SEQ_MOD - 1)
      BY <1>1 DEF TypeOK
    <3>2. fifo' \in {fifo, Append(fifo, sender.pkt), <<sender.pkt>>}
      BY <2>1 DEF FusionWrite, Written
    <3>3. CASE fifo' = Append(fifo, sender.pkt) /\ Len(fifo) < TX_FIFO
      BY <3>1, <3>3, RadioAssumption
    <3>4. CASE fifo' = <<sender.pkt>>
      BY <3>1, <3>4, RadioAssumption
    <3>5. CASE fifo' = fifo
      BY <1>1, <3>5 DEF TypeOK
    <3> QED BY <2>1, <3>3, <3>4, <3>5 DEF FusionWrite, Written
  <2>2. CASE fifo' = fifo
    BY <1>1, <2>2 DEF TypeOK
  <2> QED BY <2>1, <2>2
          DEF Fusion, FusionSkip, FusionSample, FusionBuild, FusionBusy,
              FusionAgain, FusionLock, radioVars
<1>5. /\ Done \in Threads
      /\ Done.pc \in {"wait", "build"}
      /\ Done.pc = "build" => Done.left > 0
  BY <1>1 DEF Done
<1>6. /\ sender' \in Threads
      /\ sender'.pc = "build" => sender'.left > 0
  <2>1. CASE FusionSample
    <3>1. Packets(mode) \in 1 .. 2
      BY DEF Packets
    <3>2. sender' = [sender EXCEPT !.pc = "build", !.left = Packets(mode)]
      BY <2>1 DEF FusionSample
    <3>3. sender' = [pc |-> "build", left |-> Packets(mode), pkt |-> sender.pkt]
      BY <1>1, <3>2
    <3>4. sender' \in Threads /\ sender'.left = Packets(mode)
      BY <1>1, <3>1, <3>3
    <3> QED BY <3>1, <3>4
  <2>2. CASE FusionBuild
    BY <1>1, <2>2 DEF FusionBuild, CheckHolds, TypeOK
  <2>3. CASE FusionLock
    BY <1>1, <2>3 DEF FusionLock
  <2>4. CASE sender' = Done
    BY <1>5, <2>4
  <2>5. CASE sender' = sender
    BY <1>1, <2>5 DEF CheckHolds
  <2> QED BY <2>1, <2>2, <2>3, <2>4, <2>5
          DEF Fusion, FusionSkip, FusionBusy, FusionAgain, FusionWrite,
              radioVars
<1>7. /\ radio_lock' \in {"free", "fusion", "control"}
      /\ radio_lock' = "control" <=> radio_lock = "control"
      /\ radio_lock' = "fusion" <=> sender'.pc = "write"
      /\ sender'.pc = "write" => radio.in_ptx
  <2>1. CASE FusionLock
    BY <1>1, <2>1 DEF FusionLock, Acquirable, MutexHeld
  <2>2. CASE FusionWrite
    BY <1>1, <1>5, <2>2 DEF FusionWrite, Released, MutexHeld
  <2>3. CASE sender' = Done /\ sender.pc = "send" /\ radio_lock' = radio_lock
    BY <1>1, <1>5, <2>3 DEF MutexHeld, TypeOK
  <2>4. CASE FusionSample
    BY <1>1, <2>4 DEF FusionSample, MutexHeld, TypeOK
  <2>5. CASE FusionBuild
    BY <1>1, <2>5 DEF FusionBuild, MutexHeld, TypeOK
  <2>6. CASE FusionSkip
    BY <1>1, <2>6 DEF FusionSkip, radioVars, MutexHeld, CheckHolds, TypeOK
  <2> QED BY <2>1, <2>2, <2>3, <2>4, <2>5, <2>6
          DEF Fusion, FusionBusy, FusionAgain
<1>8. TypeOK'
  BY <1>1, <1>2, <1>3, <1>4, <1>6, <1>7 DEF TypeOK
<1>9. MutexHeld' /\ MainProgress' /\ CheckHolds'
  BY <1>1, <1>2, <1>6, <1>7 DEF MutexHeld, MainProgress, CheckHolds, Ready
<1> QED BY <1>8, <1>9 DEF RadioInv

LEMMA AirKeeps ==
  ASSUME RadioInv, AirTx
  PROVE  RadioInv'
<1> USE RadioAssumption DEF RadioInv, AirTx
<1>1. fifo' \in Seq(0 .. SEQ_MOD - 1) /\ Len(fifo') <= TX_FIFO
  BY DEF TypeOK
<1>2. sent' \in 0 .. SEQ_MOD - 1
  BY DEF TypeOK
<1>3. TypeOK'
  BY <1>1, <1>2 DEF TypeOK
<1>4. MutexHeld' /\ MainProgress' /\ CheckHolds'
  BY DEF MutexHeld, MainProgress, CheckHolds, Ready
<1> QED BY <1>3, <1>4

LEMMA ListenKeeps ==
  ASSUME RadioInv, ListenLock
  PROVE  RadioInv'
BY RadioAssumption
   DEF RadioInv, ListenLock, TypeOK, MutexHeld, MainProgress, CheckHolds, Ready

(* Main reconfigures the radio only with the mutex in hand, so the fusion  *)
(* thread is not between its check and its write.                          *)
LEMMA TurnKeeps ==
  ASSUME RadioInv, Turn
  PROVE  RadioInv'
<1> USE RadioAssumption DEF RadioInv
<1>1. radio_lock = "control" /\ sender.pc # "write"
  BY DEF Turn, TurnToPrx, TurnToPtx, MutexHeld
<1>2. CASE TurnToPrx
  <2>1. \/ /\ control' = "window" /\ radio' = Configured("PRX")
           /\ UNCHANGED <<faults, failed>>
        \/ /\ control' = "restore" /\ radio' \in ListenFailures(radio)
           /\ faults < MaxFaults
           /\ faults' = faults + 1 /\ failed' = failed + 1
    BY <1>2 DEF TurnToPrx
  <2>2. failed = 0 /\ fifo' = <<>>
        /\ UNCHANGED <<radio_lock, sender, streaming, mode, seq, sent>>
    BY <1>2 DEF TurnToPrx, MainProgress
  <2>3. radio' \in Radios
    BY <2>1, ConfiguredType, FailuresType DEF TypeOK, ListenFailures
  <2>4. TypeOK'
    <3>1. fifo' \in Seq(0 .. SEQ_MOD - 1) /\ Len(fifo') <= TX_FIFO
      BY <2>2
    <3> QED BY <2>1, <2>2, <2>3, <3>1 DEF TypeOK
  <2>5. MutexHeld' /\ MainProgress' /\ CheckHolds'
    BY <1>1, <2>1, <2>2 DEF MutexHeld, MainProgress, CheckHolds
  <2> QED BY <2>4, <2>5
<1>3. CASE TurnToPtx
  <2>1. /\ fifo' = <<>> /\ radio_lock' = "free" /\ control' = "sleep"
        /\ streaming' \in BOOLEAN /\ mode' \in Modes
        /\ UNCHANGED <<sender, seq, sent>>
    BY <1>3 DEF TurnToPtx, Unlocked
  <2>2. failed \in 0 .. 1 /\ (failed = 0 => radio = Configured("PRX"))
    BY <1>3 DEF TurnToPtx, MainProgress
  <2>3. \/ radio' = Configured("PTX") /\ UNCHANGED <<faults, failed>>
        \/ /\ radio' \in Failures(radio, "PTX")
           /\ faults < MaxFaults
           /\ faults' = faults + 1 /\ failed' = failed + 1
    BY <1>3 DEF TurnToPtx
  <2>4. radio' \in Radios
    BY <2>3, ConfiguredType, FailuresType DEF TypeOK
  <2>5. TypeOK'
    <3>1. fifo' \in Seq(0 .. SEQ_MOD - 1) /\ Len(fifo') <= TX_FIFO
      BY <2>1
    <3> QED BY <2>1, <2>2, <2>3, <2>4, <3>1 DEF TypeOK
  <2>6. failed' < 2 => (radio'.in_ptx <=> radio' = Configured("PTX"))
    <3>1. CASE radio' = Configured("PTX")
      BY <3>1, ConfiguredFields
    <3>2. CASE radio' \in Failures(radio, "PTX") /\ failed' = failed + 1
                /\ failed' < 2
      <4>1. radio = Configured("PRX")
        BY <2>2, <3>2
      <4>2. radio'.in_ptx = radio.in_ptx /\ radio'.addressed = FALSE
        BY <3>2, FailuresType DEF TypeOK
      <4>3. radio'.in_ptx = FALSE /\ radio' # Configured("PTX")
        BY <4>1, <4>2, ConfiguredFields
      <4> QED BY <4>3
    <3> QED BY <2>3, <3>1, <3>2
  <2>7. MutexHeld' /\ MainProgress' /\ CheckHolds'
    BY <1>1, <2>1, <2>6 DEF MutexHeld, MainProgress, CheckHolds, Ready
  <2> QED BY <2>5, <2>7
<1> QED BY <1>2, <1>3 DEF Turn

LEMMA RadioKeeps == RadioInv /\ [RadioNext]_radioVars => RadioInv'
<1> SUFFICES ASSUME RadioInv, [RadioNext]_radioVars PROVE RadioInv'
  OBVIOUS
<1>1. CASE RadioNext
  BY <1>1, SenderKeeps, AirKeeps, ListenKeeps, TurnKeeps DEF RadioNext
<1>2. CASE UNCHANGED radioVars
  BY <1>2 DEF radioVars, RadioInv, TypeOK, MutexHeld, MainProgress, CheckHolds,
              Ready
<1> QED BY <1>1, <1>2

-----------------------------------------------------------------------------
LEMMA RadioInvariance == RadioSpec => []RadioInv
BY RadioStarts, RadioKeeps, PTL DEF RadioSpec

(* Every variable keeps its type; the ESB FIFO is never overfilled.        *)
THEOREM RadioTypeCorrect == RadioSpec => []TypeOK
<1>1. RadioInv => TypeOK
  BY DEF RadioInv
<1> QED BY <1>1, RadioInvariance, PTL

(* Between listens in_ptx tells the truth about the radio, unless both     *)
(* reconfigurations of the last one failed.                                *)
THEOREM FlagAlwaysTruthful == RadioSpec => []FlagTruthful
<1>1. RadioInv => FlagTruthful
  BY DEF RadioInv, FlagTruthful, MutexHeld, MainProgress
<1> QED BY <1>1, RadioInvariance, PTL

(* No sample is written to a radio that is turned round or half set up: the*)
(* mutex carries the check of in_ptx over to the write.                    *)
THEOREM WriteAlwaysFindsUplink == RadioSpec => []WriteFindsUplink
<1>1. RadioInv => WriteFindsUplink
  BY DEF RadioInv, WriteFindsUplink, MutexHeld, MainProgress, CheckHolds
<1> QED BY <1>1, RadioInvariance, PTL
=============================================================================
