--------------------------- MODULE SampleLoopProofs ---------------------------
(***************************************************************************)
(* SampleLoop for every sensor, window, set of rates and timing of taps,   *)
(* and any number of standbys, commands and lost samples: the measurement  *)
(* of the true rate, the decimation and the detector of double taps; and   *)
(* that taps are signalled as edges of their own, if the hold of the flag  *)
(* outlasts the lag of the fusion thread and a listen window.              *)
(***************************************************************************)
EXTENDS SampleLoop, SequenceTheorems, WellFoundedInduction, TLAPS

Samples == [dt : Nat, acc : Accs]

TypeOK ==
  /\ period \in Periods
  /\ gap \in Nat
  /\ imu_msgq \in Seq(Samples)
  /\ fusion \in {"get", "tap", "blip", "send"}
  /\ odr \in [have_prev : BOOLEAN, n : 0 .. ODR_WINDOW - 1, sum : Nat,
              corrected : BOOLEAN]
  /\ blemished \in BOOLEAN /\ misled \in BOOLEAN
  /\ g_tx_div \in 1 .. Largest /\ decim \in Nat
  /\ tapdet \in [state : {"IDLE", "SHOCK1", "GAP", "REFRACTORY"},
                 since : 0 .. REFRACTORY + 1, warmup : Nat]
  /\ lull \in 0 .. NoLull
  /\ identify_ticks \in 0 .. IDENTIFY_TICKS

(* Until the rate is corrected the window sums nothing but what its own    *)
(* samples lasted, unless one is missing; from then on the rate stays.     *)
Measured ==
  /\ odr.corrected => (~misled => rate = period * ODR_WINDOW)
  /\ ~odr.corrected =>
       /\ rate = NOMINAL * ODR_WINDOW
       /\ ~blemished => odr.sum = odr.n * period

(* The samples held back are the ones counted.                             *)
Paced == unsent = decim /\ decim < Largest

(* The detector's own clock runs with the time since the first shock ended.*)
Marking ==
  /\ tapdet.warmup > 0 => tapdet.state = "IDLE"
  /\ tapdet.state = "SHOCK1" => lull = InShock
  /\ tapdet.state = "GAP" => lull = tapdet.since /\ lull <= GAP_MAX

IInv == TypeOK /\ Measured /\ Paced /\ Marking

-----------------------------------------------------------------------------
LEMMA ConstantTypes ==
  /\ QUEUE \in Nat /\ QUEUE > 0
  /\ ODR_WINDOW \in Nat /\ ODR_WINDOW > 0
  /\ NOMINAL \in Nat /\ NOMINAL > 0
  /\ Periods \subseteq Nat
  /\ BAND \in Nat /\ BAND < NOMINAL * ODR_WINDOW
  /\ WARMUP \in Nat
  /\ SHOCK_MAX \in Nat /\ GAP_MIN \in Nat /\ GAP_MAX \in Nat
  /\ REFRACTORY \in Nat /\ GAP_MAX < REFRACTORY
  /\ IDENTIFY_TICKS \in Nat /\ TAP_TICKS \in Nat /\ TAP_TICKS < IDENTIFY_TICKS
  /\ Gaps \subseteq Nat
BY SampleAssumption

(* The rates.  A least member is where CHOOSE finds what it is asked for.  *)

LEMMA LeastNat ==
  ASSUME NEW T, T \subseteq Nat, T # {}
  PROVE  \E x \in T : \A y \in T : x <= y
<1> DEFINE R == OpToRel(<, Nat)
<1>1. IsWellFoundedOn(R, Nat)
  BY NatLessThanWellFounded
<1>2. \A x, y \in Nat : y < x => <<y, x>> \in R
  BY DEF OpToRel
<1> HIDE DEF R
<1>3. PICK x \in T : \A y \in T : ~(<<y, x>> \in R)
  BY <1>1, WFMin
<1>4. ASSUME NEW y \in T PROVE x <= y
  <2>1. x \in Nat /\ y \in Nat
    OBVIOUS
  <2>2. ~(y < x)
    BY <1>2, <1>3, <2>1
  <2> QED BY <2>1, <2>2
<1> QED BY <1>4

LEMMA RateTypes ==
  /\ IMU_ODR_HZ \in Nat /\ IMU_ODR_HZ > 0
  /\ RATES # {} /\ RATES \subseteq Nat /\ 0 \notin RATES
  /\ \A r \in RATES : IMU_ODR_HZ % r = 0
  /\ Requests \subseteq Nat
BY SampleAssumption

LEMMA QuotientIs ==
  ASSUME NEW r \in RATES
  PROVE  /\ IMU_ODR_HZ \div r \in Nat \ {0}
         /\ IMU_ODR_HZ = r * (IMU_ODR_HZ \div r)
<1>1. /\ r \in Nat /\ r > 0
      /\ IMU_ODR_HZ % r = 0 /\ IMU_ODR_HZ \in Nat /\ IMU_ODR_HZ > 0
  BY RateTypes
<1>2. IMU_ODR_HZ = r * (IMU_ODR_HZ \div r) /\ IMU_ODR_HZ \div r \in Int
  BY <1>1
<1>3. IMU_ODR_HZ \div r > 0
  BY <1>1, <1>2
<1> QED BY <1>2, <1>3

LEMMA NearestExists ==
  ASSUME NEW hz \in Nat
  PROVE  \E r \in RATES : Nearest(hz, r)
<1> DEFINE d(x) == IF hz > x THEN hz - x ELSE x - hz
           D == {d(x) : x \in RATES}
<1>1. \A x \in RATES : x \in Nat /\ d(x) \in Nat
  BY RateTypes
<1>2. PICK m \in D : \A e \in D : m <= e
  <2>1. D \subseteq Nat /\ D # {}
    BY <1>1, RateTypes
  <2> HIDE DEF D
  <2> QED BY <2>1, LeastNat
<1> DEFINE M == {x \in RATES : d(x) = m}
<1>3. PICK r \in M : \A x \in M : r <= x
  <2>1. M \subseteq Nat /\ M # {}
    BY <1>1, <1>2
  <2> HIDE DEF M
  <2> QED BY <2>1, LeastNat
<1>4. ASSUME NEW x \in RATES
      PROVE  d(r) < d(x) \/ (d(r) = d(x) /\ r <= x)
  <2>1. d(x) \in D /\ d(r) = m /\ d(x) \in Nat /\ d(r) \in Nat
    BY <1>1, <1>3
  <2>2. m <= d(x)
    BY <1>2, <2>1
  <2>3. d(x) = m => x \in M
    OBVIOUS
  <2> HIDE DEF d, M
  <2> QED BY <1>3, <2>1, <2>2, <2>3
<1>5. r \in RATES
  BY <1>3
<1> QED BY <1>4, <1>5 DEF Nearest

LEMMA DividerBounds ==
  /\ Largest \in Nat \ {0}
  /\ \A hz \in Requests : Divider(hz) \in 1 .. Largest
<1> DEFINE Slowest(r) == \A x \in RATES : r <= x
           lo == CHOOSE r \in RATES : Slowest(r)
<1>1. lo \in RATES /\ \A x \in RATES : lo <= x
  <2>1. \E r \in RATES : Slowest(r)
    BY RateTypes, LeastNat
  <2> QED BY <2>1
<1>2. Largest = IMU_ODR_HZ \div lo
  BY DEF Largest
<1> HIDE DEF lo
<1>3. ASSUME NEW hz \in Requests PROVE Divider(hz) \in 1 .. Largest
  <2>1. PICK r \in RATES : Divider(hz) = IMU_ODR_HZ \div r
    <3>1. \E r \in RATES : Nearest(hz, r)
      BY NearestExists, RateTypes
    <3>2. (CHOOSE r \in RATES : Nearest(hz, r)) \in RATES
      BY <3>1
    <3> QED BY <3>2 DEF Divider
  <2> DEFINE q == IMU_ODR_HZ \div r
             p == IMU_ODR_HZ \div lo
  <2>2. /\ q \in Nat \ {0} /\ p \in Nat \ {0}
        /\ IMU_ODR_HZ = r * q /\ IMU_ODR_HZ = lo * p
    BY <1>1, QuotientIs
  <2>3. lo \in Nat /\ r \in Nat /\ lo > 0 /\ lo <= r
    BY <1>1, RateTypes
  <2> HIDE DEF p, q
  <2>4. q <= p
    <3>1. SUFFICES ASSUME q >= p + 1 PROVE FALSE
      BY <2>2
    <3>2. lo * q >= lo * (p + 1)
      BY <2>2, <2>3, <3>1
    <3>3. r * q >= lo * q
      BY <2>2, <2>3
    <3>4. lo * (p + 1) = lo * p + lo
      BY <2>2, <2>3
    <3> QED BY <2>2, <2>3, <3>2, <3>3, <3>4
  <2> QED BY <1>2, <2>1, <2>2, <2>4 DEF p, q
<1> QED BY <1>1, <1>2, <1>3, QuotientIs

LEMMA LaterIs ==
  ASSUME NEW a \in Nat, NEW b \in Nat
  PROVE  Later(a, b) \in 0 .. REFRACTORY + 1
BY ConstantTypes DEF Later

LEMMA InitIInv == Init => IInv
<1> SUFFICES ASSUME Init PROVE IInv
  OBVIOUS
<1> USE ConstantTypes DEF Init
<1>1. /\ period \in Periods /\ gap \in Nat /\ imu_msgq \in Seq(Samples)
      /\ fusion \in {"get", "tap", "blip", "send"}
      /\ blemished \in BOOLEAN /\ misled \in BOOLEAN
      /\ decim \in Nat
  BY EmptySeq
<1>2. /\ odr \in [have_prev : BOOLEAN, n : 0 .. ODR_WINDOW - 1, sum : Nat,
                  corrected : BOOLEAN]
      /\ odr.n = 0 /\ odr.sum = 0 /\ ~odr.corrected
  OBVIOUS
<1>3. /\ tapdet \in [state : {"IDLE", "SHOCK1", "GAP", "REFRACTORY"},
                     since : 0 .. REFRACTORY + 1, warmup : Nat]
      /\ tapdet.state = "IDLE"
  OBVIOUS
<1>4. lull \in 0 .. NoLull /\ identify_ticks \in 0 .. IDENTIFY_TICKS
  BY DEF NoLull
<1>5. g_tx_div \in 1 .. Largest /\ Largest > 0
  BY DividerBounds
<1>6. TypeOK
  BY <1>1, <1>2, <1>3, <1>4, <1>5 DEF TypeOK
<1>7. Measured
  BY <1>2 DEF Measured
<1>8. Paced /\ Marking
  BY <1>3, <1>5 DEF Paced, Marking
<1> QED BY <1>6, <1>7, <1>8 DEF IInv

-----------------------------------------------------------------------------
(* The data-ready handler: what it queues is a sample, whatever it evicts. *)

LEMMA DrdyIInv ==
  ASSUME IInv, NEW acc \in Accs, Drdy(acc)
  PROVE  IInv'
<1> USE DEF Drdy, Passes, mainVars, odrVars, tapVars
<1> DEFINE q == Append(imu_msgq, [dt |-> Later(1, gap), acc |-> acc])
<1>1. /\ imu_msgq \in Seq(Samples) /\ Len(imu_msgq) \in Nat
      /\ [dt |-> Later(1, gap), acc |-> acc] \in Samples
  BY LaterIs, LenProperties DEF IInv, TypeOK, Samples
<1>2. q \in Seq(Samples) /\ Len(q) = Len(imu_msgq) + 1 /\ q # <<>>
  BY <1>1, AppendProperties
<1>3. imu_msgq' \in {q, Evicted(q)} /\ (imu_msgq' = q \/ Len(imu_msgq) >= QUEUE)
  BY <1>1, ConstantTypes
<1> HIDE DEF q
<1>4. imu_msgq' \in Seq(Samples)
  <2>1. CASE imu_msgq' = q
    BY <1>2, <2>1
  <2>2. CASE imu_msgq' = Evicted(q) /\ Len(imu_msgq) >= QUEUE
    <3> DEFINE s == Tail(q)
               e == [s[1] EXCEPT !.dt = Later(s[1].dt, Head(q).dt)]
    <3>1. s \in Seq(Samples) /\ Head(q) \in Samples /\ 1 \in 1 .. Len(s)
      BY <1>1, <1>2, <2>2, ConstantTypes, HeadTailProperties
    <3>2. s[1] \in Samples
      BY <3>1, ElementOfSeq
    <3>3. e \in Samples
      <4>1. Later(s[1].dt, Head(q).dt) \in Nat
        <5> HIDE DEF s
        <5>1. s[1].dt \in Nat /\ Head(q).dt \in Nat
          BY <3>1, <3>2 DEF Samples
        <5>2. Later(s[1].dt, Head(q).dt) \in 0 .. REFRACTORY + 1
          BY <5>1, LaterIs
        <5> QED BY <5>2
      <4> HIDE DEF s
      <4> QED BY <3>2, <4>1 DEF Samples
    <3>4. imu_msgq' = [s EXCEPT ![1] = e]
      BY <2>2 DEF Evicted
    <3> HIDE DEF s, e
    <3> QED BY <3>1, <3>3, <3>4, ExceptSeq
  <2> QED BY <1>3, <2>1, <2>2
<1>5. TypeOK'
  BY <1>4 DEF IInv, TypeOK
<1>6. Measured' /\ Paced' /\ Marking'
  BY DEF IInv, Measured, Paced, Marking
<1> QED BY <1>5, <1>6 DEF IInv

\* A sample that is lost is time without one.
LEMMA DrdyFailsIInv ==
  ASSUME IInv, DrdyFails
  PROVE  IInv'
<1> USE DEF DrdyFails, mainVars, odrVars, tapVars
<1>1. gap' \in Nat
  BY LaterIs DEF IInv, TypeOK
<1>2. TypeOK'
  BY <1>1 DEF IInv, TypeOK
<1>3. Measured' /\ Paced' /\ Marking'
  BY DEF IInv, Measured, Paced, Marking
<1> QED BY <1>2, <1>3 DEF IInv

-----------------------------------------------------------------------------
(* A sample is taken.  First the measurement: the sum of a window without a*)
(* gap is its count of true periods, so that it is either taken for nominal*)
(* and forgotten, or becomes the rate.                                     *)

LEMMA MeasureIs ==
  ASSUME IInv, NEW d \in Nat, Measure(d), period' = period
  PROVE  /\ odr' \in [have_prev : BOOLEAN, n : 0 .. ODR_WINDOW - 1, sum : Nat,
                      corrected : BOOLEAN]
         /\ blemished' \in BOOLEAN /\ misled' \in BOOLEAN
         /\ Measured'
<1> USE ConstantTypes
<1>1. /\ odr \in [have_prev : BOOLEAN, n : 0 .. ODR_WINDOW - 1, sum : Nat,
                  corrected : BOOLEAN]
      /\ blemished \in BOOLEAN /\ misled \in BOOLEAN /\ period \in Nat
  BY DEF IInv, TypeOK
<1>2. Measured
  BY DEF IInv
<1>3. CASE ~odr.have_prev \/ odr.corrected
  <2>1. /\ odr' = [odr EXCEPT !.have_prev = TRUE]
        /\ UNCHANGED <<rate, blemished, misled>>
    BY <1>3 DEF Measure
  <2>2. /\ odr'.n = odr.n /\ odr'.sum = odr.sum
        /\ odr'.corrected <=> odr.corrected
    BY <1>1, <2>1
  <2>3. odr' \in [have_prev : BOOLEAN, n : 0 .. ODR_WINDOW - 1, sum : Nat,
                  corrected : BOOLEAN]
    BY <1>1, <2>1, Zenon
  <2> QED BY <1>1, <1>2, <2>1, <2>2, <2>3 DEF Measured
<1>4. CASE odr.have_prev /\ ~odr.corrected
  <2> DEFINE o == [odr EXCEPT !.n = odr.n + 1, !.sum = odr.sum + d * period]
             b == blemished \/ d # 1
  <2>1. IF o.n < ODR_WINDOW
        THEN odr' = o /\ blemished' = b /\ UNCHANGED <<rate, misled>>
        ELSE /\ odr' = [Restarted(o) EXCEPT !.corrected = ~InBand(o.sum)]
             /\ rate' = IF InBand(o.sum) THEN rate ELSE o.sum
             /\ misled' = (b /\ ~InBand(o.sum))
             /\ blemished' = FALSE
    BY <1>4 DEF Measure
  <2>2. odr.sum + d * period \in Nat /\ odr.n + 1 \in Nat
    BY <1>1
  <2>3. /\ o.n = odr.n + 1 /\ o.sum = odr.sum + d * period
        /\ ~o.corrected /\ o.have_prev
    BY <1>1, <1>4
  <2>4. o \in [have_prev : BOOLEAN, n : Nat, sum : Nat, corrected : BOOLEAN]
    BY <1>1, <2>2, Zenon
  <2>5. ~b => o.sum = o.n * period
    <3>1. ASSUME ~b PROVE odr.sum + 1 * period = (odr.n + 1) * period
      BY <1>1, <1>2, <1>4, <3>1 DEF Measured
    <3> QED BY <2>3, <3>1
  <2> HIDE DEF o, b
  <2>6. CASE o.n < ODR_WINDOW
    <3>1. odr' = o /\ blemished' = b /\ rate' = rate /\ misled' = misled
      BY <2>1, <2>6
    <3>2. o \in [have_prev : BOOLEAN, n : 0 .. ODR_WINDOW - 1, sum : Nat,
                 corrected : BOOLEAN]
      BY <2>4, <2>6
    <3>3. b \in BOOLEAN
      BY <1>1 DEF b
    <3>4. Measured'
      BY <1>2, <1>4, <2>3, <2>5, <3>1 DEF Measured
    <3> QED BY <1>1, <3>1, <3>2, <3>3, <3>4
  <2>7. CASE ~(o.n < ODR_WINDOW)
    <3>1. /\ odr' = [Restarted(o) EXCEPT !.corrected = ~InBand(o.sum)]
          /\ rate' = IF InBand(o.sum) THEN rate ELSE o.sum
          /\ misled' = (b /\ ~InBand(o.sum))
          /\ blemished' = FALSE
      BY <2>1, <2>7
    <3>2. o.n = ODR_WINDOW
      BY <1>1, <2>3, <2>7
    <3>3. /\ odr'.n = 0 /\ odr'.sum = 0
          /\ odr'.corrected <=> ~InBand(o.sum)
      BY <2>4, <3>1 DEF Restarted
    <3>4. odr' \in [have_prev : BOOLEAN, n : 0 .. ODR_WINDOW - 1, sum : Nat,
                    corrected : BOOLEAN]
      <4>1. 0 \in 0 .. ODR_WINDOW - 1 /\ 0 \in Nat
            /\ (~InBand(o.sum)) \in BOOLEAN
        BY DEF InBand
      <4>2. odr' = [o EXCEPT !.n = 0, !.sum = 0, !.corrected = ~InBand(o.sum)]
        BY <3>1 DEF Restarted
      <4> QED BY <2>4, <4>1, <4>2, Zenon
    <3>5. blemished' \in BOOLEAN /\ misled' \in BOOLEAN
      BY <3>1 DEF InBand
    <3>6. Measured'
      BY <1>1, <1>2, <1>4, <2>5, <3>1, <3>2, <3>3 DEF Measured
    <3> QED BY <3>4, <3>5, <3>6
  <2> QED BY <2>6, <2>7
<1> QED BY <1>1, <1>3, <1>4

(* Then the detector, and the time since the end of the last shock.        *)
LEMMA FedIs ==
  ASSUME IInv, NEW d \in Nat, NEW acc \in Accs,
         tapdet' = Fed(Later(tapdet.since, d), acc),
         lull' = Lulled(d, acc)
  PROVE  /\ tapdet' \in [state : {"IDLE", "SHOCK1", "GAP", "REFRACTORY"},
                         since : 0 .. REFRACTORY + 1, warmup : Nat]
         /\ lull' \in 0 .. NoLull
         /\ Marking'
<1> USE ConstantTypes
<1> DEFINE t == Later(tapdet.since, d)
<1>1. /\ tapdet \in [state : {"IDLE", "SHOCK1", "GAP", "REFRACTORY"},
                     since : 0 .. REFRACTORY + 1, warmup : Nat]
      /\ lull \in 0 .. NoLull /\ acc \in {"spike", "between", "quiet"}
  BY DEF IInv, TypeOK, Accs
<1>2. t \in 0 .. REFRACTORY + 1 /\ 0 \in 0 .. REFRACTORY + 1
  BY <1>1, LaterIs
<1>3. Marking
  BY DEF IInv
<1>4. lull' \in 0 .. NoLull
  BY <1>1 DEF Lulled, NoLull, InShock, Later
<1>5. /\ acc = "spike" => lull' = InShock
      /\ lull = InShock => lull' = IF acc = "quiet" THEN 0 ELSE InShock
      /\ acc # "spike" /\ lull = tapdet.since /\ lull <= GAP_MAX /\ t <= GAP_MAX
           => lull' = t
  BY <1>1 DEF Lulled, NoLull, InShock, Later
<1> HIDE DEF t
<1> DEFINE In(state, since) == [state |-> state, since |-> since, warmup |-> 0]
<1>6. \/ /\ tapdet.warmup > 0
         /\ tapdet' = [tapdet EXCEPT !.warmup = tapdet.warmup - 1]
      \/ tapdet' \in {In("IDLE", 0), In("REFRACTORY", 0), In("REFRACTORY", t)}
      \/ tapdet' = In("SHOCK1", 0) /\ acc = "spike"
      \/ tapdet' = In("SHOCK1", t) /\ lull = InShock /\ acc # "quiet"
      \/ tapdet' = In("GAP", 0) /\ lull = InShock /\ acc = "quiet"
      \/ /\ tapdet' = In("GAP", t) /\ lull = tapdet.since /\ acc # "spike"
         /\ lull <= GAP_MAX /\ t <= GAP_MAX
  BY <1>1, <1>2, <1>3 DEF Fed, Marked, Marking, t
<1>7. CASE /\ tapdet.warmup > 0
           /\ tapdet' = [tapdet EXCEPT !.warmup = tapdet.warmup - 1]
  BY <1>1, <1>3, <1>4, <1>7 DEF Marking
<1>8. CASE tapdet' \in {In("IDLE", 0), In("REFRACTORY", 0), In("REFRACTORY", t)}
  BY <1>2, <1>4, <1>8 DEF Marking
<1>9. CASE tapdet' = In("SHOCK1", 0) /\ acc = "spike"
  BY <1>2, <1>4, <1>5, <1>9 DEF Marking
<1>10. CASE tapdet' = In("SHOCK1", t) /\ lull = InShock /\ acc # "quiet"
  BY <1>2, <1>4, <1>5, <1>10 DEF Marking
<1>11. CASE tapdet' = In("GAP", 0) /\ lull = InShock /\ acc = "quiet"
  BY <1>2, <1>4, <1>5, <1>11 DEF Marking
<1>12. CASE /\ tapdet' = In("GAP", t) /\ lull = tapdet.since /\ acc # "spike"
            /\ lull <= GAP_MAX /\ t <= GAP_MAX
  BY <1>2, <1>4, <1>5, <1>12 DEF Marking
<1> QED BY <1>6, <1>7, <1>8, <1>9, <1>10, <1>11, <1>12

LEMMA TakeIInv ==
  ASSUME IInv, Take
  PROVE  IInv'
<1> USE DEF Take, mainVars, timeVars
<1> DEFINE s == Head(imu_msgq)
<1>1. s \in Samples /\ imu_msgq' \in Seq(Samples)
  BY HeadTailProperties DEF IInv, TypeOK
<1>2. /\ Measure(s.dt) /\ tapdet' = Fed(Later(tapdet.since, s.dt), s.acc)
      /\ lull' = Lulled(s.dt, s.acc) /\ fusion' \in {"tap", "send"}
  OBVIOUS
<1>3. s.dt \in Nat /\ s.acc \in Accs
  BY <1>1 DEF Samples
<1> HIDE DEF s
<1>4. /\ odr' \in [have_prev : BOOLEAN, n : 0 .. ODR_WINDOW - 1, sum : Nat,
                   corrected : BOOLEAN]
      /\ blemished' \in BOOLEAN /\ misled' \in BOOLEAN
      /\ Measured'
  BY <1>2, <1>3, MeasureIs
<1>5. /\ tapdet' \in [state : {"IDLE", "SHOCK1", "GAP", "REFRACTORY"},
                      since : 0 .. REFRACTORY + 1, warmup : Nat]
      /\ lull' \in 0 .. NoLull
      /\ Marking'
  BY <1>2, <1>3, FedIs
<1>6. TypeOK'
  BY <1>1, <1>2, <1>4, <1>5 DEF IInv, TypeOK
<1>7. Paced'
  BY DEF IInv, Paced
<1> QED BY <1>4, <1>5, <1>6, <1>7 DEF IInv

LEMMA TapIInv ==
  ASSUME IInv, TapLook \/ TapBlip
  PROVE  IInv'
<1> USE DEF TapLook, TapBlip, mainVars, timeVars, odrVars, tapVars
<1>1. TypeOK'
  <2>1. identify_ticks' \in 0 .. IDENTIFY_TICKS
    <3>1. CASE TapLook
      BY <3>1, Zenon DEF IInv, TypeOK
    <3>2. CASE TapBlip
      <4>1. TAP_TICKS \in 0 .. IDENTIFY_TICKS
        BY ConstantTypes
      <4> QED BY <3>2, <4>1 DEF IInv, TypeOK
    <3> QED BY <3>1, <3>2
  <2>2. fusion' \in {"get", "tap", "blip", "send"}
        /\ UNCHANGED <<period, mainVars, timeVars, imu_msgq, odrVars, decim,
                       tapVars>>
    OBVIOUS
  <2> QED BY <2>1, <2>2 DEF IInv, TypeOK
<1>2. Measured' /\ Paced' /\ Marking'
  BY DEF IInv, Measured, Paced, Marking
<1> QED BY <1>1, <1>2 DEF IInv

(* A sample that is not sent counts, and leaves the count below the divider*)
(* of this moment, which is no more than the slowest rate's.               *)
LEMMA SendIInv ==
  ASSUME IInv, Send
  PROVE  IInv'
<1> USE DEF Send, mainVars, timeVars, odrVars, tapVars
<1>1. TypeOK'
  BY DEF IInv, TypeOK
<1>2. Paced'
  <2>1. g_tx_div \in 1 .. Largest /\ Largest \in Nat \ {0} /\ decim \in Nat
    BY DividerBounds DEF IInv, TypeOK
  <2>2. \/ decim' = 0 /\ unsent' = 0
        \/ ~Due(decim + 1) /\ decim' = decim + 1 /\ unsent' = unsent + 1
    OBVIOUS
  <2> QED BY <2>1, <2>2 DEF IInv, Paced, Due
<1>3. Measured' /\ Marking'
  BY DEF IInv, Measured, Marking
<1> QED BY <1>1, <1>2, <1>3 DEF IInv

-----------------------------------------------------------------------------
(* The main thread, and the timer of the LED.                              *)

LEMMA MainIInv ==
  ASSUME IInv,
         \/ Listen \/ WindowOver \/ Sleep
         \/ EnterStandby \/ PoweredDown \/ EnterActive \/ Resumed
         \/ \E hz \in Requests : SetRate(hz)
         \/ \E orient \in BOOLEAN : SetMode(orient)
  PROVE  IInv'
<1>1. /\ UNCHANGED <<period, imu_msgq, fusion, odrVars, decim, tapVars,
                     identify_ticks, unsent>>
      /\ gap' \in Nat /\ g_tx_div' \in 1 .. Largest
  <2>1. gap \in Nat /\ g_tx_div \in 1 .. Largest
    BY DEF IInv, TypeOK
  <2>2. CASE Listen \/ WindowOver \/ Sleep
    BY <2>1, <2>2 DEF Listen, WindowOver, Sleep, timeVars
  <2>3. CASE EnterStandby \/ PoweredDown \/ Resumed
    BY <2>1, <2>3 DEF EnterStandby, PoweredDown, Resumed, timeVars
  <2>4. CASE EnterActive
    BY <2>1, <2>4, ConstantTypes DEF EnterActive
  <2>5. CASE \E hz \in Requests : SetRate(hz)
    BY <2>1, <2>5, DividerBounds DEF SetRate, Command, timeVars
  <2>6. CASE \E orient \in BOOLEAN : SetMode(orient)
    BY <2>1, <2>6 DEF SetMode, Command, timeVars
  <2> QED BY <2>2, <2>3, <2>4, <2>5, <2>6
<1>2. TypeOK'
  BY <1>1 DEF IInv, TypeOK, odrVars, tapVars
<1>3. Measured' /\ Paced' /\ Marking'
  BY <1>1 DEF IInv, Measured, Paced, Marking, odrVars, tapVars
<1> QED BY <1>2, <1>3 DEF IInv

LEMMA LedIInv ==
  ASSUME IInv, Identify \/ LedTick
  PROVE  IInv'
<1> USE DEF Identify, Command, LedTick, mainVars, timeVars, odrVars, tapVars
<1>1. identify_ticks \in 0 .. IDENTIFY_TICKS
  BY DEF IInv, TypeOK
<1>2. identify_ticks' \in 0 .. IDENTIFY_TICKS
  BY <1>1, ConstantTypes
<1>3. TypeOK'
  BY <1>2 DEF IInv, TypeOK
<1>4. Measured' /\ Paced' /\ Marking'
  BY DEF IInv, Measured, Paced, Marking
<1> QED BY <1>3, <1>4 DEF IInv

LEMMA NextIInv == IInv /\ [Next]_vars => IInv'
<1>1. ASSUME IInv, UNCHANGED vars PROVE IInv'
  BY <1>1 DEF vars, mainVars, timeVars, odrVars, tapVars, IInv, TypeOK,
              Measured, Paced, Marking
<1> QED
  BY <1>1, DrdyIInv, DrdyFailsIInv, TakeIInv, TapIInv, SendIInv, MainIInv,
     LedIInv DEF Next

LEMMA Invariance == Spec => []IInv
BY InitIInv, NextIInv, PTL DEF Spec

-----------------------------------------------------------------------------
(* The filter's rate is the nominal one until it is corrected, and then the*)
(* true one of any sensor, unless the window had a gap.                    *)
THEOREM RateIsTrue == Spec => []RateTrueUnlessGap
<1>1. IInv => RateTrueUnlessGap
  BY DEF IInv, Measured, RateTrueUnlessGap
<1> QED BY <1>1, Invariance, PTL

(* A head that streams never holds back as many samples as the slowest rate*)
(* has between two packets, whatever the rates and however they change.    *)
THEOREM SendsInTime == Spec => []SendsOnTime
<1>1. IInv => SendsOnTime
  BY DEF IInv, Paced, SendsOnTime
<1> QED BY <1>1, Invariance, PTL

(* A double tap is reported only for a spike at the right time after the   *)
(* end of the shock before it.                                             *)
THEOREM TapsArePairs == Spec => TapPairs
<1>1. ASSUME IInv, Next, fusion' = "tap", fusion = "get"
      PROVE  /\ lull < InShock
             /\ Later(lull, Head(imu_msgq).dt) \in GAP_MIN .. GAP_MAX
  <2>1. Take
    BY <1>1 DEF Next, Drdy, DrdyFails, TapLook, TapBlip, Send, Listen,
                WindowOver, Sleep, EnterStandby, PoweredDown, EnterActive,
                Resumed, SetRate, SetMode, Identify, Command, LedTick
  <2> DEFINE s == Head(imu_msgq)
             t == Later(tapdet.since, s.dt)
  <2>2. s \in Samples
    BY <1>1, <2>1, HeadTailProperties DEF Take, IInv, TypeOK
  <2>3. Pair(t, s.acc)
    BY <1>1, <2>1 DEF Take
  <2>4. lull = tapdet.since /\ lull \in 0 .. REFRACTORY + 1
    BY <1>1, <2>3 DEF Pair, IInv, TypeOK, Marking
  <2>5. t \in 0 .. REFRACTORY + 1
    <3>1. s.dt \in Nat /\ tapdet.since \in Nat
      BY <1>1, <2>2, ConstantTypes DEF Samples, IInv, TypeOK
    <3> HIDE DEF s
    <3> QED BY <3>1, LaterIs
  <2> HIDE DEF s
  <2>6. t \in GAP_MIN .. GAP_MAX
    BY <2>3, <2>5, ConstantTypes DEF Pair
  <2> QED BY <2>4, <2>6, ConstantTypes DEF InShock, s
<1>2. IInv /\ [Next]_vars =>
        [fusion' = "tap" /\ fusion = "get" =>
           /\ lull < InShock
           /\ Later(lull, Head(imu_msgq).dt) \in GAP_MIN .. GAP_MAX]_vars
  BY <1>1
<1> QED BY <1>2, Invariance, PTL DEF Spec, TapPairs

-----------------------------------------------------------------------------
(* Taps are signalled.  The time that the samples of a queue cover is a sum*)
(* over it; what a step takes from the queue it adds to the clock of the   *)
(* detector.                                                               *)

LEMMA UpTo ==
  ASSUME NEW n \in Nat, NEW T, 0 \in T, \A i \in 0 .. n - 1 : i \in T => i + 1 \in T
  PROVE  \A i \in 0 .. n : i \in T
<1> DEFINE B == (0 .. n) \ T
<1>1. SUFFICES ASSUME B # {} PROVE FALSE
  OBVIOUS
<1>2. PICK x \in B : \A y \in B : x <= y
  <2>1. B \subseteq Nat
    OBVIOUS
  <2> HIDE DEF B
  <2> QED BY <1>1, <2>1, LeastNat
<1>3. x \in 1 .. n /\ x - 1 \in 0 .. n - 1
  OBVIOUS
<1>4. x - 1 \notin B
  BY <1>2, <1>3
<1> QED BY <1>2, <1>3, <1>4

Elapsed(q) ==
  LET u[i \in 0 .. Len(q)] == IF i = 0 THEN 0 ELSE u[i - 1] + q[i].dt
  IN u[Len(q)]

Sums(q, u) == u = [i \in 0 .. Len(q) |-> IF i = 0 THEN 0 ELSE u[i - 1] + q[i].dt]

LEMMA SumsExist ==
  ASSUME NEW q \in Seq(Samples)
  PROVE  \E u : Sums(q, u)
<1> DEFINE Upto(n, u) == u = [i \in 0 .. n |-> IF i = 0 THEN 0 ELSE u[i - 1] + q[i].dt]
           T == {n \in Nat : \E u : Upto(n, u)}
<1>1. Len(q) \in Nat
  BY LenProperties
<1>2. 0 \in T
  <2>1. Upto(0, [i \in 0 .. 0 |-> 0])
    OBVIOUS
  <2> QED BY <2>1
<1>3. ASSUME NEW n \in 0 .. Len(q) - 1, n \in T PROVE n + 1 \in T
  <2>1. PICK u : Upto(n, u)
    BY <1>3
  <2> DEFINE v == [i \in 0 .. n + 1 |-> IF i <= n THEN u[i] ELSE u[n] + q[n + 1].dt]
  <2>2. ASSUME NEW i \in 0 .. n + 1
        PROVE  v[i] = IF i = 0 THEN 0 ELSE v[i - 1] + q[i].dt
    <3>1. CASE i = 0
      BY <2>1, <3>1
    <3>2. CASE i \in 1 .. n
      <4>1. u[i] = u[i - 1] + q[i].dt
        BY <2>1, <3>2
      <4> QED BY <3>2, <4>1
    <3>3. CASE i = n + 1
      BY <1>1, <3>3
    <3> QED BY <3>1, <3>2, <3>3
  <2>3. Upto(n + 1, v)
    BY <2>2, Zenon
  <2>4. n + 1 \in Nat
    BY <1>1
  <2> HIDE DEF v, Upto
  <2> QED BY <2>3, <2>4
<1> HIDE DEF T
<1>4. \A i \in 0 .. Len(q) : i \in T
  BY <1>1, <1>2, <1>3, UpTo
<1>5. Len(q) \in T
  BY <1>1, <1>4
<1> QED BY <1>5 DEF T, Sums

LEMMA DtNat ==
  ASSUME NEW q \in Seq(Samples)
  PROVE  Len(q) \in Nat /\ \A i \in 1 .. Len(q) : q[i].dt \in Nat
<1>1. ASSUME NEW i \in 1 .. Len(q) PROVE q[i].dt \in Nat
  <2>1. q[i] \in Samples
    BY ElementOfSeq
  <2> QED BY <2>1 DEF Samples
<1> QED BY <1>1, LenProperties

LEMMA ElapsedIs ==
  ASSUME NEW q \in Seq(Samples)
  PROVE  \E u \in [0 .. Len(q) -> Nat] :
           /\ Elapsed(q) = u[Len(q)]
           /\ u[0] = 0
           /\ \A i \in 1 .. Len(q) : u[i] = u[i - 1] + q[i].dt
<1>1. PICK u : Sums(q, u) /\ Elapsed(q) = u[Len(q)]
  <2> DEFINE w == CHOOSE u : Sums(q, u)
  <2>1. Sums(q, w)
    BY SumsExist
  <2>2. Elapsed(q) = w[Len(q)]
    BY DEF Elapsed, Sums
  <2> QED BY <2>1, <2>2
<1>2. Len(q) \in Nat /\ \A i \in 1 .. Len(q) : q[i].dt \in Nat
  BY DtNat
<1>3. u[0] = 0 /\ \A i \in 1 .. Len(q) : u[i] = u[i - 1] + q[i].dt
  <2>1. \A i \in 0 .. Len(q) : u[i] = IF i = 0 THEN 0 ELSE u[i - 1] + q[i].dt
    BY <1>1 DEF Sums
  <2>2. 0 \in 0 .. Len(q)
    BY <1>2
  <2>3. ASSUME NEW i \in 1 .. Len(q) PROVE i \in 0 .. Len(q) /\ i # 0
    BY <1>2
  <2> QED BY <2>1, <2>2, <2>3
<1> DEFINE T == {i \in 0 .. Len(q) : u[i] \in Nat}
<1>4. \A i \in 0 .. Len(q) : i \in T
  <2>1. 0 \in T
    BY <1>2, <1>3
  <2>2. ASSUME NEW i \in 0 .. Len(q) - 1, i \in T PROVE i + 1 \in T
    <3> DEFINE x == i + 1
    <3>1. x \in 1 .. Len(q) /\ x - 1 = i /\ x \in 0 .. Len(q)
      BY <1>2
    <3> HIDE DEF x
    <3>2. u[x] = u[i] + q[x].dt /\ q[x].dt \in Nat /\ u[i] \in Nat
      BY <1>2, <1>3, <2>2, <3>1
    <3>3. x \in T
      BY <3>1, <3>2
    <3> QED BY <3>3 DEF x
  <2> HIDE DEF T
  <2> QED BY <1>2, <2>1, <2>2, UpTo
<1>5. u \in [0 .. Len(q) -> Nat]
  BY <1>1, <1>4 DEF Sums
<1> QED BY <1>1, <1>3, <1>5

LEMMA ElapsedAppend ==
  ASSUME NEW q \in Seq(Samples), NEW x \in Samples
  PROVE  Elapsed(Append(q, x)) = Elapsed(q) + x.dt
<1> DEFINE more == Append(q, x)
<1>1. /\ more \in Seq(Samples) /\ Len(more) = Len(q) + 1 /\ Len(q) \in Nat
      /\ \A i \in 1 .. Len(q) : more[i] = q[i]
      /\ more[Len(q) + 1] = x
  BY AppendProperties, LenProperties
<1>2. PICK u \in [0 .. Len(q) -> Nat] :
        /\ Elapsed(q) = u[Len(q)] /\ u[0] = 0
        /\ \A i \in 1 .. Len(q) : u[i] = u[i - 1] + q[i].dt
  BY ElapsedIs
<1> HIDE DEF more
<1>3. PICK v \in [0 .. Len(more) -> Nat] :
        /\ Elapsed(more) = v[Len(more)] /\ v[0] = 0
        /\ \A i \in 1 .. Len(more) : v[i] = v[i - 1] + more[i].dt
  BY <1>1, ElapsedIs
<1> DEFINE T == {i \in 0 .. Len(q) : u[i] = v[i]}
<1>4. \A i \in 0 .. Len(q) : i \in T
  <2>1. 0 \in T
    BY <1>1, <1>2, <1>3
  <2>2. ASSUME NEW i \in 0 .. Len(q) - 1, i \in T PROVE i + 1 \in T
    <3> DEFINE y == i + 1
    <3>1. y \in 1 .. Len(q) /\ y - 1 = i /\ y \in 0 .. Len(q) /\ y \in 1 .. Len(more)
      BY <1>1
    <3> HIDE DEF y
    <3>2. u[y] = u[i] + q[y].dt /\ v[y] = v[i] + more[y].dt /\ more[y] = q[y]
          /\ u[i] = v[i]
      BY <1>1, <1>2, <1>3, <2>2, <3>1
    <3>3. y \in T
      BY <3>1, <3>2
    <3> QED BY <3>3 DEF y
  <2> HIDE DEF T
  <2> QED BY <1>1, <2>1, <2>2, UpTo
<1>5. v[Len(q)] = u[Len(q)]
  BY <1>1, <1>4
<1>6. v[Len(more)] = v[Len(q)] + x.dt
  BY <1>1, <1>3
<1> QED BY <1>2, <1>3, <1>5, <1>6 DEF more

LEMMA ElapsedTail ==
  ASSUME NEW q \in Seq(Samples), q # <<>>
  PROVE  Elapsed(q) = Head(q).dt + Elapsed(Tail(q))
<1> DEFINE less == Tail(q)
           d == Head(q).dt
<1>1. /\ less \in Seq(Samples) /\ Len(less) = Len(q) - 1 /\ Len(q) \in Nat
      /\ Len(less) \in Nat /\ Len(q) > 0
      /\ \A i \in 1 .. Len(less) : less[i] = q[i + 1]
      /\ d = q[1].dt
  BY HeadTailProperties, LenProperties, EmptySeq
<1>2. d \in Nat /\ \A i \in 1 .. Len(less) : less[i].dt \in Nat
  <2>1. 1 \in 1 .. Len(q)
    BY <1>1
  <2>2. q[1].dt \in Nat
    BY <2>1, DtNat
  <2>3. \A i \in 1 .. Len(less) : less[i].dt \in Nat
    BY <1>1, DtNat
  <2> QED BY <1>1, <2>2, <2>3
<1>3. PICK u \in [0 .. Len(q) -> Nat] :
        /\ Elapsed(q) = u[Len(q)] /\ u[0] = 0
        /\ \A i \in 1 .. Len(q) : u[i] = u[i - 1] + q[i].dt
  BY ElapsedIs
<1> HIDE DEF less, d
<1>4. PICK v \in [0 .. Len(less) -> Nat] :
        /\ Elapsed(less) = v[Len(less)] /\ v[0] = 0
        /\ \A i \in 1 .. Len(less) : v[i] = v[i - 1] + less[i].dt
  BY <1>1, ElapsedIs
<1> DEFINE T == {i \in 0 .. Len(less) : u[i + 1] = d + v[i]}
<1>5. \A i \in 0 .. Len(less) : i \in T
  <2>1. 0 \in T
    <3>1. 1 \in 1 .. Len(q) /\ 1 - 1 = 0 /\ 0 + 1 = 1
      BY <1>1
    <3>2. u[1] = 0 + q[1].dt
      BY <1>3, <3>1
    <3> QED BY <1>1, <1>2, <1>4, <3>1, <3>2
  <2>2. ASSUME NEW i \in 0 .. Len(less) - 1, i \in T PROVE i + 1 \in T
    <3> DEFINE y == i + 1
               z == y + 1
    <3>1. /\ y \in 1 .. Len(less) /\ y - 1 = i /\ y \in 0 .. Len(less)
          /\ z \in 1 .. Len(q) /\ z - 1 = y
      BY <1>1
    <3> HIDE DEF z
    <3>2. u[z] = u[y] + q[z].dt /\ u[y] = d + v[i] /\ v[i] \in Nat
      BY <1>1, <1>3, <1>4, <2>2, <3>1
    <3>3. q[z] = less[y]
      BY <1>1, <3>1 DEF z
    <3> HIDE DEF y
    <3>4. v[y] = v[i] + less[y].dt /\ less[y].dt \in Nat
      BY <1>2, <1>4, <3>1
    <3>5. u[z] = d + v[y]
      BY <1>2, <3>2, <3>3, <3>4
    <3>6. y \in T
      BY <3>1, <3>5 DEF z
    <3> QED BY <3>6 DEF y
  <2> HIDE DEF T
  <2> QED BY <1>1, <2>1, <2>2, UpTo
<1>6. Len(less) + 1 = Len(q) /\ Len(less) \in T
  BY <1>1, <1>5
<1>7. u[Len(q)] = d + v[Len(less)]
  BY <1>6
<1> QED BY <1>3, <1>4, <1>7 DEF less, d

LEMMA ElapsedNat ==
  ASSUME NEW q \in Seq(Samples)
  PROVE  Elapsed(q) \in Nat
BY ElapsedIs, LenProperties

LEMMA ElapsedShort ==
  ASSUME NEW q \in Seq(Samples), NEW d \in Nat,
         \A i \in 1 .. Len(q) : q[i].dt <= d
  PROVE  Elapsed(q) <= Len(q) * d
<1>1. PICK u \in [0 .. Len(q) -> Nat] :
        /\ Elapsed(q) = u[Len(q)] /\ u[0] = 0
        /\ \A i \in 1 .. Len(q) : u[i] = u[i - 1] + q[i].dt
  BY ElapsedIs
<1>2. Len(q) \in Nat /\ \A i \in 1 .. Len(q) : q[i].dt \in Nat
  BY DtNat
<1> DEFINE T == {i \in 0 .. Len(q) : u[i] <= i * d}
<1>3. \A i \in 0 .. Len(q) : i \in T
  <2>1. 0 \in T
    BY <1>1, <1>2
  <2>2. ASSUME NEW i \in 0 .. Len(q) - 1, i \in T PROVE i + 1 \in T
    <3> DEFINE y == i + 1
    <3>1. y \in 1 .. Len(q) /\ y - 1 = i /\ y \in 0 .. Len(q) /\ i \in Nat
      BY <1>2
    <3>2. u[i] \in Nat /\ u[i] <= i * d
      BY <1>2, <2>2
    <3>3. y * d = i * d + d /\ i * d \in Nat
      BY <3>1
    <3> HIDE DEF y
    <3>4. u[y] = u[i] + q[y].dt /\ q[y].dt \in Nat /\ q[y].dt <= d
      BY <1>1, <1>2, <3>1
    <3> DEFINE yd == y * d
               id == i * d
    <3>5. u[y] <= yd
      <4>1. yd = id + d /\ id \in Nat /\ u[i] <= id
        BY <3>2, <3>3
      <4> HIDE DEF yd, id
      <4> QED BY <3>2, <3>4, <4>1
    <3>6. y \in T
      BY <3>1, <3>5
    <3> QED BY <3>6 DEF y
  <2> HIDE DEF T
  <2> QED BY <1>2, <2>1, <2>2, UpTo
<1> QED BY <1>1, <1>2, <1>3

-----------------------------------------------------------------------------
Busy == IF fusion = "get" THEN 0 ELSE 1

Levels ==
  /\ level \in {"off", "low", "due", "high"}
  /\ level # "off" => g_streaming /\ g_orient
  /\ tap_left \in 0 .. TAP_HOLD
  /\ lost \in 0 .. MaxLost
  /\ Len(imu_msgq) <= QUEUE
  /\ spell \in Nat
  /\ main = "listen" => spell <= WINDOW

(* A head that streams without a powered sensor has nothing to stream.     *)
Dark ==
  /\ main = "down" => ~g_streaming
  /\ ~imu /\ (g_streaming \/ main = "up") =>
       imu_msgq = <<>> /\ fusion = "get" /\ level = "off"

(* Only the first sample of a queue reaches over a standby; any other      *)
(* covers its own period and those of the samples lost in the turns in     *)
(* which it may have come.                                                 *)
Spread == 1 + QUEUE * MaxLost

Close(q) == \A i \in 2 .. Len(q) : q[i].dt <= Spread

Dense ==
  imu_msgq # <<>> =>
    /\ gap <= (QUEUE - Len(imu_msgq)) * MaxLost + lost
    /\ Close(imu_msgq)

(* How far the next packet may be behind the sensor: the samples in the    *)
(* queue, those lost in this turn, and for each turn since the last packet *)
(* the sample it took and those it lost.                                   *)
Turn == MaxLost + 1

Behind == Len(imu_msgq) + lost + (decim + Busy) * Turn

(* How long a packet that signals may have been waited for: as far as one  *)
(* may be behind and, in a window, the time since it began; once a window  *)
(* has ended within the wait, also for the packet it refused.              *)
Held(x) ==
  IF main = "listen" THEN x <= Lag + spell
  ELSE x <= Behind \/ (x <= Lag + WINDOW + Behind /\ spell <= x)

(* A tap not yet shown has been held since no such wait began.             *)
Owed == level = "due" => Held(TAP_HOLD - tap_left)

(* Until the flag is seen low again the detector is refractory: its clock  *)
(* cannot be further on than the hold and the packet after it take.        *)
Refractory ==
  level \in {"due", "high"} =>
    /\ tapdet.state = "REFRACTORY"
    /\ tap_left > 0 =>
         tapdet.since + Elapsed(imu_msgq) + gap + tap_left <= TAP_HOLD + Stale
    /\ tap_left = 0 =>
         \E z \in Nat :
           /\ Held(z)
           /\ tapdet.since + Elapsed(imu_msgq) + gap <= TAP_HOLD + Stale + z

TInv == Levels /\ Dark /\ Dense /\ Owed /\ Refractory

LEMMA TapTypes ==
  /\ QUEUE \in Nat /\ QUEUE > 0 /\ Largest \in Nat /\ Largest > 0
  /\ MaxLost \in Nat /\ TAP_HOLD \in Nat /\ REFRACTORY \in Nat
  /\ WINDOW \in Nat /\ LISTEN_PERIOD \in Nat
  /\ Turn \in Nat /\ Turn = MaxLost + 1 /\ Turn > 0
  /\ Lag \in Nat /\ Spread \in Nat /\ Stale \in Nat
<1>1. /\ QUEUE \in Nat /\ QUEUE > 0 /\ Largest \in Nat /\ Largest > 0
      /\ MaxLost \in Nat /\ TAP_HOLD \in Nat /\ REFRACTORY \in Nat
      /\ WINDOW \in Nat /\ LISTEN_PERIOD \in Nat
  BY ConstantTypes, DividerBounds, SampleAssumption
<1>2. Turn \in Nat /\ Turn = MaxLost + 1 /\ Turn > 0
  BY <1>1 DEF Turn
<1>3. Largest * Turn \in Nat /\ QUEUE * MaxLost \in Nat
  BY <1>1, <1>2
<1>4. Lag = QUEUE + MaxLost + Largest * Turn
  BY DEF Lag, Turn
<1>5. Lag \in Nat
  BY <1>1, <1>3, <1>4
<1>6. Spread \in Nat
  BY <1>3 DEF Spread
<1>7. Stale \in Nat
  <2>1. Stale = QUEUE * Spread
    BY DEF Stale, Spread
  <2> QED BY <1>1, <1>6, <2>1
<1> QED BY <1>1, <1>2, <1>3, <1>4, <1>5, <1>6, <1>7

LEMMA TapState ==
  ASSUME IInv, TInv
  PROVE  /\ Len(imu_msgq) \in Nat /\ Elapsed(imu_msgq) \in Nat
         /\ decim \in Nat /\ decim < Largest /\ gap \in Nat
         /\ fusion \in {"get", "tap", "blip", "send"}
         /\ Busy \in {0, 1}
         /\ tapdet.since \in Nat
         /\ tapdet.state = "REFRACTORY" => tapdet.warmup = 0
         /\ tap_left \in Nat /\ tap_left <= TAP_HOLD
         /\ lost \in Nat /\ lost <= MaxLost
         /\ spell \in Nat
         /\ Behind \in Nat /\ Behind <= Lag
<1>1. /\ imu_msgq \in Seq(Samples) /\ decim \in Nat /\ decim < Largest
      /\ gap \in Nat /\ fusion \in {"get", "tap", "blip", "send"}
      /\ tapdet \in [state : {"IDLE", "SHOCK1", "GAP", "REFRACTORY"},
                     since : 0 .. REFRACTORY + 1, warmup : Nat]
  BY DEF IInv, TypeOK, Paced
<1>2. Len(imu_msgq) \in Nat /\ Elapsed(imu_msgq) \in Nat
  BY <1>1, ElapsedNat, LenProperties
<1>3. tapdet.since \in Nat /\ tapdet.warmup \in Nat
  BY <1>1, ConstantTypes
<1>4. tapdet.state = "REFRACTORY" => tapdet.warmup = 0
  BY <1>3 DEF IInv, Marking
<1>5. /\ tap_left \in Nat /\ lost \in Nat /\ tap_left <= TAP_HOLD
      /\ lost <= MaxLost /\ Len(imu_msgq) <= QUEUE /\ spell \in Nat
  BY TapTypes DEF TInv, Levels
<1>6. Busy \in {0, 1}
  BY <1>1 DEF Busy
<1> DEFINE w == (decim + Busy) * Turn
           x == Largest * Turn
<1>7. w \in Nat /\ w <= x /\ x \in Nat
  <2>1. decim + Busy \in Nat /\ decim + Busy <= Largest
    BY <1>1, <1>6, TapTypes
  <2> QED BY <2>1, TapTypes
<1>8. Behind = Len(imu_msgq) + lost + w /\ Lag = QUEUE + MaxLost + x
  BY DEF Behind, Lag, Turn
<1> HIDE DEF w, x
<1>9. Behind \in Nat /\ Behind <= Lag
  BY <1>2, <1>5, <1>7, <1>8, TapTypes
<1> QED BY <1>1, <1>2, <1>3, <1>4, <1>5, <1>6, <1>9

LEMMA QueueIs ==
  ASSUME IInv
  PROVE  imu_msgq \in Seq(Samples)
BY DEF IInv, TypeOK

LEMMA InitTInv == Init => TInv
<1> SUFFICES ASSUME Init PROVE TInv
  OBVIOUS
<1>1. /\ imu_msgq = <<>> /\ Len(<<>>) = 0 /\ level = "off" /\ fusion = "get"
      /\ tap_left = 0 /\ lost = 0 /\ spell = 0 /\ main = "sleep"
  BY EmptySeq DEF Init
<1>2. Levels
  BY <1>1, TapTypes DEF Levels
<1> QED BY <1>1, <1>2 DEF TInv, Dark, Dense, Owed, Refractory

-----------------------------------------------------------------------------
(* What a step does to a wait.                                             *)

LEMMA HeldBound ==
  ASSUME IInv, TInv, NEW x \in Nat, Held(x)
  PROVE  x <= 2 * Lag + WINDOW
BY TapState, TapTypes DEF Held, TInv, Levels

LEMMA HeldNone ==
  ASSUME IInv, TInv
  PROVE  Held(0)
BY TapState, TapTypes DEF Held

\* Time makes it longer, and the packet as much further behind.
LEMMA HeldPasses ==
  ASSUME IInv, TInv, Passes, main' = main, Behind' = Behind + 1,
         NEW x \in Nat, Held(x)
  PROVE  Held(x + 1)'
<1>1. /\ spell \in Nat /\ Behind \in Nat /\ Lag \in Nat /\ WINDOW \in Nat
  BY TapState, TapTypes
<1>2. /\ spell' \in {spell, spell + 1}
      /\ main = "listen" => spell' = spell + 1
  BY DEF Passes
<1>3. CASE main = "listen"
  BY <1>1, <1>2, <1>3 DEF Held, Lag
<1>4. CASE main # "listen"
  <2>1. /\ x <= Behind \/ (x <= Lag + WINDOW + Behind /\ spell <= x)
        /\ spell' <= spell + 1 /\ spell' \in Nat
    BY <1>1, <1>2, <1>4 DEF Held
  <2>2. \/ x + 1 <= Behind + 1
        \/ x + 1 <= Lag + WINDOW + (Behind + 1) /\ spell' <= x + 1
    BY <1>1, <2>1
  <2> QED BY <1>4, <2>2 DEF Held, Lag
<1> QED BY <1>3, <1>4

\* A step without time that sends no packet, but perhaps one that is refused.
LEMMA HeldStays ==
  ASSUME IInv, TInv, spell' = spell, Behind' \in Nat,
         (main' = "listen") <=> (main = "listen"),
         main # "listen" => Behind <= Behind',
         NEW x \in Nat, Held(x)
  PROVE  Held(x)'
<1>1. /\ spell \in Nat /\ Behind \in Nat /\ Lag \in Nat /\ WINDOW \in Nat
  BY TapState, TapTypes
<1>2. CASE main = "listen"
  BY <1>2 DEF Held, Lag
<1>3. CASE main # "listen"
  BY <1>1, <1>3 DEF Held, Lag
<1> QED BY <1>2, <1>3

\* No wait reaches over two windows.
LEMMA HeldListens ==
  ASSUME Prompt, IInv, TInv, Listen, level # "off", NEW x \in Nat, Held(x)
  PROVE  Held(x)'
<1>1. /\ spell \in Nat /\ Behind \in Nat /\ Lag \in Nat /\ WINDOW \in Nat
      /\ LISTEN_PERIOD \in Nat /\ Behind <= Lag
  BY TapState, TapTypes
<1>2. main' = "listen" /\ spell' = 0 /\ main # "listen"
  BY DEF Listen
<1>3. spell >= LISTEN_PERIOD
  BY DEF Listen, TInv, Levels, Dark
<1>4. 2 * Lag + WINDOW < LISTEN_PERIOD
  BY DEF Prompt
<1>5. x <= Behind
  BY <1>1, <1>2, <1>3, <1>4 DEF Held
<1>6. x <= Lag + 0
  BY <1>1, <1>5
<1> QED BY <1>2, <1>6 DEF Held, Lag

LEMMA HeldResumes ==
  ASSUME IInv, TInv, WindowOver, NEW x \in Nat, Held(x)
  PROVE  Held(x)'
<1>1. /\ spell \in Nat /\ Behind \in Nat /\ Lag \in Nat /\ WINDOW \in Nat
  BY TapState, TapTypes
<1>2. main' = "handle" /\ spell' = 0 /\ main = "listen"
  BY DEF WindowOver
<1>3. Behind' = Behind
  BY DEF WindowOver, Behind, Busy, Turn
<1>4. x <= Lag + spell /\ spell <= WINDOW
  BY <1>2 DEF Held, TInv, Levels
<1>5. x <= Lag + WINDOW + Behind /\ 0 <= x
  BY <1>1, <1>4
<1> QED BY <1>2, <1>3, <1>5 DEF Held, Lag

\* A step that leaves the tap and the samples alone, or ends the signalling.
LEMMA TapKept ==
  ASSUME IInv, TInv, UNCHANGED <<imu_msgq, gap, tapdet, tap_left>>,
         level' \in {level, "off"},
         level # "off" => \A x \in Nat : Held(x) => Held(x)'
  PROVE  Owed' /\ Refractory'
<1>1. TAP_HOLD - tap_left \in Nat
  BY TapState, TapTypes
<1>2. Owed'
  BY <1>1 DEF TInv, Owed
<1>3. Refractory'
  <2> SUFFICES ASSUME level' \in {"due", "high"} PROVE Refractory'
    BY DEF Refractory
  <2>1. level' = level /\ level # "off"
    OBVIOUS
  <2>2. ASSUME tap_left = 0
        PROVE  \E z \in Nat :
                 /\ Held(z)'
                 /\ tapdet.since + Elapsed(imu_msgq) + gap <= TAP_HOLD + Stale + z
    BY <2>1, <2>2 DEF TInv, Refractory
  <2> QED BY <2>1, <2>2 DEF TInv, Refractory, Stale
<1> QED BY <1>2, <1>3

-----------------------------------------------------------------------------
(* The handler: a sample more, or one less in between.                     *)

LEMMA GapIs ==
  ASSUME IInv, TInv, imu_msgq # <<>>
  PROVE  gap <= QUEUE * MaxLost
<1> DEFINE n == Len(imu_msgq)
           x == (QUEUE - n) * MaxLost
           y == QUEUE * MaxLost
<1>1. n \in 1 .. QUEUE /\ gap <= x + lost /\ gap \in Nat
  <2>1. n # 0
    BY QueueIs, EmptySeq
  <2> QED BY <2>1, TapState, TapTypes DEF TInv, Levels, Dense
<1>2. x + MaxLost <= y /\ x \in Nat /\ y \in Nat
  <2> HIDE DEF n
  <2>1. (QUEUE - n) * MaxLost + MaxLost = (QUEUE - n + 1) * MaxLost
    BY <1>1, TapTypes
  <2>2. (QUEUE - n + 1) * MaxLost <= QUEUE * MaxLost
    BY <1>1, TapTypes
  <2> QED BY <1>1, <2>1, <2>2, TapTypes
<1> HIDE DEF x, y
<1>3. gap <= y
  BY <1>1, <1>2, TapState, TapTypes
<1> QED BY <1>3 DEF y

LEMMA DrdyQueue ==
  ASSUME IInv, TInv, NEW acc \in Accs, Drdy(acc)
  PROVE  /\ imu_msgq' \in Seq(Samples)
         /\ Len(imu_msgq') \in Nat /\ Len(imu_msgq') <= QUEUE
         /\ lost' \in 0 .. MaxLost
         /\ Len(imu_msgq') + lost' = Len(imu_msgq) + lost + 1
         /\ Elapsed(imu_msgq') \in Nat
         /\ Elapsed(imu_msgq') <= Elapsed(imu_msgq) + gap + 1
         /\ Close(imu_msgq')
<1> DEFINE q == imu_msgq
           d == Later(1, gap)
           x == [dt |-> d, acc |-> acc]
           a == Append(q, x)
<1>1. /\ q \in Seq(Samples) /\ Len(q) \in Nat /\ Elapsed(q) \in Nat
      /\ Len(q) <= QUEUE /\ gap \in Nat
      /\ lost \in 0 .. MaxLost /\ lost \in Nat
  BY QueueIs, TapState DEF TInv, Levels
<1>2. d \in Nat /\ d <= gap + 1
  BY <1>1, TapTypes DEF Later
<1>3. q # <<>> => d <= Spread /\ Close(q)
  <2>1. q # <<>> => gap <= QUEUE * MaxLost
    BY GapIs
  <2>2. QUEUE * MaxLost \in Nat
    BY TapTypes
  <2> HIDE DEF d
  <2> QED BY <1>1, <1>2, <2>1, <2>2 DEF TInv, Dense, Spread
<1>4. IF Len(q) < QUEUE
      THEN imu_msgq' = a /\ lost' = lost
      ELSE /\ lost < MaxLost
           /\ lost' = lost + 1
           /\ imu_msgq' = Evicted(a)
  BY DEF Drdy
<1> HIDE DEF q, d
<1>5. x \in Samples /\ x.dt = d
  BY <1>2 DEF Samples
<1> HIDE DEF x
<1>6. /\ a \in Seq(Samples) /\ Len(a) = Len(q) + 1 /\ a # <<>>
      /\ \A i \in 1 .. Len(q) : a[i] = q[i]
      /\ a[Len(q) + 1] = x
      /\ Elapsed(a) = Elapsed(q) + d
  BY <1>1, <1>5, AppendProperties, ElapsedAppend
<1>7. Close(a)
  <2>1. ASSUME NEW i \in 2 .. Len(a) PROVE a[i].dt <= Spread
    <3>1. q # <<>>
      <4>1. Len(q) > 0
        BY <1>1, <1>6
      <4> QED BY <4>1, EmptySeq
    <3>2. CASE i \in 2 .. Len(q)
      BY <1>1, <1>3, <1>6, <3>1, <3>2 DEF Close
    <3>3. CASE i = Len(q) + 1
      BY <1>3, <1>5, <1>6, <3>1, <3>3
    <3> QED BY <1>1, <1>6, <3>2, <3>3
  <2> QED BY <2>1 DEF Close
<1>8. Elapsed(a) \in Nat /\ Elapsed(a) <= Elapsed(q) + gap + 1
  <2>1. Elapsed(a) \in Nat
    BY <1>6, ElapsedNat
  <2> HIDE DEF a
  <2> QED BY <1>1, <1>2, <1>6, <2>1
<1> HIDE DEF a
<1>9. CASE Len(q) < QUEUE
  <2>1. imu_msgq' = a /\ lost' = lost
    BY <1>4, <1>9
  <2>2. Len(a) \in Nat /\ Len(a) <= QUEUE /\ Len(a) + lost = Len(q) + lost + 1
    BY <1>1, <1>6, <1>9, TapTypes
  <2> QED BY <1>1, <1>6, <1>7, <1>8, <2>1, <2>2 DEF q
<1>10. CASE ~(Len(q) < QUEUE)
  <2> DEFINE s == Tail(a)
             e == [s[1] EXCEPT !.dt = Later(s[1].dt, a[1].dt)]
             r == [s EXCEPT ![1] = e]
  <2>1. /\ imu_msgq' = r /\ lost' = lost + 1 /\ lost < MaxLost
    <3>1. Head(a) = a[1]
      BY <1>6, HeadTailProperties
    <3>2. Evicted(a) = r
      BY <3>1 DEF Evicted
    <3> QED BY <1>4, <1>10, <3>2
  <2>2. Len(q) = QUEUE /\ lost' \in 0 .. MaxLost
    <3> HIDE DEF r
    <3> QED BY <1>1, <1>10, <2>1, TapTypes
  <2>3. /\ s \in Seq(Samples) /\ Len(s) = Len(q) /\ Elapsed(s) \in Nat
        /\ \A i \in 1 .. Len(s) : s[i] = a[i + 1]
        /\ Elapsed(a) = a[1].dt + Elapsed(s)
        /\ a[1].dt \in Nat
    <3>1. /\ s \in Seq(Samples) /\ Len(s) = Len(a) - 1 /\ Head(a) = a[1]
          /\ \A i \in 1 .. Len(s) : s[i] = a[i + 1]
      BY <1>6, HeadTailProperties
    <3>2. 1 \in 1 .. Len(a)
      BY <1>1, <1>6
    <3>3. a[1].dt \in Nat
      BY <1>6, <3>2, DtNat
    <3>4. Elapsed(a) = a[1].dt + Elapsed(s) /\ Elapsed(s) \in Nat
      BY <1>6, <3>1, ElapsedTail, ElapsedNat
    <3> QED BY <1>1, <1>6, <3>1, <3>3, <3>4
  <2> HIDE DEF s
  <2>4. 1 \in 1 .. Len(s) /\ s # <<>>
    <3>1. Len(s) > 0 /\ Len(s) \in Nat
      BY <1>1, <2>2, <2>3, TapTypes
    <3> QED BY <3>1, EmptySeq
  <2>5. s[1] \in Samples /\ s[1].dt \in Nat
    BY <2>3, <2>4, ElementOfSeq, DtNat
  <2>6. /\ Later(s[1].dt, a[1].dt) \in Nat
        /\ Later(s[1].dt, a[1].dt) <= s[1].dt + a[1].dt
    <3> DEFINE m == s[1].dt
               n == a[1].dt
    <3>1. m \in Nat /\ n \in Nat
      BY <2>3, <2>5
    <3> HIDE DEF m, n
    <3>2. Later(m, n) \in Nat /\ Later(m, n) <= m + n
      BY <3>1, TapTypes DEF Later
    <3> QED BY <3>2 DEF m, n
  <2>7. e \in Samples /\ e.dt = Later(s[1].dt, a[1].dt)
    BY <2>5, <2>6 DEF Samples
  <2> HIDE DEF e
  <2>8. /\ r \in Seq(Samples) /\ Len(r) = Len(s) /\ r # <<>>
        /\ r[1] = e /\ \A i \in 1 .. Len(s) : i # 1 => r[i] = s[i]
    BY <2>3, <2>4, <2>7, ExceptSeq, EmptySeq
  <2>9. /\ Elapsed(r) = e.dt + Elapsed(Tail(s))
        /\ Elapsed(s) = s[1].dt + Elapsed(Tail(s))
        /\ Elapsed(Tail(s)) \in Nat /\ Elapsed(r) \in Nat
    <3>1. Head(r) = e /\ Head(s) = s[1] /\ Tail(s) \in Seq(Samples)
      BY <2>3, <2>4, <2>8, HeadTailProperties
    <3>2. Tail(r) = Tail(s)
      BY <2>3, <2>8
    <3> QED BY <2>3, <2>4, <2>8, <3>1, <3>2, ElapsedTail, ElapsedNat
  <2>10. Close(r)
    <3>1. ASSUME NEW i \in 2 .. Len(r) PROVE r[i].dt <= Spread
      <4>1. /\ i \in 1 .. Len(s) /\ i # 1
            /\ i + 1 \in 2 .. Len(a)
        <5>1. /\ i \in 2 .. Len(s) /\ Len(a) = Len(s) + 1
              /\ Len(s) \in Nat
          BY <1>1, <1>6, <2>3, <2>8
        <5> QED BY <5>1
      <4>2. r[i] = s[i] /\ s[i] = a[i + 1]
        BY <2>3, <2>8, <4>1
      <4> QED BY <1>7, <4>1, <4>2 DEF Close
    <3> QED BY <3>1 DEF Close
  <2>11. Elapsed(r) <= Elapsed(a)
    <3> DEFINE m == s[1].dt
               n == a[1].dt
               l == e.dt
               et == Elapsed(Tail(s))
    <3>1. /\ m \in Nat /\ n \in Nat /\ l \in Nat /\ et \in Nat
          /\ l <= m + n
          /\ Elapsed(r) = l + et /\ Elapsed(a) = n + (m + et)
      BY <2>3, <2>5, <2>6, <2>7, <2>9
    <3> HIDE DEF m, n, l, et, r
    <3> QED BY <3>1
  <2> HIDE DEF r
  <2>12. Elapsed(r) <= Elapsed(q) + gap + 1
    BY <1>1, <1>8, <2>9, <2>11
  <2>13. /\ Len(r) \in Nat /\ Len(r) <= QUEUE
         /\ Len(r) + lost' = Len(q) + lost + 1
    BY <1>1, <2>1, <2>2, <2>3, <2>8
  <2> QED BY <2>1, <2>2, <2>8, <2>9, <2>10, <2>12, <2>13 DEF q
<1> QED BY <1>9, <1>10

\* A period passes, with a sample or without.
Onward ==
  /\ Passes
  /\ UNCHANGED <<mainVars, fusion, decim, tapdet, level>>
  /\ Len(imu_msgq') \in Nat /\ Len(imu_msgq') <= QUEUE
  /\ lost' \in 0 .. MaxLost
  /\ Len(imu_msgq') + lost' = Len(imu_msgq) + lost + 1
  /\ Elapsed(imu_msgq') \in Nat /\ gap' \in Nat
  /\ Elapsed(imu_msgq') + gap' <= Elapsed(imu_msgq) + gap + 1
  /\ Dense'

LEMMA OnwardBehind ==
  ASSUME IInv, TInv, Onward
  PROVE  Behind' = Behind + 1
<1> DEFINE w == (decim + Busy) * Turn
           n == Len(imu_msgq)
           m == Len(imu_msgq')
           c == lost
           d == lost'
<1>1. decim \in Nat /\ Busy \in {0, 1} /\ Turn \in Nat /\ n \in Nat /\ c \in Nat
  BY TapState, TapTypes
<1>2. decim' = decim /\ Busy' = Busy
  BY DEF Onward, Busy
<1>3. m \in Nat /\ d \in Nat /\ m + d = n + c + 1
  BY TapTypes DEF Onward
<1>4. w \in Nat
  BY <1>1
<1>5. Behind = n + c + w /\ Behind' = m + d + w
  BY <1>2 DEF Behind, Turn
<1> HIDE DEF w, n, m, c, d
<1> QED BY <1>1, <1>3, <1>4, <1>5

LEMMA OnwardLevels ==
  ASSUME IInv, TInv, Onward
  PROVE  Levels' /\ Dark'
<1>1. /\ spell \in Nat /\ tap_left \in 0 .. TAP_HOLD
      /\ main = "listen" => spell < WINDOW
      /\ tap_left' = IF tap_left > 0 THEN tap_left - 1 ELSE 0
      /\ spell' = IF main # "listen" /\ spell >= LISTEN_PERIOD THEN spell
                  ELSE spell + 1
      /\ imu
  BY DEF TInv, Levels, Onward, Passes
<1>2. /\ spell' \in Nat /\ tap_left' \in 0 .. TAP_HOLD
      /\ main = "listen" => spell' <= WINDOW
  BY <1>1, TapTypes
<1>3. UNCHANGED <<main, g_streaming, g_orient, imu, level, fusion>>
  BY DEF Onward, mainVars
<1>4. lost' \in 0 .. MaxLost /\ Len(imu_msgq') <= QUEUE
  BY DEF Onward
<1>5. Levels'
  BY <1>2, <1>3, <1>4 DEF TInv, Levels
<1>6. Dark'
  BY <1>1, <1>3 DEF TInv, Dark
<1> QED BY <1>5, <1>6

\* The time that a tap has been held, and the detector's clock, run on.
LEMMA OnwardHeld ==
  ASSUME NEW g \in Nat, NEW e \in Nat, NEW f \in Nat, NEW a \in Nat,
         NEW b \in Nat, NEW l \in Nat, NEW h \in Nat,
         f + b <= e + a + 1
  PROVE  /\ l > 0 /\ g + e + a + l <= h => g + f + b + (l - 1) <= h
         /\ \A z \in Nat : g + e + a <= h + z => g + f + b <= h + (z + 1)
         /\ g + e + a + 1 <= h => g + f + b <= h + (0 + 1)
OBVIOUS

LEMMA OnwardRefractory ==
  ASSUME IInv, TInv, Onward, level \in {"due", "high"},
         \A x \in Nat : Held(x) => Held(x + 1)'
  PROVE  Refractory'
<1> DEFINE g == tapdet.since
           e == Elapsed(imu_msgq)
           f == Elapsed(imu_msgq')
           a == gap
           b == gap'
           l == tap_left
           h == TAP_HOLD + Stale
<1>1. /\ tapdet.state = "REFRACTORY"
      /\ l > 0 => g + e + a + l <= h
      /\ l = 0 => \E z \in Nat : Held(z) /\ g + e + a <= h + z
  BY DEF TInv, Refractory
<1>2. /\ g \in Nat /\ e \in Nat /\ a \in Nat /\ l \in Nat /\ h \in Nat
  BY TapState, TapTypes
<1>3. f \in Nat /\ b \in Nat /\ f + b <= e + a + 1
  BY DEF Onward
<1>4. /\ l > 0 => tap_left' = l - 1
      /\ l = 0 => tap_left' = 0
      /\ tapdet' = tapdet
  BY <1>2 DEF Onward, Passes
<1>5. h' = h
  BY DEF Stale
<1>6. Held(0)
  BY HeldNone
<1>7. SUFFICES /\ tap_left' > 0 => g + f + b + tap_left' <= h
               /\ tap_left' = 0 =>
                    \E z \in Nat : Held(z)' /\ g + f + b <= h + z
  <2>1. tapdet'.state = "REFRACTORY" /\ tapdet'.since = g
    BY <1>1, <1>4
  <2> QED BY <1>5, <2>1 DEF Refractory
<1> HIDE DEF g, e, f, a, b, l, h
<1>8. /\ l > 0 /\ g + e + a + l <= h => g + f + b + (l - 1) <= h
      /\ \A z \in Nat : g + e + a <= h + z => g + f + b <= h + (z + 1)
      /\ g + e + a + 1 <= h => g + f + b <= h + (0 + 1)
  BY <1>2, <1>3, OnwardHeld
<1>9. CASE l = 0
  <2>1. PICK z \in Nat : Held(z) /\ g + e + a <= h + z
    BY <1>1, <1>9
  <2>2. z + 1 \in Nat /\ Held(z + 1)' /\ g + f + b <= h + (z + 1)
    BY <1>8, <2>1
  <2> QED BY <1>4, <1>9, <2>2
<1>10. CASE l = 1
  <2>1. 0 \in Nat /\ 0 + 1 \in Nat
    OBVIOUS
  <2>2. Held(0 + 1)'
    BY <1>6, <2>1
  <2>3. g + f + b <= h + (0 + 1)
    BY <1>1, <1>8, <1>10
  <2>4. tap_left' = 0
    BY <1>4, <1>10
  <2> QED BY <2>1, <2>2, <2>3, <2>4
<1>11. CASE l > 1
  <2>1. tap_left' = l - 1 /\ l > 0 /\ l - 1 # 0
    BY <1>2, <1>4, <1>11
  <2> QED BY <1>1, <1>8, <2>1
<1> QED BY <1>2, <1>9, <1>10, <1>11

LEMMA TimeTInv ==
  ASSUME Prompt, IInv, TInv, Onward
  PROVE  TInv'
<1>1. \A x \in Nat : Held(x) => Held(x + 1)'
  <2>1. Passes /\ main' = main
    BY DEF Onward, mainVars
  <2> QED BY <2>1, OnwardBehind, HeldPasses
<1>2. level = "due" => tap_left > 0
  <2> SUFFICES ASSUME level = "due", tap_left = 0 PROVE FALSE
    BY TapState
  <2>1. Held(TAP_HOLD)
    BY TapTypes DEF TInv, Owed
  <2>2. TAP_HOLD <= 2 * Lag + WINDOW
    BY <2>1, HeldBound, TapTypes
  <2> QED BY <2>2, TapTypes DEF Prompt
<1>3. Owed'
  <2> SUFFICES ASSUME level = "due" PROVE Owed'
    BY DEF Owed, Onward
  <2>1. tap_left' = tap_left - 1
    BY <1>2, TapState DEF Onward, Passes
  <2>2. PICK x \in Nat : x = TAP_HOLD - tap_left
    <3>1. tap_left \in Nat /\ tap_left <= TAP_HOLD /\ TAP_HOLD \in Nat
      BY TapState, TapTypes
    <3>2. TAP_HOLD - tap_left \in Nat
      BY <3>1
    <3> QED BY <3>2
  <2>3. TAP_HOLD - tap_left' = x + 1
    <3>1. tap_left \in Nat /\ TAP_HOLD \in Nat
      BY TapState, TapTypes
    <3> QED BY <2>1, <2>2, <3>1
  <2>4. Held(x + 1)'
    <3>1. Held(x)
      BY <2>2 DEF TInv, Owed
    <3> QED BY <1>1, <3>1
  <2> QED BY <2>3, <2>4 DEF Owed, Held, Lag
<1>4. Refractory'
  <2>1. CASE level \in {"due", "high"}
    BY <1>1, <2>1, OnwardRefractory
  <2>2. CASE level \notin {"due", "high"}
    BY <2>2 DEF Refractory, Onward
  <2> QED BY <2>1, <2>2
<1>5. Dense'
  BY DEF Onward
<1> QED BY <1>3, <1>4, <1>5, OnwardLevels DEF TInv

LEMMA DrdyTInv ==
  ASSUME Prompt, IInv, TInv, NEW acc \in Accs, Drdy(acc)
  PROVE  TInv'
<1>1. /\ Passes /\ gap' = 0
      /\ UNCHANGED <<mainVars, fusion, decim, tapdet, level>>
  BY DEF Drdy, tapVars
<1>2. /\ Len(imu_msgq') \in Nat /\ Len(imu_msgq') <= QUEUE
      /\ lost' \in 0 .. MaxLost
      /\ Len(imu_msgq') + lost' = Len(imu_msgq) + lost + 1
      /\ Elapsed(imu_msgq') \in Nat
      /\ Elapsed(imu_msgq') <= Elapsed(imu_msgq) + gap + 1
      /\ Close(imu_msgq')
  BY DrdyQueue
<1>3. 0 <= (QUEUE - Len(imu_msgq')) * MaxLost + lost'
  <2> DEFINE m == QUEUE - Len(imu_msgq')
  <2>1. m \in Nat /\ lost' \in Nat /\ MaxLost \in Nat
    BY <1>2, TapTypes
  <2> HIDE DEF m
  <2> DEFINE x == m * MaxLost
             d == lost'
  <2>2. x \in Nat /\ d \in Nat
    BY <2>1
  <2> HIDE DEF x, d
  <2>3. 0 <= x + d
    BY <2>2
  <2> QED BY <2>3 DEF m, x, d
<1>4. Dense'
  BY <1>1, <1>2, <1>3 DEF Dense
<1>5. Elapsed(imu_msgq') + gap' <= Elapsed(imu_msgq) + gap + 1 /\ gap' \in Nat
  BY <1>1, <1>2
<1>6. Onward
  BY <1>1, <1>2, <1>4, <1>5 DEF Onward
<1> QED BY <1>6, TimeTInv

LEMMA DrdyFailsTInv ==
  ASSUME Prompt, IInv, TInv, DrdyFails
  PROVE  TInv'
<1>1. /\ Passes /\ gap' = Later(gap, 1) /\ lost' = lost + 1 /\ lost < MaxLost
      /\ UNCHANGED <<mainVars, fusion, decim, tapdet, level, imu_msgq>>
  BY DEF DrdyFails, tapVars
<1>2. /\ Len(imu_msgq) \in Nat /\ Len(imu_msgq) <= QUEUE /\ lost \in Nat
      /\ Elapsed(imu_msgq) \in Nat /\ gap \in Nat
  BY TapState DEF TInv, Levels
<1>3. gap' \in Nat /\ gap' <= gap + 1
  BY <1>1, <1>2, TapTypes DEF Later
<1>4. /\ Len(imu_msgq') \in Nat /\ Len(imu_msgq') <= QUEUE
      /\ lost' \in 0 .. MaxLost
      /\ Len(imu_msgq') + lost' = Len(imu_msgq) + lost + 1
      /\ Elapsed(imu_msgq') \in Nat
      /\ Elapsed(imu_msgq') + gap' <= Elapsed(imu_msgq) + gap + 1
  <2>1. Elapsed(imu_msgq') = Elapsed(imu_msgq)
    BY <1>1
  <2> QED BY <1>1, <1>2, <1>3, <2>1, TapTypes
<1>5. Dense'
  <2> DEFINE x == (QUEUE - Len(imu_msgq)) * MaxLost
  <2> SUFFICES ASSUME imu_msgq # <<>> PROVE gap' <= x + lost' /\ Close(imu_msgq)
    BY <1>1 DEF Dense, Close, Spread
  <2>1. gap <= x + lost /\ Close(imu_msgq)
    BY DEF TInv, Dense
  <2>2. x \in Nat
    <3>1. QUEUE - Len(imu_msgq) \in Nat
      BY <1>2, TapTypes
    <3> QED BY <3>1, TapTypes
  <2> HIDE DEF x
  <2> QED BY <1>1, <1>2, <1>3, <2>1, <2>2
<1>6. Onward
  BY <1>1, <1>3, <1>4, <1>5 DEF Onward
<1> QED BY <1>6, TimeTInv

-----------------------------------------------------------------------------
(* The fusion thread: what it takes from the queue, and what it sends.     *)

LEMMA TakeQueue ==
  ASSUME IInv, TInv, Take
  PROVE  /\ imu_msgq' \in Seq(Samples)
         /\ Len(imu_msgq') \in Nat /\ Len(imu_msgq) = Len(imu_msgq') + 1
         /\ Head(imu_msgq) \in Samples /\ Head(imu_msgq).dt \in Nat
         /\ Elapsed(imu_msgq') \in Nat
         /\ Elapsed(imu_msgq) = Head(imu_msgq).dt + Elapsed(imu_msgq')
         /\ gap <= (QUEUE - Len(imu_msgq')) * MaxLost
         /\ \A i \in 1 .. Len(imu_msgq') : imu_msgq'[i].dt <= Spread
<1> DEFINE q == imu_msgq
           r == Tail(q)
           n == Len(q)
           m == Len(r)
<1>1. q \in Seq(Samples) /\ q # <<>> /\ imu_msgq' = r
  BY QueueIs DEF Take
<1>2. /\ r \in Seq(Samples) /\ m = n - 1 /\ n \in Nat /\ m \in Nat /\ n > 0
      /\ Head(q) \in Samples /\ Head(q).dt \in Nat
      /\ \A i \in 1 .. m : r[i] = q[i + 1]
  <2>1. n \in Nat /\ n # 0
    BY <1>1, EmptySeq, LenProperties
  <2>2. /\ r \in Seq(Samples) /\ m = n - 1 /\ Head(q) \in Samples
        /\ \A i \in 1 .. m : r[i] = q[i + 1]
    BY <1>1, HeadTailProperties
  <2>3. Head(q).dt \in Nat
    BY <2>2 DEF Samples
  <2> HIDE DEF r, m, n
  <2> QED BY <2>1, <2>2, <2>3
<1>3. Elapsed(q) = Head(q).dt + Elapsed(r) /\ Elapsed(r) \in Nat
  BY <1>1, <1>2, ElapsedTail, ElapsedNat
<1>4. n <= QUEUE /\ gap <= (QUEUE - n) * MaxLost + lost /\ Close(q)
      /\ lost \in Nat /\ lost <= MaxLost /\ gap \in Nat
  BY <1>1, TapState DEF TInv, Levels, Dense
<1>5. gap <= (QUEUE - m) * MaxLost
  <2> DEFINE k == QUEUE - n
             x == k * MaxLost
             y == (QUEUE - m) * MaxLost
  <2>1. k \in Nat /\ QUEUE - m = k + 1 /\ MaxLost \in Nat
    <3> HIDE DEF m, n
    <3> QED BY <1>2, <1>4, TapTypes
  <2> HIDE DEF k, m
  <2>2. x \in Nat /\ y = x + MaxLost
    BY <2>1
  <2>3. gap <= x + lost
    BY <1>4 DEF k
  <2> HIDE DEF x, y
  <2>4. gap <= y
    BY <1>4, <2>1, <2>2, <2>3
  <2> QED BY <2>4 DEF y
<1>6. ASSUME NEW i \in 1 .. m PROVE r[i].dt <= Spread
  <2>1. r[i] = q[i + 1] /\ i + 1 \in 2 .. Len(q)
    <3>1. m + 1 = Len(q) /\ m \in Nat
      BY <1>2
    <3> HIDE DEF m, r
    <3>2. i + 1 \in 2 .. Len(q)
      BY <3>1
    <3> QED BY <1>2, <3>2
  <2> QED BY <1>4, <2>1 DEF Close
<1>7. n = m + 1
  <2> HIDE DEF m, n
  <2> QED BY <1>2
<1> QED BY <1>1, <1>2, <1>3, <1>5, <1>6, <1>7

\* What is left in the queue is not old.
LEMMA TakeStale ==
  ASSUME IInv, TInv, Take
  PROVE  Elapsed(imu_msgq') + gap <= Stale
<1> DEFINE m == Len(imu_msgq')
           f == Elapsed(imu_msgq')
           k == QUEUE - m
           x == m * Spread
           y == k * Spread
           z == k * MaxLost
<1>1. /\ m \in Nat /\ f \in Nat /\ gap \in Nat /\ k \in Nat
      /\ QUEUE = m + k /\ gap <= z
  <2>1. m \in Nat /\ f \in Nat /\ Len(imu_msgq) = m + 1 /\ gap <= z
    BY TakeQueue
  <2>2. Len(imu_msgq) <= QUEUE /\ gap \in Nat
    BY TapState DEF TInv, Levels
  <2> HIDE DEF m, f, z
  <2> QED BY <2>1, <2>2, TapTypes
<1>2. f <= x
  BY TakeQueue, TapTypes, ElapsedShort
<1> HIDE DEF m, f
<1>3. MaxLost <= Spread /\ MaxLost \in Nat /\ Spread \in Nat
  <2> DEFINE u == QUEUE * MaxLost
  <2>1. u \in Nat /\ u >= MaxLost
    BY TapTypes
  <2>2. Spread = 1 + u
    BY DEF Spread
  <2> HIDE DEF u
  <2> QED BY <2>1, <2>2, TapTypes
<1> HIDE DEF k
<1>4. x \in Nat /\ y \in Nat /\ z \in Nat /\ z <= y
  BY <1>1, <1>3
<1>5. Stale = x + y
  <2>1. Stale = QUEUE * Spread
    BY DEF Stale, Spread
  <2>2. (m + k) * Spread = x + y
    BY <1>1, <1>3
  <2> QED BY <1>1, <2>1, <2>2
<1> HIDE DEF x, y, z
<1>6. f + gap <= Stale
  BY <1>1, <1>2, <1>4, <1>5
<1> QED BY <1>6 DEF f

LEMMA TakeHeld ==
  ASSUME IInv, TInv, Take, NEW x \in Nat, Held(x)
  PROVE  Held(x)'
<1> DEFINE n == Len(imu_msgq)
           m == Len(imu_msgq')
           w == decim * Turn
           c == lost
<1>1. /\ n \in Nat /\ c \in Nat /\ c <= MaxLost /\ decim \in Nat
      /\ m \in Nat /\ n = m + 1
  BY TapState, TakeQueue
<1>2. /\ fusion = "get" /\ fusion' # "get" /\ lost' = 0
      /\ UNCHANGED <<decim, spell, main>>
  BY DEF Take, mainVars, timeVars
<1>3. w \in Nat /\ (decim + 1) * Turn = w + Turn /\ (decim + 0) * Turn = w
  BY <1>1, TapTypes
<1>4. Behind = n + c + w /\ Behind' = m + 0 + (w + Turn)
  BY <1>2, <1>3 DEF Behind, Busy, Turn
<1> HIDE DEF n, m, w, c
<1>5. Behind \in Nat /\ Behind' \in Nat /\ Behind <= Behind'
  BY <1>1, <1>3, <1>4, TapTypes
<1> QED BY <1>2, <1>5, HeldStays

\* The detector listens for no other tap until the flag has been seen low.
LEMMA TakeRefractory ==
  ASSUME Prompt, IInv, TInv, Take, level \in {"due", "high"}
  PROVE  /\ ~Pair(Later(tapdet.since, Head(imu_msgq).dt), Head(imu_msgq).acc)
         /\ tapdet'.state = "REFRACTORY"
         /\ tapdet'.since = tapdet.since + Head(imu_msgq).dt
<1> DEFINE g == tapdet.since
           d == Head(imu_msgq).dt
           e == Elapsed(imu_msgq)
           f == Elapsed(imu_msgq')
           l == tap_left
           h == TAP_HOLD + Stale
           k == 2 * Lag + WINDOW
<1>1. /\ g \in Nat /\ d \in Nat /\ f \in Nat /\ gap \in Nat /\ l \in Nat
      /\ h \in Nat /\ k \in Nat /\ e = d + f
  <2>1. g \in Nat /\ gap \in Nat /\ l \in Nat
    BY TapState
  <2>2. d \in Nat /\ f \in Nat /\ e = d + f
    BY TakeQueue
  <2>3. h \in Nat /\ k \in Nat
    BY TapTypes
  <2> QED BY <2>1, <2>2, <2>3
<1>2. /\ tapdet.state = "REFRACTORY" /\ tapdet.warmup = 0
      /\ l > 0 => g + e + gap + l <= h
      /\ l = 0 => \E z \in Nat : Held(z) /\ g + e + gap <= h + z
  BY TapState DEF TInv, Refractory
<1>3. h + k <= REFRACTORY /\ REFRACTORY \in Nat
  BY TapTypes DEF Prompt
<1>4. \A z \in Nat : Held(z) => z <= k
  BY HeldBound
<1>5. tapdet' = Fed(Later(g, d), Head(imu_msgq).acc)
  BY DEF Take
<1>6. ~Pair(Later(g, d), Head(imu_msgq).acc)
  BY <1>2 DEF Pair
<1> HIDE DEF g, d, e, f, l, h, k
<1>7. g + d <= REFRACTORY
  <2>1. CASE l > 0
    BY <1>1, <1>2, <1>3, <2>1
  <2>2. CASE l = 0
    <3>1. PICK z \in Nat : Held(z) /\ g + e + gap <= h + z
      BY <1>2, <2>2
    <3>2. z <= k
      BY <1>4, <3>1
    <3> QED BY <1>1, <1>3, <3>1, <3>2
  <2> QED BY <1>1, <2>1, <2>2
<1>8. Later(g, d) = g + d /\ ~(g + d > REFRACTORY)
  BY <1>1, <1>3, <1>7 DEF Later
<1>9. tapdet' = [state |-> "REFRACTORY", since |-> g + d, warmup |-> 0]
  BY <1>2, <1>5, <1>8 DEF Fed
<1> QED BY <1>6, <1>9 DEF g, d

LEMMA TakeTInv ==
  ASSUME Prompt, IInv, TInv, Take
  PROVE  TInv'
<1> DEFINE d == Head(imu_msgq).dt
           e == Elapsed(imu_msgq)
           f == Elapsed(imu_msgq')
           l == tap_left
           g == tapdet.since
           h == TAP_HOLD + Stale
           pair == Pair(Later(g, d), Head(imu_msgq).acc)
<1>1. /\ imu_msgq # <<>> /\ lost' = 0 /\ fusion = "get"
      /\ UNCHANGED <<gap, spell, main, imu, g_streaming, g_orient>>
      /\ IF pair THEN tap_left' = TAP_HOLD /\ level' = TapOwed
                 ELSE UNCHANGED <<tap_left, level>>
  BY DEF Take, mainVars, timeVars
<1>2. /\ g \in Nat /\ d \in Nat /\ f \in Nat /\ gap \in Nat /\ l \in Nat
      /\ h \in Nat /\ e = d + f
  <2>1. g \in Nat /\ gap \in Nat /\ l \in Nat
    BY TapState
  <2>2. d \in Nat /\ f \in Nat /\ e = d + f
    BY TakeQueue
  <2>3. h \in Nat
    BY TapTypes
  <2> QED BY <2>1, <2>2, <2>3
<1>3. pair => /\ level \in {"off", "low"}
              /\ level' \in {"off", "due"} /\ (level = "off" => level' = "off")
  <2>1. level \in {"off", "low", "due", "high"}
    BY DEF TInv, Levels
  <2>2. pair => level \notin {"due", "high"}
    BY TakeRefractory
  <2> HIDE DEF pair
  <2> QED BY <1>1, <2>1, <2>2 DEF TapOwed
<1>4. \A x \in Nat : Held(x) => Held(x)'
  BY TakeHeld
<1>5. Levels'
  <2>1. tap_left' \in 0 .. TAP_HOLD /\ 0 \in 0 .. MaxLost
    <3>1. TAP_HOLD \in 0 .. TAP_HOLD /\ 0 \in 0 .. MaxLost
      BY TapTypes
    <3> HIDE DEF pair
    <3> QED BY <1>1, <3>1 DEF TInv, Levels
  <2>2. Len(imu_msgq') <= QUEUE
    BY TakeQueue, TapTypes DEF TInv, Levels
  <2> HIDE DEF pair
  <2> QED BY <1>1, <1>3, <2>1, <2>2 DEF TInv, Levels
<1>6. Dark'
  BY <1>1 DEF TInv, Dark
<1>7. Dense'
  <2> DEFINE x == (QUEUE - Len(imu_msgq')) * MaxLost
  <2>1. gap <= x /\ x \in Nat
    <3>1. QUEUE - Len(imu_msgq') \in Nat
      BY TakeQueue, TapTypes DEF TInv, Levels
    <3>2. x \in Nat
      BY <3>1, TapTypes
    <3> QED BY <3>2, TakeQueue
  <2>2. Close(imu_msgq')
    BY TakeQueue DEF Close
  <2> HIDE DEF x
  <2>3. gap' <= x + lost'
    BY <1>1, <1>2, <2>1
  <2> QED BY <2>2, <2>3 DEF Dense, Close, Spread, x
<1>8. Owed'
  <2> SUFFICES ASSUME level' = "due" PROVE Owed'
    BY DEF Owed
  <2>1. PICK x \in Nat : x = TAP_HOLD - tap_left' /\ Held(x)
    <3> HIDE DEF pair
    <3>1. CASE pair
      <4>1. TAP_HOLD - tap_left' = 0 /\ 0 \in Nat
        BY <1>1, <3>1, TapTypes
      <4> QED BY <4>1, HeldNone
    <3>2. CASE ~pair
      <4>1. tap_left' = tap_left /\ level = "due"
        BY <1>1, <3>2
      <4>2. TAP_HOLD - tap_left \in Nat
        BY TapState, TapTypes
      <4> QED BY <4>1, <4>2 DEF TInv, Owed
    <3> QED BY <3>1, <3>2
  <2>2. Held(x)'
    BY <1>4, <2>1
  <2> QED BY <2>1, <2>2 DEF Owed, Held, Lag
<1>9. Refractory'
  <2> SUFFICES ASSUME level' \in {"due", "high"} PROVE Refractory'
    BY DEF Refractory
  <2>1. CASE pair
    <3>1. tapdet' = [state |-> "REFRACTORY", since |-> 0, warmup |-> 0]
      <4>1. tapdet.warmup = 0 /\ tapdet.state = "GAP"
        BY <2>1 DEF Pair
      <4> QED BY <2>1, <4>1 DEF Take, Fed
    <3>2. tapdet'.state = "REFRACTORY" /\ tapdet'.since = 0
      BY <3>1
    <3>3. tap_left' = TAP_HOLD /\ TAP_HOLD # 0
      BY <1>1, <2>1, TapTypes DEF Prompt
    <3>4. f + gap <= Stale
      BY TakeStale
    <3>5. tapdet'.since + f + gap' + tap_left' <= TAP_HOLD + Stale
      <4> HIDE DEF f
      <4> QED BY <1>1, <1>2, <3>2, <3>3, <3>4, TapTypes
    <3> QED BY <3>2, <3>3, <3>5 DEF Refractory, Stale
  <2>2. CASE ~pair
    <3>1. tap_left' = l /\ level \in {"due", "high"} /\ gap' = gap
      BY <1>1, <2>2
    <3>2. tapdet'.state = "REFRACTORY" /\ tapdet'.since = g + d
      BY <3>1, TakeRefractory
    <3>3. tapdet'.since + f + gap' = g + e + gap
      <4> HIDE DEF f, g, d, e
      <4> QED BY <1>2, <3>1, <3>2
    <3>4. /\ l > 0 => g + e + gap + l <= h
          /\ l = 0 => \E z \in Nat : Held(z)' /\ g + e + gap <= h + z
      <4>1. /\ l > 0 => g + e + gap + l <= h
            /\ l = 0 => \E z \in Nat : Held(z) /\ g + e + gap <= h + z
        BY <3>1 DEF TInv, Refractory
      <4> HIDE DEF g, e, l, h
      <4> QED BY <1>4, <4>1
    <3> QED BY <3>1, <3>2, <3>3, <3>4 DEF Refractory, Stale
  <2> QED BY <2>1, <2>2
<1> QED BY <1>5, <1>6, <1>7, <1>8, <1>9 DEF TInv

\* A packet shows the tap, or is refused in a window.
LEMMA SendTInv ==
  ASSUME Prompt, IInv, TInv, Send
  PROVE  TInv'
<1>1. /\ fusion = "send" /\ fusion' = "get"
      /\ UNCHANGED <<gap, imu_msgq, lost, tap_left, tapdet, spell, main, imu,
                     g_streaming, g_orient>>
  BY DEF Send, mainVars, timeVars, tapVars
<1>2. /\ level \in {"off", "low", "due", "high"}
      /\ level # "off" => g_streaming /\ g_orient
      /\ tap_left \in Nat /\ decim \in Nat
  BY TapState DEF TInv, Levels
<1>3. Dark' /\ Dense'
  BY <1>1 DEF TInv, Dark, Dense, Close, Spread
<1>4. level' \in {level, "off"} => Levels'
  BY <1>1, <1>2 DEF TInv, Levels
<1>5. CASE level' = level /\ (level = "off" \/ main = "listen" \/ decim' = decim + 1)
  <2>1. ASSUME NEW x \in Nat, Held(x), level # "off" PROVE Held(x)'
    <3>1. Behind' \in Nat /\ (main # "listen" => Behind' = Behind)
      <4>1. Busy = 1 /\ Busy' = 0
        BY <1>1 DEF Busy
      <4>2. decim' \in Nat
        BY <1>2 DEF Send
      <4>3. main # "listen" => decim' + Busy' = decim + Busy
        BY <1>2, <1>5, <2>1, <4>1
      <4>4. Behind' = Len(imu_msgq) + lost + (decim' + Busy') * Turn
        BY <1>1 DEF Behind, Turn
      <4>5. main # "listen" => Behind' = Behind
        BY <4>3, <4>4 DEF Behind
      <4> DEFINE w == (decim' + Busy') * Turn
                 n == Len(imu_msgq)
      <4>6. w \in Nat /\ n \in Nat /\ lost \in Nat
        <5>1. decim' + Busy' \in Nat
          <6> DEFINE i == decim'
                     j == Busy'
          <6>1. i \in Nat /\ j \in Nat
            BY <4>1, <4>2
          <6> HIDE DEF i, j
          <6>2. i + j \in Nat
            BY <6>1
          <6> QED BY <6>2 DEF i, j
        <5> QED BY <5>1, TapState, TapTypes
      <4>7. Behind' = n + lost + w
        BY <4>4
      <4> HIDE DEF w, n
      <4>8. Behind' \in Nat
        BY <4>6, <4>7
      <4> QED BY <4>5, <4>8
    <3>2. Behind \in Nat
      BY TapState
    <3> QED BY <1>1, <2>1, <3>1, <3>2, HeldStays
  <2>2. Owed' /\ Refractory'
    BY <1>1, <1>5, <2>1, TapKept
  <2> QED BY <1>3, <1>4, <1>5, <2>2 DEF TInv
<1>6. CASE level' = Shown /\ g_streaming /\ Signals
  <2>1. level = "due" => tap_left > 0
    <3> SUFFICES ASSUME level = "due", tap_left = 0 PROVE FALSE
      BY <1>2
    <3>1. Held(TAP_HOLD)
      BY TapTypes DEF TInv, Owed
    <3>2. TAP_HOLD <= 2 * Lag + WINDOW
      BY <3>1, HeldBound, TapTypes
    <3> QED BY <3>2, TapTypes DEF Prompt
  <2>2. \/ level' \in {"off", "low"}
        \/ level' = "high" /\ tap_left > 0 /\ level \in {"due", "high"}
    BY <1>2, <1>6, <2>1 DEF Shown, TapFlag
  <2>3. Levels'
    BY <1>1, <1>6, <2>2 DEF TInv, Levels, Signals
  <2>4. Owed'
    BY <2>2 DEF Owed
  <2>5. Refractory'
    <3> SUFFICES ASSUME level' = "high" PROVE Refractory'
      BY <2>2 DEF Refractory
    <3>1. /\ level \in {"due", "high"} /\ tap_left > 0
          /\ tap_left' # 0
      BY <1>1, <1>2, <2>2
    <3> QED BY <1>1, <3>1 DEF TInv, Refractory, Stale
  <2> QED BY <1>3, <2>3, <2>4, <2>5 DEF TInv
<1>7. \/ level' = level /\ (level = "off" \/ main = "listen" \/ decim' = decim + 1)
      \/ level' = Shown /\ g_streaming /\ Signals
  BY <1>2 DEF Send, Signals
<1> QED BY <1>5, <1>6, <1>7

\* leds_tap() and the main thread; a head whose sensor was off has no sample
\* left, and nothing that a receiver waits for.
LEMMA OtherTInv ==
  ASSUME Prompt, IInv, TInv,
         \/ TapLook \/ TapBlip \/ Listen \/ WindowOver \/ Sleep
         \/ EnterStandby \/ PoweredDown \/ EnterActive \/ Resumed
         \/ (\E hz \in Requests : SetRate(hz))
         \/ (\E orient \in BOOLEAN : SetMode(orient))
         \/ Identify \/ LedTick
  PROVE  TInv'
<1>1. CASE EnterActive
  <2>1. /\ ~g_streaming /\ main = "handle" /\ main' = "up"
        /\ imu' \in {imu, TRUE}
        /\ \/ UNCHANGED <<gap, tap_left>>
           \/ tap_left' = 0 /\ imu_msgq = <<>> /\ fusion = "get"
        /\ imu \/ (imu_msgq = <<>> /\ fusion = "get")
        /\ UNCHANGED <<g_streaming, g_orient, imu_msgq, fusion, level, lost,
                       spell>>
    BY <1>1 DEF EnterActive
  <2>2. level = "off"
    BY <2>1 DEF TInv, Levels
  <2>3. tap_left' \in 0 .. TAP_HOLD
    BY <2>1, TapTypes DEF TInv, Levels
  <2>4. Levels'
    BY <2>1, <2>2, <2>3 DEF TInv, Levels
  <2>5. Dark'
    <3>1. ASSUME ~imu' PROVE imu_msgq = <<>> /\ fusion = "get"
      <4>1. CASE imu' = TRUE
        BY <3>1, <4>1
      <4>2. CASE imu' = imu
        <5>1. ~imu
          BY <3>1, <4>2, Zenon
        <5> QED BY <2>1, <5>1, Zenon
      <4>3. imu' \in {imu, TRUE}
        BY <2>1
      <4> QED BY <4>1, <4>2, <4>3, Zenon
    <3>2. main' # "down"
      BY <2>1
    <3> QED BY <2>1, <2>2, <3>1, <3>2 DEF Dark
  <2>6. Dense'
    BY <2>1 DEF TInv, Dense, Close, Spread
  <2> QED BY <2>1, <2>2, <2>4, <2>5, <2>6 DEF TInv, Owed, Refractory
<1>2. CASE ~EnterActive
  <2>1. /\ UNCHANGED <<gap, imu_msgq, lost, tap_left, tapdet, decim>>
        /\ Busy' = Busy
        /\ level' \in {level, "off"}
        /\ fusion = "get" <=> fusion' = "get"
    BY <1>2 DEF TapLook, TapBlip, Listen, WindowOver, Sleep, EnterStandby,
         PoweredDown, Resumed, SetRate, SetMode, Identify, LedTick, Command,
         mainVars, timeVars, tapVars, Busy
  <2>2. Behind' = Behind
    BY <2>1 DEF Behind, Turn
  <2>3. Dense'
    BY <2>1 DEF TInv, Dense, Close, Spread
  <2>4. ASSUME NEW x \in Nat, Held(x), level # "off" PROVE Held(x)'
    <3>1. CASE Listen
      BY <2>4, <3>1, HeldListens
    <3>2. CASE WindowOver
      BY <2>4, <3>2, HeldResumes
    <3>3. CASE ~Listen /\ ~WindowOver
      <4>1. spell' = spell /\ ((main' = "listen") <=> (main = "listen"))
        BY <1>2, <3>3 DEF TapLook, TapBlip, Sleep, EnterStandby,
             PoweredDown, Resumed, SetRate, SetMode, Identify, LedTick,
             Command, mainVars, timeVars
      <4>2. Behind' \in Nat /\ Behind <= Behind'
        BY <2>2, TapState
      <4> QED BY <2>4, <4>1, <4>2, HeldStays
    <3> QED BY <3>1, <3>2, <3>3
  <2>5. Owed' /\ Refractory'
    BY <2>1, <2>4, TapKept
  <2>6. /\ spell' \in Nat /\ (main' = "listen" => spell' <= WINDOW)
        /\ level' # "off" => g_streaming' /\ g_orient'
        /\ main' = "down" => ~g_streaming'
        /\ ~imu' /\ (g_streaming' \/ main' = "up") =>
             imu_msgq' = <<>> /\ fusion' = "get" /\ level' = "off"
    <3>1. CASE TapLook \/ TapBlip
      BY <3>1 DEF TapLook, TapBlip, TInv, Levels, Dark, mainVars, timeVars
    <3>2. CASE Listen
      BY <3>2, TapTypes DEF Listen, TInv, Levels, Dark
    <3>3. CASE WindowOver \/ Sleep
      BY <3>3 DEF WindowOver, Sleep, TInv, Levels, Dark, timeVars
    <3>4. CASE EnterStandby
      BY <3>4 DEF EnterStandby, TInv, Levels, Dark, timeVars
    <3>5. CASE PoweredDown
      BY <3>5 DEF PoweredDown, TInv, Levels, Dark, timeVars
    <3>6. CASE Resumed
      BY <3>6 DEF Resumed, TInv, Levels, Dark, timeVars
    <3>7. CASE \/ \E hz \in Requests : SetRate(hz)
               \/ \E orient \in BOOLEAN : SetMode(orient)
               \/ Identify
      BY <3>7 DEF SetRate, SetMode, Identify, Command, TInv, Levels, Dark,
           timeVars
    <3>8. CASE LedTick
      BY <3>8 DEF LedTick, TInv, Levels, Dark, mainVars, timeVars
    <3> QED BY <1>2, <3>1, <3>2, <3>3, <3>4, <3>5, <3>6, <3>7, <3>8
  <2>7. Levels' /\ Dark'
    BY <2>1, <2>6 DEF TInv, Levels, Dark
  <2> QED BY <2>3, <2>5, <2>7 DEF TInv
<1> QED BY <1>1, <1>2

LEMMA NextTInv == Prompt /\ IInv /\ TInv /\ [Next]_vars => TInv'
<1>1. ASSUME IInv, TInv, UNCHANGED vars PROVE TInv'
  <2>1. /\ UNCHANGED <<main, imu, g_streaming, g_orient, spell, gap, imu_msgq,
                       decim, tapdet, tap_left, level, lost, fusion>>
        /\ Busy' = Busy
    BY <1>1 DEF vars, mainVars, timeVars, tapVars, Busy
  <2>2. Behind' = Behind
    BY <2>1 DEF Behind, Turn
  <2>3. ASSUME NEW x \in Nat, Held(x) PROVE Held(x)'
    BY <2>1, <2>2, <2>3 DEF Held, Lag
  <2>4. Owed' /\ Refractory'
    BY <1>1, <2>1, <2>3, TapKept
  <2> QED BY <1>1, <2>1, <2>4 DEF TInv, Levels, Dark, Dense, Close, Spread
<1> QED
  BY <1>1, DrdyTInv, DrdyFailsTInv, TakeTInv, SendTInv, OtherTInv DEF Next

(* Every tap of a head that streams orientation is an edge for the         *)
(* receiver, for any depth of the queue, rates, windows and hold that leave*)
(* room for the samples that may be held back, refused in a window, or lost*)
(* in each turn of the fusion thread.                                      *)
THEOREM TapsAreSignalled == ASSUME Prompt PROVE Spec => []TapsSignalled
<1>1. IInv /\ TInv => TapsSignalled
  <2> SUFFICES ASSUME IInv, TInv PROVE TapsSignalled
    OBVIOUS
  <2>1. level # "merged"
    BY DEF TInv, Levels
  <2>2. ASSUME level = "due", tap_left = 0 PROVE FALSE
    <3>1. Held(TAP_HOLD)
      BY <2>2, TapTypes DEF TInv, Owed
    <3>2. TAP_HOLD <= 2 * Lag + WINDOW
      BY <3>1, HeldBound, TapTypes
    <3> QED BY <3>2, TapTypes DEF Prompt
  <2> QED BY <2>1, <2>2, TapState DEF TapsSignalled
<1>2. IInv /\ TInv /\ [Next]_vars => (IInv /\ TInv)'
  BY NextIInv, NextTInv
<1> QED BY <1>1, <1>2, InitIInv, InitTInv, PTL DEF Spec

=============================================================================
