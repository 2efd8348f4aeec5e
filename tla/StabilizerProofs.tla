--------------------------- MODULE StabilizerProofs ---------------------------
(***************************************************************************)
(* The safety properties of Stabilizer hold for every gap, every width of  *)
(* t_us and every setting of the options.  Each is about a clock of the    *)
(* code that only counts what the samples tell it, and the proofs relate   *)
(* that clock to history by an inequality that gaps, lost samples, wraps   *)
(* and reboots can only widen: of taps to real time, of the wear state to  *)
(* the time that the samples have counted.                                 *)
(***************************************************************************)
EXTENDS Stabilizer, TLAPS

WearStates ==
  [worn : BOOLEAN, worn_time : 0 .. worn_hold_s, still_time : 0 .. off_hold_s,
   stable : 0 .. min_worn_s]

TypeOK ==
  /\ since \in 0 .. T_WRAP - 1
  /\ spaced \in 0 .. refractory_s
  /\ dt \in 0 .. GAP_MAX
  /\ have_t_ \in BOOLEAN
  /\ tap_refractory_left_ \in 0 .. refractory_s
  /\ tap_settle_left_ \in Int
  /\ wear \in WearStates
  /\ handled \in 0 .. worn_hold_s + min_worn_s
  /\ resting \in 0 .. off_hold_s

(* What the refractory time has still to run covers what is missing of it  *)
(* in real time, and what the next sample would take off it is real time.  *)
Refraction ==
  spaced < refractory_s =>
    Dt <= spaced + tap_refractory_left_ - refractory_s

(* No clock of the wear state says more than what the samples' own dt has  *)
(* added up to since the motion or the stillness that it is about.  The    *)
(* sample that completes the time worn counts as settled as well, hence    *)
(* the GAP_MAX.                                                            *)
Wearing ==
  /\ wear.worn_time <= handled
  /\ wear.still_time = resting
  /\ wear.worn => /\ handled >= worn_hold_s
                  /\ worn_hold_s + wear.stable <= handled + GAP_MAX
                  /\ resting < off_hold_s
  /\ ~wear.worn => wear.stable = 0

(* Requests that have been taken are not yet applied, and none is held     *)
(* between two samples.                                                    *)
Requested ==
  /\ pc \in {"idle", "taken"}
  /\ pc = "idle" => req = {}
  /\ owed \subseteq requests_ \cup req

IInv == TypeOK /\ Refraction /\ Wearing /\ Requested

-----------------------------------------------------------------------------
LEMMA ConstantTypes ==
  /\ GAP_MAX \in Nat /\ GAP_MAX > 0
  /\ T_WRAP \in Nat /\ T_WRAP > GAP_MAX
  /\ refractory_s \in Nat /\ min_worn_s \in Nat /\ settle_timeout_s \in Nat
  /\ worn_hold_s \in Nat /\ worn_hold_s > GAP_MAX
  /\ off_hold_s \in Nat /\ off_hold_s > 0
BY StabilizerAssumption

LEMMA AddedIs ==
  ASSUME NEW a \in Nat, NEW d \in Nat, NEW limit \in Nat
  PROVE  /\ Added(a, d, limit) = IF a + d <= limit THEN a + d ELSE limit
         /\ Added(a, d, limit) \in 0 .. limit
<1> DEFINE least == IF a + d <= limit THEN a + d ELSE limit
<1>1. /\ least \in {a + d, limit}
      /\ \A y \in {a + d, limit} : least <= y
  OBVIOUS
<1>2. \A x \in {a + d, limit} :
        (\A y \in {a + d, limit} : x <= y) => x = least
  OBVIOUS
<1>3. Min({a + d, limit}) = least
  <2> HIDE DEF least
  <2> QED BY <1>1, <1>2 DEF Min
<1> QED BY <1>3 DEF Added

LEMMA DtIs ==
  ASSUME TypeOK
  PROVE  Dt \in 0 .. GAP_MAX /\ Dt <= since
BY ConstantTypes DEF TypeOK, Dt

LEMMA InitIInv == Init => IInv
<1> SUFFICES ASSUME Init PROVE IInv
  OBVIOUS
<1> USE ConstantTypes DEF Init
<1>1. TypeOK
  <2>1. wear \in WearStates
    BY DEF WearStates
  <2>2. since \in 0 .. T_WRAP - 1 /\ tap_settle_left_ \in Int
    OBVIOUS
  <2>3. spaced \in 0 .. refractory_s /\ dt \in 0 .. GAP_MAX
    OBVIOUS
  <2>4. handled \in 0 .. worn_hold_s + min_worn_s /\ resting \in 0 .. off_hold_s
    OBVIOUS
  <2>5. have_t_ \in BOOLEAN
    OBVIOUS
  <2>6. tap_refractory_left_ \in 0 .. refractory_s
    OBVIOUS
  <2> QED BY <2>1, <2>2, <2>3, <2>4, <2>5, <2>6, Zenon DEF TypeOK
<1>2. Refraction
  BY DEF Refraction
<1>3. Wearing
  BY DEF Wearing
<1>4. Requested
  BY DEF Requested
<1> QED BY <1>1, <1>2, <1>3, <1>4 DEF IInv

-----------------------------------------------------------------------------
(* Time passes, and a unit restarts.                                       *)

LEMMA ClockIInv ==
  ASSUME IInv, Tick \/ Reboot
  PROVE  IInv'
<1> USE ConstantTypes
<1>1. /\ UNCHANGED <<pc, dt, req, tapVars, tap_settle_left_, levelVars,
                     requests_, owed, seenVars>>
      /\ since' \in 0 .. T_WRAP - 1
  BY DEF Tick, Reboot, IInv, TypeOK
<1>2. /\ spaced \in 0 .. refractory_s /\ since \in 0 .. T_WRAP - 1
      /\ have_t_' = have_t_ /\ tap_refractory_left_' = tap_refractory_left_
      /\ tap_refractory_left_ \in 0 .. refractory_s
      /\ Dt \in 0 .. GAP_MAX
  BY <1>1, DtIs DEF IInv, TypeOK, tapVars
<1>3. \E d \in {1, GAP_MAX + 1} :
        spaced' = Added(spaced, d, refractory_s) /\ Dt' <= Dt + d
  <2>1. CASE Tick
    <3>1. since' = (since + 1) % T_WRAP
          /\ spaced' = Added(spaced, 1, refractory_s)
      BY <2>1 DEF Tick
    <3>2. since' = since + 1 \/ since' = 0
      BY <1>2, <3>1
    <3>3. Dt' <= Dt + 1
      BY <1>2, <3>2 DEF Dt
    <3> QED BY <3>1, <3>3
  <2>2. CASE Reboot
    <3>1. spaced' = Added(spaced, GAP_MAX + 1, refractory_s)
      BY <2>2 DEF Reboot
    <3>2. Dt' <= Dt + (GAP_MAX + 1)
      BY <1>1, <1>2 DEF Dt
    <3> QED BY <3>1, <3>2
  <2> QED BY <2>1, <2>2
<1>4. /\ spaced' \in 0 .. refractory_s
      /\ \/ spaced' = refractory_s
         \/ /\ spaced < refractory_s
            /\ \E e \in Nat : spaced' = spaced + e /\ Dt' <= Dt + e
  <2>1. PICK d \in {1, GAP_MAX + 1} :
          spaced' = Added(spaced, d, refractory_s) /\ Dt' <= Dt + d
    BY <1>3
  <2>2. d \in Nat \ {0}
    OBVIOUS
  <2>3. spaced' = (IF spaced + d <= refractory_s THEN spaced + d
                                                 ELSE refractory_s)
    <3>1. spaced \in Nat
      BY <1>2
    <3> QED BY <2>1, <2>2, <3>1, AddedIs, Zenon
  <2>4. CASE spaced + d <= refractory_s
    <3>1. spaced' = spaced + d
      BY <2>3, <2>4
    <3> QED BY <1>2, <2>1, <2>2, <2>4, <3>1
  <2>5. CASE ~(spaced + d <= refractory_s)
    BY <1>2, <2>3, <2>5
  <2> QED BY <2>4, <2>5
<1>5. TypeOK'
  BY <1>1, <1>4 DEF IInv, TypeOK, tapVars, levelVars, seenVars
<1>6. Refraction'
  <2>1. CASE spaced' = refractory_s
    BY <1>2, <2>1 DEF Refraction
  <2>2. ASSUME spaced < refractory_s,
               NEW e \in Nat, spaced' = spaced + e, Dt' <= Dt + e
        PROVE  Refraction'
    <3>. Dt' \in Int
      BY <1>1 DEF Dt
    <3>1. Dt <= spaced + tap_refractory_left_ - refractory_s
      BY <2>2 DEF IInv, Refraction
    <3>2. Dt' <= (spaced + e) + tap_refractory_left_ - refractory_s
      BY <1>2, <2>2, <3>1
    <3> QED BY <1>2, <2>2, <3>2 DEF Refraction
  <2> QED BY <1>4, <2>1, <2>2
<1>7. Wearing' /\ Requested'
  BY <1>1 DEF IInv, Wearing, Requested, levelVars, seenVars
<1> QED BY <1>5, <1>6, <1>7 DEF IInv

LEMMA GestureIInv ==
  ASSUME IInv, Gesture
  PROVE  IInv'
BY DEF IInv, Gesture, TypeOK, Refraction, Wearing, Requested, Dt, clockVars,
       tapVars, levelVars, seenVars

LEMMA RequestIInv ==
  ASSUME IInv, NEW kind, Request(kind)
  PROVE  IInv'
<1>1. Requested'
  BY DEF IInv, Request, Requested
<1> QED
  BY <1>1 DEF IInv, Request, TypeOK, Refraction, Wearing, Dt, clockVars,
              tapVars, levelVars, seenVars

-----------------------------------------------------------------------------
(* A sample begins: a tap is counted only when no refractory time is left, *)
(* and starts a new one.                                                   *)

LEMMA BeginIInv ==
  ASSUME IInv, Begin
  PROVE  IInv'
<1> USE ConstantTypes
<1>1. Dt \in 0 .. GAP_MAX /\ since' = 0
  BY DtIs DEF IInv, Begin
<1>2. /\ dt' = Dt /\ have_t_' = TRUE
      /\ \/ /\ CountsTap
            /\ tap_refractory_left_' = refractory_s /\ spaced' = 0
            /\ tap_settle_left_' \in {settle_timeout_s, tap_settle_left_}
         \/ /\ ~CountsTap
            /\ tap_refractory_left_' = Refractory
            /\ spaced' = spaced /\ tap_settle_left_' = tap_settle_left_
      /\ UNCHANGED <<levelVars, owed, seenVars>>
  BY DEF Begin, RefractoryAfter
<1>3. Refractory \in 0 .. refractory_s
      /\ tap_refractory_left_ <= Refractory + Dt
  BY <1>1 DEF IInv, TypeOK, Refractory
<1>4. TypeOK'
  BY <1>1, <1>2, <1>3 DEF IInv, TypeOK, levelVars, seenVars
<1>5. Dt' = 0
  BY <1>1 DEF Dt
<1>6. Refraction'
  BY <1>1, <1>2, <1>3, <1>5 DEF IInv, Refraction, TypeOK
<1>7. Wearing'
  BY <1>2 DEF IInv, Wearing, levelVars, seenVars
<1>8. Requested'
  BY DEF IInv, Begin, Requested
<1> QED BY <1>4, <1>6, <1>7, <1>8 DEF IInv

-----------------------------------------------------------------------------
(* A sample ends: what it does to the wear state and to the two clocks that*)
(* run beside it, whatever gravity says of it.                             *)

Times(gravity) ==
  /\ handled' = Added(IF gravity = "jolt" THEN 0 ELSE handled,
                      dt, worn_hold_s + min_worn_s)
  /\ resting' = IF gravity = "still" THEN Added(resting, dt, off_hold_s) ELSE 0

(* The time worn and the time still after a sample, before it counts as    *)
(* settled: w is the wear state that Wear() has reached there.             *)
Reached(w) ==
  /\ w.worn \in BOOLEAN /\ w.stable = wear.stable
  /\ w.worn_time \in 0 .. worn_hold_s /\ w.worn_time <= handled'
  /\ w.still_time \in 0 .. off_hold_s /\ w.still_time = resting'
  /\ w.worn => /\ handled' >= worn_hold_s
               /\ worn_hold_s + wear.stable + dt <= handled' + GAP_MAX
                    \/ handled' = worn_hold_s + min_worn_s
               /\ resting' < off_hold_s

LEMMA AliveReached ==
  ASSUME IInv, dt > 0, Times("alive")
  PROVE  Alive(wear) \in WearStates /\ Reached(Alive(wear))
<1> USE ConstantTypes
<1> DEFINE w == Alive(wear)
<1>1. /\ wear \in WearStates /\ dt \in 1 .. GAP_MAX
      /\ handled \in 0 .. worn_hold_s + min_worn_s
      /\ wear.worn_time \in 0 .. worn_hold_s /\ wear.stable \in 0 .. min_worn_s
  BY DEF IInv, TypeOK, WearStates
<1>2. /\ w.worn \in BOOLEAN
      /\ w.worn <=> wear.worn \/ wear.worn_time + dt >= worn_hold_s
      /\ w.worn_time = Added(wear.worn_time, dt, worn_hold_s)
      /\ w.still_time = 0 /\ w.stable = wear.stable
  BY <1>1 DEF Alive, WearStates
<1>3. /\ handled' = IF handled + dt <= worn_hold_s + min_worn_s
                    THEN handled + dt ELSE worn_hold_s + min_worn_s
      /\ resting' = 0
  <2>1. handled' = Added(handled, dt, worn_hold_s + min_worn_s) /\ resting' = 0
    BY DEF Times
  <2>2. handled \in Nat /\ dt \in Nat /\ worn_hold_s + min_worn_s \in Nat
    BY <1>1
  <2> QED BY <2>1, <2>2, AddedIs, Zenon
<1>4. Added(wear.worn_time, dt, worn_hold_s)
        = IF wear.worn_time + dt <= worn_hold_s
          THEN wear.worn_time + dt ELSE worn_hold_s
  <2>1. wear.worn_time \in Nat /\ dt \in Nat
    BY <1>1
  <2> QED BY <2>1, AddedIs, Zenon
<1>5. /\ wear.worn_time <= handled
      /\ wear.worn => /\ handled >= worn_hold_s
                      /\ worn_hold_s + wear.stable <= handled + GAP_MAX
      /\ ~wear.worn => wear.stable = 0
  BY DEF IInv, Wearing
<1>6. /\ w.worn_time \in 0 .. worn_hold_s /\ w.worn_time <= handled'
      /\ w.worn \in BOOLEAN /\ w.stable = wear.stable
      /\ w.still_time = resting' /\ w.still_time = 0
  BY <1>1, <1>2, <1>3, <1>4, <1>5
<1>7. w \in WearStates
  <2>1. w = [worn |-> w.worn, worn_time |-> w.worn_time,
             still_time |-> w.still_time, stable |-> w.stable]
    BY DEF Alive
  <2>2. w.still_time \in 0 .. off_hold_s /\ w.stable \in 0 .. min_worn_s
    BY <1>1, <1>2
  <2> HIDE DEF w
  <2> QED BY <1>6, <2>1, <2>2 DEF WearStates
<1>8. ASSUME w.worn
      PROVE  /\ handled' >= worn_hold_s
             /\ worn_hold_s + wear.stable + dt <= handled' + GAP_MAX
                  \/ handled' = worn_hold_s + min_worn_s
  <2>1. wear.worn \/ wear.worn_time + dt >= worn_hold_s
    BY <1>2, <1>8
  <2>2. CASE handled + dt <= worn_hold_s + min_worn_s
    <3>1. handled' = handled + dt
      BY <1>3, <2>2
    <3>2. handled + dt >= worn_hold_s
      BY <1>1, <1>5, <2>1
    <3>3. worn_hold_s + wear.stable + dt <= handled + dt + GAP_MAX
      BY <1>1, <1>5, <2>1
    <3> QED BY <3>1, <3>2, <3>3
  <2>3. CASE ~(handled + dt <= worn_hold_s + min_worn_s)
    BY <1>3, <2>3
  <2> QED BY <2>2, <2>3
<1>9. w.still_time \in 0 .. off_hold_s /\ resting' < off_hold_s
  BY <1>3, <1>6
<1>10. Reached(w)
  <2> HIDE DEF w
  <2> QED BY <1>6, <1>8, <1>9, Zenon DEF Reached
<1> QED BY <1>7, <1>10

LEMMA StillReached ==
  ASSUME IInv, dt > 0, Times("still")
  PROVE  Still(wear) \in WearStates /\ Reached(Still(wear))
<1> USE ConstantTypes
<1> DEFINE w == Still(wear)
<1>1. /\ wear \in WearStates /\ dt \in 1 .. GAP_MAX
      /\ handled \in 0 .. worn_hold_s + min_worn_s /\ resting \in 0 .. off_hold_s
      /\ wear.stable \in 0 .. min_worn_s
  BY DEF IInv, TypeOK, WearStates
<1>2. /\ w.worn \in BOOLEAN
      /\ w.worn <=> wear.worn /\ wear.still_time + dt < off_hold_s
      /\ w.still_time = Added(wear.still_time, dt, off_hold_s)
      /\ w.worn_time = 0 /\ w.stable = wear.stable
  BY <1>1 DEF Still, WearStates
<1>3. /\ handled' = IF handled + dt <= worn_hold_s + min_worn_s
                    THEN handled + dt ELSE worn_hold_s + min_worn_s
      /\ resting' = Added(resting, dt, off_hold_s)
  <2>1. /\ handled' = Added(handled, dt, worn_hold_s + min_worn_s)
        /\ resting' = Added(resting, dt, off_hold_s)
    BY DEF Times
  <2>2. handled \in Nat /\ dt \in Nat /\ worn_hold_s + min_worn_s \in Nat
    BY <1>1
  <2> QED BY <2>1, <2>2, AddedIs, Zenon
<1>4. Added(resting, dt, off_hold_s)
        = IF resting + dt <= off_hold_s THEN resting + dt ELSE off_hold_s
  <2>1. resting \in Nat /\ dt \in Nat
    BY <1>1
  <2> QED BY <2>1, AddedIs, Zenon
<1>5. /\ wear.still_time = resting
      /\ wear.worn => /\ handled >= worn_hold_s
                      /\ worn_hold_s + wear.stable <= handled + GAP_MAX
  BY DEF IInv, Wearing
<1>6. /\ w.still_time \in 0 .. off_hold_s /\ w.still_time = resting'
      /\ w.worn \in BOOLEAN /\ w.stable = wear.stable
      /\ w.worn_time = 0 /\ w.worn_time <= handled'
      /\ w.worn_time \in 0 .. worn_hold_s
  BY <1>1, <1>2, <1>3, <1>4, <1>5
<1>7. w \in WearStates
  <2>1. w = [worn |-> w.worn, worn_time |-> w.worn_time,
             still_time |-> w.still_time, stable |-> w.stable]
    BY DEF Still
  <2> HIDE DEF w
  <2> QED BY <1>1, <1>6, <2>1 DEF WearStates
<1>8. ASSUME w.worn
      PROVE  /\ handled' >= worn_hold_s
             /\ worn_hold_s + wear.stable + dt <= handled' + GAP_MAX
                  \/ handled' = worn_hold_s + min_worn_s
             /\ resting' < off_hold_s
  <2>1. wear.worn /\ resting + dt < off_hold_s
    BY <1>2, <1>5, <1>8
  <2>2. resting' < off_hold_s
    BY <1>1, <1>3, <1>4, <2>1
  <2>3. CASE handled + dt <= worn_hold_s + min_worn_s
    <3>1. handled' = handled + dt
      BY <1>3, <2>3
    <3>2. handled + dt >= worn_hold_s
      BY <1>1, <1>5, <2>1
    <3>3. worn_hold_s + wear.stable + dt <= handled + dt + GAP_MAX
      BY <1>1, <1>5, <2>1
    <3> QED BY <2>2, <3>1, <3>2, <3>3
  <2>4. CASE ~(handled + dt <= worn_hold_s + min_worn_s)
    BY <1>3, <2>2, <2>4
  <2> QED BY <2>3, <2>4
<1>9. Reached(w)
  <2> HIDE DEF w
  <2> QED BY <1>6, <1>8, Zenon DEF Reached
<1> QED BY <1>7, <1>9

(* A unit that is picked up or put down starts from nothing, and one gap is*)
(* not long enough to count as worn.                                       *)
LEMMA JoltReached ==
  ASSUME IInv, dt > 0, Times("jolt")
  PROVE  Alive(Distrusted(wear)) \in WearStates /\ Reached(Alive(Distrusted(wear)))
<1> USE ConstantTypes
<1> DEFINE w == Alive(Distrusted(wear))
<1>1. /\ wear \in WearStates /\ dt \in 1 .. GAP_MAX
      /\ wear.stable \in 0 .. min_worn_s
  BY DEF IInv, TypeOK, WearStates
<1>2. Added(0, dt, worn_hold_s) = dt
      /\ Added(0, dt, worn_hold_s + min_worn_s) = dt
  <2>1. /\ dt \in Nat /\ 0 \in Nat /\ worn_hold_s + min_worn_s \in Nat
        /\ 0 + dt <= worn_hold_s /\ 0 + dt <= worn_hold_s + min_worn_s
        /\ 0 + dt = dt
    BY <1>1
  <2> QED BY <2>1, AddedIs, Zenon
<1>3. handled' = dt /\ resting' = 0
  BY <1>2 DEF Times
<1>4. /\ Distrusted(wear).worn = FALSE /\ Distrusted(wear).worn_time = 0
      /\ Distrusted(wear).stable = wear.stable
  BY <1>1 DEF Distrusted, WearStates
<1>5. w = [worn |-> FALSE, worn_time |-> dt, still_time |-> 0,
           stable |-> wear.stable]
  <2>1. ~(0 + dt >= worn_hold_s)
    BY <1>1
  <2>2. (Distrusted(wear).worn \/ 0 + dt >= worn_hold_s) = FALSE
    BY <1>4, <2>1
  <2> QED BY <1>2, <1>4, <2>2, Zenon DEF Alive
<1>6. dt \in 0 .. worn_hold_s /\ 0 \in 0 .. off_hold_s /\ FALSE \in BOOLEAN
  BY <1>1
<1>7. w \in WearStates
  <2> HIDE DEF w
  <2> QED BY <1>1, <1>5, <1>6 DEF WearStates
<1>8. Reached(w)
  <2> HIDE DEF w
  <2>1. /\ w.worn = FALSE /\ w.worn_time = dt
        /\ w.still_time = 0 /\ w.stable = wear.stable
    BY <1>5
  <2>2. dt <= handled'
    BY <1>1, <1>3
  <2> QED BY <1>3, <1>6, <2>1, <2>2, Zenon DEF Reached
<1> QED BY <1>7, <1>8

LEMMA FinishWear ==
  ASSUME IInv, dt > 0, NEW gravity \in {"still", "alive", "jolt"},
         Times(gravity), wear' = Wear(gravity)
  PROVE  \E w \in WearStates :
           Reached(w) /\ wear' = [w EXCEPT !.stable = wear'.stable]
           /\ wear'.stable = IF w.worn THEN Added(wear.stable, dt, min_worn_s)
                                       ELSE 0
<1> DEFINE w == CASE gravity = "jolt"  -> Alive(Distrusted(wear))
                  [] gravity = "alive" -> Alive(wear)
                  [] gravity = "still" -> Still(wear)
<1>1. w \in WearStates /\ Reached(w)
  BY AliveReached, StillReached, JoltReached
<1>2. wear' = [w EXCEPT !.stable = IF w.worn THEN Added(w.stable, dt, min_worn_s)
                                             ELSE 0]
  BY DEF Wear
<1>3. w.stable = wear.stable
  BY <1>1 DEF Reached
<1> HIDE DEF w
<1>4. wear'.stable = IF w.worn THEN Added(wear.stable, dt, min_worn_s) ELSE 0
  BY <1>1, <1>2, <1>3 DEF WearStates
<1>5. wear' = [w EXCEPT !.stable = wear'.stable]
  BY <1>2, <1>3, <1>4
<1> QED BY <1>1, <1>4, <1>5

LEMMA FinishTimes ==
  ASSUME IInv, Finish
  PROVE  \/ UNCHANGED <<wear, worn_total_s_, level_updates_, seenVars>>
         \/ /\ dt > 0
            /\ \E gravity \in {"still", "alive", "jolt"} :
                 /\ Times(gravity) /\ wear' = Wear(gravity)
                 /\ level_updates_' # level_updates_ => wear'.worn
<1> USE ConstantTypes
<1>1. dt = 0 \/ dt > 0
  BY DEF IInv, TypeOK
<1>2. CASE dt = 0
  BY <1>2 DEF Finish
<1>3. ASSUME dt > 0
      PROVE  \E gravity \in {"still", "alive", "jolt"} :
               /\ Times(gravity) /\ wear' = Wear(gravity)
               /\ level_updates_' # level_updates_ => wear'.worn
  <2>1. dt # 0
    BY <1>3
  <2>2. PICK gravity \in {"still", "alive", "jolt"}, tilts \in BOOLEAN :
          /\ wear' = Wear(gravity)
          /\ handled' = Added(IF gravity = "jolt" THEN 0 ELSE handled,
                              dt, worn_hold_s + min_worn_s)
          /\ resting' = IF gravity = "still"
                        THEN Added(resting, dt, off_hold_s) ELSE 0
          /\ level_updates_' # level_updates_ => Levels(Wear(gravity))
    BY <2>1, Zenon DEF Finish
  <2> QED BY <2>2, Zenon DEF Times, Levels
<1> QED BY <1>1, <1>2, <1>3

LEMMA FinishWearing ==
  ASSUME IInv, dt > 0, NEW gravity \in {"still", "alive", "jolt"},
         Times(gravity), wear' = Wear(gravity)
  PROVE  /\ wear' \in WearStates
         /\ handled' \in 0 .. worn_hold_s + min_worn_s
         /\ resting' \in 0 .. off_hold_s
         /\ Wearing'
<1> USE ConstantTypes
<1>1. PICK w \in WearStates :
        /\ Reached(w) /\ wear' = [w EXCEPT !.stable = wear'.stable]
        /\ wear'.stable = IF w.worn THEN Added(wear.stable, dt, min_worn_s)
                                    ELSE 0
  BY FinishWear
<1>2. /\ dt \in 1 .. GAP_MAX /\ wear.stable \in 0 .. min_worn_s
      /\ handled \in 0 .. worn_hold_s + min_worn_s /\ resting \in 0 .. off_hold_s
  BY DEF IInv, TypeOK, WearStates
<1>3. /\ Added(wear.stable, dt, min_worn_s)
           = IF wear.stable + dt <= min_worn_s THEN wear.stable + dt
                                               ELSE min_worn_s
      /\ Added(wear.stable, dt, min_worn_s) \in 0 .. min_worn_s
  <2>1. wear.stable \in Nat /\ dt \in Nat
    BY <1>2
  <2> QED BY <2>1, AddedIs, Zenon
<1>4. wear'.stable \in 0 .. min_worn_s
  BY <1>1, <1>3
<1>5. /\ wear' \in WearStates
      /\ wear'.worn = w.worn /\ wear'.worn_time = w.worn_time
      /\ wear'.still_time = w.still_time
  BY <1>1, <1>4 DEF WearStates
<1>6. handled' \in 0 .. worn_hold_s + min_worn_s /\ resting' \in 0 .. off_hold_s
  <2>1. /\ (IF gravity = "jolt" THEN 0 ELSE handled) \in Nat
        /\ dt \in Nat /\ resting \in Nat /\ worn_hold_s + min_worn_s \in Nat
        /\ 0 \in 0 .. off_hold_s
    BY <1>2
  <2> QED BY <2>1, AddedIs, Zenon DEF Times
<1>7. /\ wear'.worn_time <= handled' /\ wear'.still_time = resting'
      /\ ~wear'.worn => wear'.stable = 0
  BY <1>1, <1>5 DEF Reached
<1>8. ASSUME wear'.worn
      PROVE  /\ handled' >= worn_hold_s
             /\ worn_hold_s + wear'.stable <= handled' + GAP_MAX
             /\ resting' < off_hold_s
  <2>1. PICK h \in Nat, s \in Nat : handled' = h /\ wear'.stable = s
    BY <1>4, <1>6
  <2>2. /\ handled' >= worn_hold_s /\ resting' < off_hold_s
        /\ worn_hold_s + wear.stable + dt <= handled' + GAP_MAX
             \/ handled' = worn_hold_s + min_worn_s
        /\ s = Added(wear.stable, dt, min_worn_s)
    BY <1>1, <1>5, <1>8, <2>1 DEF Reached
  <2>3. s <= wear.stable + dt /\ s <= min_worn_s
    BY <1>2, <1>3, <2>2
  <2>4. worn_hold_s + wear.stable + dt <= h + GAP_MAX
          \/ h = worn_hold_s + min_worn_s
    BY <2>1, <2>2
  <2>5. worn_hold_s + s <= h + GAP_MAX
    BY <1>2, <2>3, <2>4
  <2> QED BY <2>1, <2>2, <2>5
<1>9. Wearing'
  BY <1>7, <1>8 DEF Wearing
<1> QED BY <1>5, <1>6, <1>9

LEMMA FinishIInv ==
  ASSUME IInv, Finish
  PROVE  IInv'
<1> USE ConstantTypes
<1>1. /\ UNCHANGED <<unitVars, clockVars, tapVars>>
      /\ dt' = 0 /\ req' = {} /\ pc' = "idle" /\ requests_' = requests_
      /\ owed' = owed \ req /\ tap_settle_left_' \in Int
  BY DEF Finish, LeftOver, SettleLeft, IInv, TypeOK
<1>2. /\ wear' \in WearStates
      /\ handled' \in 0 .. worn_hold_s + min_worn_s
      /\ resting' \in 0 .. off_hold_s
      /\ Wearing'
  <2>1. CASE UNCHANGED <<wear, worn_total_s_, level_updates_, seenVars>>
    BY <2>1 DEF IInv, TypeOK, Wearing, seenVars
  <2>2. ASSUME dt > 0, NEW gravity \in {"still", "alive", "jolt"},
               Times(gravity), wear' = Wear(gravity)
        PROVE  <1>2!:
    BY <2>2, FinishWearing
  <2> QED BY <2>1, <2>2, FinishTimes
<1>3. TypeOK'
  BY <1>1, <1>2 DEF IInv, TypeOK, clockVars, tapVars
<1>4. Refraction'
  BY <1>1 DEF IInv, Refraction, Dt, clockVars, tapVars
<1>5. Requested'
  BY <1>1 DEF IInv, Requested
<1> QED BY <1>2, <1>3, <1>4, <1>5 DEF IInv

-----------------------------------------------------------------------------
LEMMA NextIInv == IInv /\ [Next]_vars => IInv'
<1>1. ASSUME IInv, UNCHANGED vars PROVE IInv'
  BY <1>1 DEF IInv, TypeOK, Refraction, Wearing, Requested, Dt, vars,
              clockVars, tapVars, levelVars, seenVars
<1> QED
  BY <1>1, ClockIInv, GestureIInv, RequestIInv, BeginIInv, FinishIInv DEF Next

LEMMA Invariance == Spec => []IInv
BY InitIInv, NextIInv, PTL DEF Spec

(* No request of another thread is lost, at whatever point of update() it  *)
(* comes: what update() has taken and what is still posted are all there is*)
(* to it.                                                                  *)
THEOREM RequestsAreKept == Spec => []RequestsKept
<1>1. IInv => RequestsKept
  BY DEF IInv, Requested, RequestsKept
<1> QED BY <1>1, Invariance, PTL

(* Taps are counted at least the refractory time apart by a real clock,    *)
(* whatever the link loses and however often the unit restarts.            *)
THEOREM TapsAreSpaced == Spec => TapsSpaced
<1>1. ASSUME IInv, [Next]_vars, taps_' # taps_
      PROVE  spaced >= refractory_s
  <2>1. Begin /\ CountsTap
    BY <1>1 DEF Next, Begin, Tick, Gesture, Reboot, Request, Finish, vars, tapVars
  <2>2. Dt \in 0 .. GAP_MAX /\ tap_refractory_left_ <= Dt
    BY <1>1, <2>1, DtIs, ConstantTypes DEF IInv, TypeOK, CountsTap, Refractory
  <2> QED BY <1>1, <2>2, ConstantTypes DEF IInv, TypeOK, Refraction
<1>2. IInv /\ [Next]_vars => [taps_' # taps_ => spaced >= refractory_s]_vars
  BY <1>1
<1> QED BY <1>2, Invariance, PTL DEF Spec, TapsSpaced

(* A tap recenters, and the tilt is corrected, only on a wearer: no clock  *)
(* of the wear state says more than what the samples have counted since it *)
(* was last seen picked up, put down or alive.                             *)
THEOREM WearerIsNeeded == Spec => NeedsWearer
<1> DEFINE
  Asks == tap_settle_left_ < 0 /\ tap_settle_left_' >= 0
            => handled >= worn_hold_s + min_worn_s - GAP_MAX
  Corrects == level_updates_' # level_updates_
                => handled' >= worn_hold_s /\ resting' < off_hold_s
<1>1. ASSUME IInv, [Next]_vars PROVE Asks
  <2>1. SUFFICES ASSUME tap_settle_left_ < 0, tap_settle_left_' >= 0
                 PROVE  handled >= worn_hold_s + min_worn_s - GAP_MAX
    OBVIOUS
  <2>2. tap_settle_left_' # tap_settle_left_
    BY <1>1, <2>1 DEF IInv, TypeOK
  <2>3. ~Finish
    BY <1>1, <2>1, <2>2 DEF Finish, SettleLeft, IInv, TypeOK
  <2>4. Begin /\ ActsOnTap
    BY <1>1, <2>2, <2>3 DEF Next, Begin, Tick, Gesture, Reboot, Request, vars
  <2>5. /\ handled \in Int /\ wear.stable \in Int
        /\ wear.stable >= min_worn_s
        /\ worn_hold_s + wear.stable <= handled + GAP_MAX
    BY <1>1, <2>4, ConstantTypes DEF IInv, TypeOK, WearStates, Wearing, ActsOnTap
  <2> QED BY <2>5, ConstantTypes
<1>2. ASSUME IInv, [Next]_vars PROVE Corrects
  <2>1. SUFFICES ASSUME level_updates_' # level_updates_
                 PROVE  handled' >= worn_hold_s /\ resting' < off_hold_s
    OBVIOUS
  <2>2. Finish
    BY <1>2, <2>1 DEF Next, Begin, Tick, Gesture, Reboot, Request, vars, levelVars
  <2>3. wear'.worn
    BY <1>2, <2>1, <2>2, FinishTimes
  <2>4. Wearing'
    BY <1>2, <2>2, FinishIInv DEF IInv
  <2> QED BY <2>3, <2>4 DEF Wearing
<1>3. IInv /\ [Next]_vars => [Asks /\ Corrects]_vars
  BY <1>1, <1>2
<1> QED BY <1>3, Invariance, PTL DEF Spec, NeedsWearer
=============================================================================
