-------------------------- MODULE CommandPathProofs --------------------------
(***************************************************************************)
(* What holds of Codec and CommandPath for every size of payload, frame    *)
(* and block, any threads and commands and any room on the way: a frame is *)
(* decoded to the payload it was made from, and commands are executed in   *)
(* the order in which they were written.                                   *)
(***************************************************************************)
EXTENDS CommandPath, SequenceTheorems, WellFoundedInduction, TLAPS

-----------------------------------------------------------------------------
(* Natural numbers.                                                        *)

LEMMA LeastNat ==
  ASSUME NEW T, T \subseteq Nat, T # {}
  PROVE  \E x \in T : \A y \in T : x <= y
<1> DEFINE R == OpToRel(<, Nat)
<1>1. IsWellFoundedOn(R, Nat)
  BY NatLessThanWellFounded
<1>2. \A x, y \in Nat : y < x => <<y, x>> \in R
  BY DEF OpToRel
<1> HIDE DEF R
<1>3. PICK x \in T : \A y \in T : ~(<<y, x>> \in R)
  BY <1>1, WFMin
<1>4. ASSUME NEW y \in T PROVE x <= y
  <2>1. x \in Nat /\ y \in Nat
    OBVIOUS
  <2>2. ~(y < x)
    BY <1>2, <1>3, <2>1
  <2> QED BY <2>1, <2>2
<1> QED BY <1>4

LEMMA UpTo ==
  ASSUME NEW n \in Nat, NEW T, 0 \in T, \A i \in 0 .. n - 1 : i \in T => i + 1 \in T
  PROVE  \A i \in 0 .. n : i \in T
<1> DEFINE B == (0 .. n) \ T
<1>1. SUFFICES ASSUME B # {} PROVE FALSE
  OBVIOUS
<1>2. PICK x \in B : \A y \in B : x <= y
  <2>1. B \subseteq Nat
    OBVIOUS
  <2> HIDE DEF B
  <2> QED BY <1>1, <2>1, LeastNat
<1>3. x \in 1 .. n /\ x - 1 \in 0 .. n - 1
  OBVIOUS
<1>4. x - 1 \notin B
  BY <1>2, <1>3
<1> QED BY <1>2, <1>3, <1>4

LEMMA BoundedMax ==
  ASSUME NEW n \in Nat, NEW s \in SUBSET (0 .. n), s # {}
  PROVE  Max(s) \in s /\ \A y \in s : Max(s) >= y
<1> DEFINE D == {n - y : y \in s}
<1>1. D \subseteq Nat /\ D # {}
  <2>1. \A y \in s : n - y \in Nat
    BY DEF D
  <2> QED BY <2>1
<1> HIDE DEF D
<1>2. PICK d \in D : \A e \in D : d <= e
  BY <1>1, LeastNat
<1>3. PICK x \in s : d = n - x
  BY DEF D
<1>4. ASSUME NEW y \in s PROVE x >= y
  <2>1. n - x <= n - y
    BY <1>2, <1>3 DEF D
  <2>2. x \in Int /\ y \in Int
    OBVIOUS
  <2> QED BY <2>1, <2>2
<1> QED BY <1>4 DEF Max

LEMMA MaxIs ==
  ASSUME NEW n \in Nat, NEW s \in SUBSET (1 .. n), s # {}
  PROVE  Max(s) \in s /\ \A y \in s : Max(s) >= y
<1>1. s \in SUBSET (0 .. n)
  <2>1. 1 .. n \subseteq 0 .. n
    OBVIOUS
  <2> QED BY <2>1
<1> QED BY <1>1, BoundedMax

LEMMA MaxUnique ==
  ASSUME NEW n \in Nat, NEW s \in SUBSET (1 .. n), NEW x \in s, \A y \in s : x >= y
  PROVE  Max(s) = x
<1> DEFINE m == Max(s)
<1>1. m \in s /\ m >= x
  BY MaxIs
<1> HIDE DEF m
<1>2. x >= m
  BY <1>1
<1>3. x \in Int /\ m \in Int
  BY <1>1
<1>4. m = x
  BY <1>1, <1>2, <1>3
<1> QED BY <1>4 DEF m

LEMMA MaxOfRange ==
  ASSUME NEW n \in Nat, NEW i \in 1 .. n
  PROVE  Max(1 .. i) = i /\ (1 .. i) \ {i} = 1 .. i - 1
<1>1. 1 .. i \in SUBSET (1 .. n) /\ i \in 1 .. i /\ \A y \in 1 .. i : i >= y
  OBVIOUS
<1>2. Max(1 .. i) = i
  BY <1>1, MaxUnique
<1>3. (1 .. i) \ {i} = 1 .. i - 1
  OBVIOUS
<1> QED BY <1>2, <1>3

-----------------------------------------------------------------------------
(* Folds.  What a fold over the positions 1 .. n computes is the last      *)
(* value of a run that takes the positions one by one.  F is the operator, *)
(* a function of position and value; St holds the values.                  *)

Folds(n, St, base, F) ==
  n \in Nat /\ base \in St /\ \A i \in 1 .. n, x \in St : F[<<i, x>>] \in St

\* h is a fold over every set of positions.
Solves(n, St, base, F, h) ==
  /\ h \in [SUBSET (1 .. n) -> St]
  /\ \A s \in SUBSET (1 .. n) :
       h[s] = IF s = {} THEN base ELSE F[<<Max(s), h[s \ {Max(s)}]>>]

\* g satisfies the equations of a fold as far as its values are in St.
Follows(n, St, base, F, g) ==
  /\ g[{}] = base
  /\ \A s \in SUBSET (1 .. n) :
       s # {} /\ g[s \ {Max(s)}] \in St => g[s] = F[<<Max(s), g[s \ {Max(s)}]>>]

Runs(n, St, base, F, g, r) ==
  /\ r \in [0 .. n -> St] /\ r[0] = base
  /\ \A i \in 1 .. n : r[i] = F[<<i, r[i - 1]>>]
  /\ r[n] = g[1 .. n]

LEMMA FoldExtends ==
  ASSUME NEW n \in Nat, NEW m \in 0 .. n - 1, NEW St, NEW base, NEW F, NEW h,
         Folds(n, St, base, F), Solves(m, St, base, F, h)
  PROVE  \E g : Solves(m + 1, St, base, F, g)
<1> DEFINE k == m + 1
           g == [s \in SUBSET (1 .. k) |->
                   IF k \in s THEN F[<<k, h[s \ {k}]>>] ELSE h[s]]
<1>1. /\ k \in 1 .. n /\ k \in Nat /\ m \in Nat /\ 1 .. m \subseteq 1 .. k
      /\ \A y \in 1 .. k : y # k => y \in 1 .. m
      /\ \A y \in 1 .. k : k >= y
      /\ k \notin 1 .. m /\ k \in 1 .. k
  OBVIOUS
<1> HIDE DEF k
<1>2. ASSUME NEW s \in SUBSET (1 .. k)
      PROVE  s \ {k} \in SUBSET (1 .. m)
             /\ (k \notin s => s \in SUBSET (1 .. m))
  BY <1>1
<1>3. g \in [SUBSET (1 .. k) -> St]
  <2>1. ASSUME NEW s \in SUBSET (1 .. k) PROVE g[s] \in St
    <3>1. CASE k \in s
      <4>1. h[s \ {k}] \in St
        BY <1>2 DEF Solves
      <4> QED BY <1>1, <3>1, <4>1 DEF Folds
    <3>2. CASE k \notin s
      BY <1>2, <3>2 DEF Solves
    <3> QED BY <3>1, <3>2
  <2> QED BY <2>1
<1>4. ASSUME NEW s \in SUBSET (1 .. k)
      PROVE  g[s] = IF s = {} THEN base ELSE F[<<Max(s), g[s \ {Max(s)}]>>]
  <2>1. CASE k \in s
    <3>1. Max(s) = k
      BY <1>1, <2>1, MaxUnique
    <3>2. g[s \ {k}] = h[s \ {k}]
      <4>1. s \ {k} \in SUBSET (1 .. k) /\ k \notin s \ {k}
        OBVIOUS
      <4> QED BY <4>1
    <3> QED BY <2>1, <3>1, <3>2
  <2>2. CASE k \notin s
    <3>1. s \in SUBSET (1 .. m) /\ g[s] = h[s]
      BY <1>2, <2>2
    <3>2. s # {} => Max(s) \in s
      BY <1>1, <3>1, MaxIs
    <3>3. g[s \ {Max(s)}] = h[s \ {Max(s)}]
      <4>1. s \ {Max(s)} \in SUBSET (1 .. k) /\ k \notin s \ {Max(s)}
        BY <2>2
      <4> QED BY <4>1
    <3> HIDE DEF g
    <3> QED BY <3>1, <3>3 DEF Solves
  <2> QED BY <2>1, <2>2
<1> HIDE DEF g
<1>5. Solves(k, St, base, F, g)
  BY <1>3, <1>4 DEF Solves
<1> QED BY <1>5 DEF k

LEMMA FoldExists ==
  ASSUME NEW n, NEW St, NEW base, NEW F, Folds(n, St, base, F)
  PROVE  \E h : Solves(n, St, base, F, h)
<1> DEFINE T == {i \in 0 .. n : \E h : Solves(i, St, base, F, h)}
<1>1. n \in Nat /\ base \in St
  BY DEF Folds
<1>2. 0 \in T
  <2> DEFINE h == [s \in SUBSET (1 .. 0) |-> base]
  <2>1. \A s \in SUBSET (1 .. 0) : s = {}
    OBVIOUS
  <2>2. h \in [SUBSET (1 .. 0) -> St] /\ \A s \in SUBSET (1 .. 0) : h[s] = base
    BY <1>1
  <2> HIDE DEF h
  <2>3. Solves(0, St, base, F, h)
    BY <2>1, <2>2 DEF Solves
  <2> QED BY <1>1, <2>3
<1>3. ASSUME NEW i \in 0 .. n - 1, i \in T PROVE i + 1 \in T
  <2>1. PICK h : Solves(i, St, base, F, h)
    BY <1>3
  <2>2. \E g : Solves(i + 1, St, base, F, g)
    BY <1>1, <2>1, FoldExtends
  <2>3. i + 1 \in 0 .. n
    BY <1>1
  <2> QED BY <2>2, <2>3
<1> HIDE DEF T
<1>4. \A i \in 0 .. n : i \in T
  BY <1>1, <1>2, <1>3, UpTo
<1>5. n \in T
  BY <1>1, <1>4
<1> QED BY <1>5 DEF T

LEMMA FoldRun ==
  ASSUME NEW n, NEW St, NEW base, NEW F, NEW g,
         Folds(n, St, base, F), Follows(n, St, base, F, g)
  PROVE  \E r : Runs(n, St, base, F, g, r)
<1> DEFINE r == [i \in 0 .. n |-> g[1 .. i]]
           T == {i \in 0 .. n : r[i] \in St}
<1>1. n \in Nat /\ base \in St
  BY DEF Folds
<1>2. r[0] = base
  <2>1. 0 \in 0 .. n /\ 1 .. 0 = {}
    BY <1>1
  <2> QED BY <2>1 DEF Follows
<1>3. ASSUME NEW i \in 1 .. n, r[i - 1] \in St PROVE r[i] = F[<<i, r[i - 1]>>]
  <2>1. i \in 0 .. n /\ i - 1 \in 0 .. n
    BY <1>1
  <2>2. r[i] = g[1 .. i] /\ r[i - 1] = g[1 .. i - 1]
    BY <2>1
  <2> HIDE DEF r
  <2>3. Max(1 .. i) = i /\ (1 .. i) \ {i} = 1 .. i - 1
    BY <1>1, MaxOfRange
  <2>4. 1 .. i \in SUBSET (1 .. n) /\ 1 .. i # {}
    BY <1>1
  <2> QED BY <1>3, <2>2, <2>3, <2>4 DEF Follows
<1>4. r[n] = g[1 .. n]
  <2>1. n \in 0 .. n
    BY <1>1
  <2> QED BY <2>1
<1>5. DOMAIN r = 0 .. n /\ r = [i \in 0 .. n |-> r[i]]
  OBVIOUS
<1> HIDE DEF r
<1>6. 0 \in T
  BY <1>1, <1>2
<1>7. ASSUME NEW i \in 0 .. n - 1, i \in T PROVE i + 1 \in T
  <2> DEFINE x == i + 1
  <2>1. x \in 1 .. n /\ x - 1 = i /\ x \in 0 .. n
    BY <1>1
  <2> HIDE DEF x
  <2>2. r[i] \in St
    BY <1>7
  <2>3. r[x] = F[<<x, r[i]>>]
    BY <1>3, <2>1, <2>2
  <2>4. r[x] \in St
    BY <2>1, <2>2, <2>3 DEF Folds
  <2> QED BY <2>1, <2>4 DEF x
<1> HIDE DEF T
<1>8. \A i \in 0 .. n : i \in T
  BY <1>1, <1>6, <1>7, UpTo
<1>9. \A i \in 0 .. n : r[i] \in St
  BY <1>8 DEF T
<1>10. r \in [0 .. n -> St]
  BY <1>5, <1>9
<1>11. ASSUME NEW i \in 1 .. n PROVE r[i] = F[<<i, r[i - 1]>>]
  <2>1. i - 1 \in 0 .. n
    BY <1>1
  <2> QED BY <1>3, <1>9, <2>1
<1> QED BY <1>2, <1>4, <1>10, <1>11 DEF Runs

-----------------------------------------------------------------------------
(* The checksum: a number, whatever the bytes.                             *)

LEMMA FlipType == ASSUME NEW x \in Int, NEW w \in Int PROVE Flip(x, w) \in Int
BY DEF Flip

LEMMA CrcBitType == ASSUME NEW crc \in Int, NEW bit PROVE CrcBit(crc, bit) \in Int
<1>1. (2 * crc) % 2^16 \in Int
  OBVIOUS
<1>2. 2^5 \in Int /\ 2^12 \in Int
  OBVIOUS
<1> DEFINE s == (2 * crc) % 2^16
<1>3. s + 1 \in Int
  BY <1>1
<1> HIDE DEF s
<1>4. Flip(Flip(s + 1, 2^5), 2^12) \in Int
  BY <1>2, <1>3, FlipType
<1> QED BY <1>1, <1>4 DEF CrcBit, s

\* The weights of the bits of a byte.
Weights == [i \in 1 .. 8 |-> 2^(i - 1)]

MeetBit(b, x, w) == IF (b \div w) % 2 = 0 THEN x ELSE Flip(x, 2^8 * w)

Meeting(crc, b, h) ==
  h = [s \in SUBSET (DOMAIN Weights) |->
         IF s = {} THEN crc ELSE MeetBit(b, h[s \ {Max(s)}], Weights[Max(s)])]

\* The register with the byte in its upper half.
Met(crc, b) == (CHOOSE h : Meeting(crc, b, h))[DOMAIN Weights]

Shifting(in, h) ==
  h = [s \in SUBSET (DOMAIN Weights) |->
         IF s = {} THEN in ELSE CrcBit(h[s \ {Max(s)}], Weights[Max(s)])]

Shifted(in) == (CHOOSE h : Shifting(in, h))[DOMAIN Weights]

LEMMA CrcByteIs ==
  ASSUME NEW crc, NEW b PROVE CrcByte(crc, b) = Shifted(Met(crc, b))
BY DEF CrcByte, FoldLeft, MapThenFoldSet, Shifted, Shifting, Met, Meeting, MeetBit, Weights

LEMMA MeetBitType ==
  ASSUME NEW b, NEW x \in Int, NEW w \in Int PROVE MeetBit(b, x, w) \in Int
<1>1. 2^8 * w \in Int
  OBVIOUS
<1> QED BY <1>1, FlipType DEF MeetBit

LEMMA WeightsType == DOMAIN Weights = 1 .. 8 /\ \A i \in 1 .. 8 : Weights[i] \in Int
BY DEF Weights

LEMMA MetRun ==
  ASSUME NEW crc \in Int, NEW b
  PROVE  \E r \in [0 .. 8 -> Int] :
           /\ Met(crc, b) = r[8]
           /\ r[0] = crc
           /\ \A i \in 1 .. 8 : r[i] = MeetBit(b, r[i - 1], Weights[i])
<1> DEFINE F == [y \in (1 .. 8) \X Int |-> MeetBit(b, y[2], Weights[y[1]])]
           g == CHOOSE h : Meeting(crc, b, h)
<1>0. 8 \in Nat /\ DOMAIN Weights = 1 .. 8
  BY WeightsType
<1>1. Folds(8, Int, crc, F)
  <2>1. ASSUME NEW i \in 1 .. 8, NEW x \in Int PROVE MeetBit(b, x, Weights[i]) \in Int
    BY WeightsType, MeetBitType
  <2>2. crc \in Int
    OBVIOUS
  <2> QED BY <1>0, <2>1, <2>2 DEF Folds
<1>2. \A i \in 1 .. 8, x \in Int : F[<<i, x>>] = MeetBit(b, x, Weights[i])
  OBVIOUS
<1> HIDE DEF F
<1>3. Meeting(crc, b, g)
  <2>1. PICK h : Solves(8, Int, crc, F, h)
    BY <1>1, FoldExists
  <2>2. ASSUME NEW s \in SUBSET (1 .. 8)
        PROVE  h[s] = IF s = {} THEN crc
                      ELSE MeetBit(b, h[s \ {Max(s)}], Weights[Max(s)])
    <3>1. CASE s # {}
      <4>1. Max(s) \in 1 .. 8 /\ s \ {Max(s)} \in SUBSET (1 .. 8)
        BY <1>0, <3>1, MaxIs
      <4>2. h[s \ {Max(s)}] \in Int
        BY <2>1, <4>1 DEF Solves
      <4> QED BY <1>2, <2>1, <3>1, <4>1, <4>2 DEF Solves
    <3> QED BY <2>1, <3>1 DEF Solves
  <2>3. Meeting(crc, b, h)
    BY <1>0, <2>1, <2>2 DEF Meeting, Solves
  <2> QED BY <2>3
<1> HIDE DEF g
<1>4. Follows(8, Int, crc, F, g)
  <2>1. g[{}] = crc
    BY <1>3 DEF Meeting
  <2>2. ASSUME NEW s \in SUBSET (1 .. 8), s # {}, g[s \ {Max(s)}] \in Int
        PROVE  g[s] = F[<<Max(s), g[s \ {Max(s)}]>>]
    <3>1. Max(s) \in 1 .. 8
      BY <1>0, <2>2, MaxIs
    <3>2. g[s] = MeetBit(b, g[s \ {Max(s)}], Weights[Max(s)])
      BY <1>0, <1>3, <2>2 DEF Meeting
    <3> QED BY <1>2, <2>2, <3>1, <3>2
  <2> QED BY <2>1, <2>2 DEF Follows
<1>5. PICK r : Runs(8, Int, crc, F, g, r)
  BY <1>1, <1>4, FoldRun
<1>6. ASSUME NEW i \in 1 .. 8 PROVE r[i] = MeetBit(b, r[i - 1], Weights[i])
  <2>1. r[i - 1] \in Int
    <3>1. r \in [0 .. 8 -> Int] /\ i - 1 \in 0 .. 8
      BY <1>0, <1>5 DEF Runs
    <3> QED BY <3>1
  <2> QED BY <1>2, <1>5, <2>1 DEF Runs
<1>7. Met(crc, b) = r[8]
  BY <1>0, <1>5 DEF Met, Runs, g
<1> QED BY <1>5, <1>6, <1>7 DEF Runs

LEMMA ShiftRun ==
  ASSUME NEW in \in Int
  PROVE  \E r \in [0 .. 8 -> Int] :
           /\ Shifted(in) = r[8]
           /\ r[0] = in
           /\ \A i \in 1 .. 8 : r[i] = CrcBit(r[i - 1], Weights[i])
<1> DEFINE F == [y \in (1 .. 8) \X Int |-> CrcBit(y[2], Weights[y[1]])]
           g == CHOOSE h : Shifting(in, h)
<1>0. 8 \in Nat /\ DOMAIN Weights = 1 .. 8
  BY WeightsType
<1>1. Folds(8, Int, in, F)
  <2>1. ASSUME NEW i \in 1 .. 8, NEW x \in Int PROVE CrcBit(x, Weights[i]) \in Int
    BY CrcBitType
  <2>2. in \in Int
    OBVIOUS
  <2> QED BY <1>0, <2>1, <2>2 DEF Folds
<1>2. \A i \in 1 .. 8, x \in Int : F[<<i, x>>] = CrcBit(x, Weights[i])
  OBVIOUS
<1> HIDE DEF F
<1>3. Shifting(in, g)
  <2>1. PICK h : Solves(8, Int, in, F, h)
    BY <1>1, FoldExists
  <2>2. ASSUME NEW s \in SUBSET (1 .. 8)
        PROVE  h[s] = IF s = {} THEN in
                      ELSE CrcBit(h[s \ {Max(s)}], Weights[Max(s)])
    <3>1. CASE s # {}
      <4>1. Max(s) \in 1 .. 8 /\ s \ {Max(s)} \in SUBSET (1 .. 8)
        BY <1>0, <3>1, MaxIs
      <4>2. h[s \ {Max(s)}] \in Int
        BY <2>1, <4>1 DEF Solves
      <4> QED BY <1>2, <2>1, <3>1, <4>1, <4>2 DEF Solves
    <3> QED BY <2>1, <3>1 DEF Solves
  <2>3. Shifting(in, h)
    BY <1>0, <2>1, <2>2 DEF Shifting, Solves
  <2> QED BY <2>3
<1> HIDE DEF g
<1>4. Follows(8, Int, in, F, g)
  <2>1. g[{}] = in
    BY <1>3 DEF Shifting
  <2>2. ASSUME NEW s \in SUBSET (1 .. 8), s # {}, g[s \ {Max(s)}] \in Int
        PROVE  g[s] = F[<<Max(s), g[s \ {Max(s)}]>>]
    <3>1. Max(s) \in 1 .. 8
      BY <1>0, <2>2, MaxIs
    <3>2. g[s] = CrcBit(g[s \ {Max(s)}], Weights[Max(s)])
      BY <1>0, <1>3, <2>2 DEF Shifting
    <3> QED BY <1>2, <2>2, <3>1, <3>2
  <2> QED BY <2>1, <2>2 DEF Follows
<1>5. PICK r : Runs(8, Int, in, F, g, r)
  BY <1>1, <1>4, FoldRun
<1>6. ASSUME NEW i \in 1 .. 8 PROVE r[i] = CrcBit(r[i - 1], Weights[i])
  <2>1. r[i - 1] \in Int
    <3>1. r \in [0 .. 8 -> Int] /\ i - 1 \in 0 .. 8
      BY <1>0, <1>5 DEF Runs
    <3> QED BY <3>1
  <2> QED BY <1>2, <1>5, <2>1 DEF Runs
<1>7. Shifted(in) = r[8]
  BY <1>0, <1>5 DEF Shifted, Runs, g
<1> QED BY <1>5, <1>6, <1>7 DEF Runs

LEMMA CrcByteType == ASSUME NEW crc \in Int, NEW b PROVE CrcByte(crc, b) \in Int
<1>1. 8 \in 0 .. 8
  OBVIOUS
<1>2. Met(crc, b) \in Int
  BY <1>1, MetRun
<1> DEFINE in == Met(crc, b)
<1> HIDE DEF in
<1>3. Shifted(in) \in Int
  BY <1>1, <1>2, ShiftRun DEF in
<1> QED BY <1>3, CrcByteIs DEF in

Summing(base, data, h) ==
  h = [s \in SUBSET (DOMAIN data) |->
         IF s = {} THEN base ELSE CrcByte(h[s \ {Max(s)}], data[Max(s)])]

Summed(base, data) == (CHOOSE h : Summing(base, data, h))[DOMAIN data]

LEMMA Crc16Is == ASSUME NEW data PROVE htk_crc16(data) = Summed(65535, data)
BY DEF htk_crc16, FoldLeft, MapThenFoldSet, Summed, Summing

LEMMA SumRun ==
  ASSUME NEW base \in Int, NEW B, NEW data \in Seq(B)
  PROVE  \E r \in [0 .. Len(data) -> Int] :
           /\ Summed(base, data) = r[Len(data)]
           /\ r[0] = base
           /\ \A i \in 1 .. Len(data) : r[i] = CrcByte(r[i - 1], data[i])
<1> DEFINE F == [y \in (1 .. Len(data)) \X Int |-> CrcByte(y[2], data[y[1]])]
           g == CHOOSE h : Summing(base, data, h)
<1>0. Len(data) \in Nat /\ DOMAIN data = 1 .. Len(data)
  BY LenProperties
<1>1. Folds(Len(data), Int, base, F)
  <2>1. ASSUME NEW i \in 1 .. Len(data), NEW x \in Int PROVE CrcByte(x, data[i]) \in Int
    BY CrcByteType
  <2>2. base \in Int
    OBVIOUS
  <2> QED BY <1>0, <2>1, <2>2 DEF Folds
<1>2. \A i \in 1 .. Len(data), x \in Int : F[<<i, x>>] = CrcByte(x, data[i])
  OBVIOUS
<1> HIDE DEF F
<1>3. Summing(base, data, g)
  <2>1. PICK h : Solves(Len(data), Int, base, F, h)
    BY <1>1, FoldExists
  <2>2. ASSUME NEW s \in SUBSET (1 .. Len(data))
        PROVE  h[s] = IF s = {} THEN base
                      ELSE CrcByte(h[s \ {Max(s)}], data[Max(s)])
    <3>1. CASE s # {}
      <4>1. Max(s) \in 1 .. Len(data) /\ s \ {Max(s)} \in SUBSET (1 .. Len(data))
        BY <1>0, <3>1, MaxIs
      <4>2. h[s \ {Max(s)}] \in Int
        BY <2>1, <4>1 DEF Solves
      <4> QED BY <1>2, <2>1, <3>1, <4>1, <4>2 DEF Solves
    <3> QED BY <2>1, <3>1 DEF Solves
  <2>3. Summing(base, data, h)
    BY <1>0, <2>1, <2>2 DEF Summing, Solves
  <2> QED BY <2>3
<1> HIDE DEF g
<1>4. Follows(Len(data), Int, base, F, g)
  <2>1. g[{}] = base
    BY <1>3 DEF Summing
  <2>2. ASSUME NEW s \in SUBSET (1 .. Len(data)), s # {}, g[s \ {Max(s)}] \in Int
        PROVE  g[s] = F[<<Max(s), g[s \ {Max(s)}]>>]
    <3>1. Max(s) \in 1 .. Len(data)
      BY <1>0, <2>2, MaxIs
    <3>2. g[s] = CrcByte(g[s \ {Max(s)}], data[Max(s)])
      BY <1>0, <1>3, <2>2 DEF Summing
    <3> QED BY <1>2, <2>2, <3>1, <3>2
  <2> QED BY <2>1, <2>2 DEF Follows
<1>5. PICK r : Runs(Len(data), Int, base, F, g, r)
  BY <1>1, <1>4, FoldRun
<1>6. ASSUME NEW i \in 1 .. Len(data) PROVE r[i] = CrcByte(r[i - 1], data[i])
  <2>1. r[i - 1] \in Int
    <3>1. r \in [0 .. Len(data) -> Int] /\ i - 1 \in 0 .. Len(data)
      BY <1>0, <1>5 DEF Runs
    <3> QED BY <3>1
  <2> QED BY <1>2, <1>5, <2>1 DEF Runs
<1>7. Summed(base, data) = r[Len(data)]
  BY <1>0, <1>5 DEF Summed, Runs, g
<1> QED BY <1>5, <1>6, <1>7 DEF Runs

LEMMA Crc16Type == ASSUME NEW B, NEW data \in Seq(B) PROVE htk_crc16(data) \in Int
<1> DEFINE base == 65535
<1>1. base \in Int /\ htk_crc16(data) = Summed(base, data)
  BY Crc16Is
<1> HIDE DEF base
<1>2. Len(data) \in 0 .. Len(data)
  BY LenProperties
<1>3. Summed(base, data) \in Int
  BY <1>1, <1>2, SumRun
<1> QED BY <1>1, <1>3

-----------------------------------------------------------------------------
(* COBS, the encoder: out is what is written so far, with a zero at pos    *)
(* for the code of the block that is open; code counts its bytes.          *)

Begun ==
  {t \in [out : Seq(Int), pos : Nat, code : Nat] :
     /\ t.pos \in 1 .. Len(t.out)
     /\ t.code = Len(t.out) - t.pos + 1
     /\ t.code <= MAX_CODE
     /\ \A j \in 1 .. Len(t.out) : t.out[j] = 0 <=> j = t.pos}

EncStates == {t \in Begun : t.code < MAX_CODE}

EncStart == [out |-> <<0>>, pos |-> 1, code |-> 1]

EncStep(t, b) == IF b = 0 THEN CobsClose(t) ELSE CobsPut(t, b)

\* What is written when the open block gets its code.
Finished(t) == [t.out EXCEPT ![t.pos] = t.code]

Longer(t, b) == [t EXCEPT !.out = Append(@, b), !.code = @ + 1]

LEMMA CodeMax == MAX_CODE \in Nat /\ MAX_CODE >= 2
BY CodecAssumption

LEMMA BegunIs ==
  ASSUME NEW t \in Begun
  PROVE  /\ t.out \in Seq(Int) /\ Len(t.out) \in Nat
         /\ t.pos \in 1 .. Len(t.out) /\ t.pos \in Nat
         /\ t.code \in Nat /\ t.code >= 1 /\ t.code <= MAX_CODE
         /\ t.code = Len(t.out) - t.pos + 1
         /\ \A j \in 1 .. Len(t.out) : t.out[j] = 0 <=> j = t.pos
         /\ t = [out |-> t.out, pos |-> t.pos, code |-> t.code]
<1> DEFINE o == t.out
           l == Len(o)
           p == t.pos
           c == t.code
<1>1. /\ o \in Seq(Int) /\ p \in Nat /\ c \in Nat
      /\ t = [out |-> o, pos |-> p, code |-> c]
  BY DEF Begun
<1>2. /\ p \in 1 .. l /\ c = l - p + 1 /\ c <= MAX_CODE
      /\ \A j \in 1 .. l : o[j] = 0 <=> j = p
  BY DEF Begun
<1>3. l \in Nat
  BY <1>1, LenProperties
<1> HIDE DEF o, l, p, c
<1>4. c >= 1
  BY <1>1, <1>2, <1>3
<1>5. /\ o \in Seq(Int) /\ l \in Nat
      /\ p \in 1 .. l /\ p \in Nat
      /\ c \in Nat /\ c >= 1 /\ c <= MAX_CODE
      /\ c = l - p + 1
      /\ \A j \in 1 .. l : o[j] = 0 <=> j = p
      /\ t = [out |-> o, pos |-> p, code |-> c]
  BY <1>1, <1>2, <1>3, <1>4
<1> QED BY <1>5 DEF o, l, p, c

LEMMA FinishedIs ==
  ASSUME NEW t \in Begun
  PROVE  /\ Finished(t) \in Seq(Int) /\ Len(Finished(t)) = Len(t.out)
         /\ \A j \in 1 .. Len(t.out) :
              /\ Finished(t)[j] = IF j = t.pos THEN t.code ELSE t.out[j]
              /\ Finished(t)[j] # 0
<1> DEFINE o == t.out
           p == t.pos
           c == t.code
           f == [o EXCEPT ![p] = c]
<1>1. /\ o \in Seq(Int) /\ p \in 1 .. Len(o) /\ c \in Int /\ c >= 1
      /\ \A j \in 1 .. Len(o) : o[j] = 0 <=> j = p
  BY BegunIs
<1>2. Finished(t) = f
  BY DEF Finished
<1> HIDE DEF o, p, c
<1>3. /\ f \in Seq(Int) /\ Len(f) = Len(o)
      /\ \A j \in 1 .. Len(o) : f[j] = IF j = p THEN c ELSE o[j]
  BY <1>1, ExceptSeq
<1> HIDE DEF f
<1>4. c # 0
  BY <1>1
<1>5. \A j \in 1 .. Len(o) : f[j] # 0
  BY <1>1, <1>3, <1>4
<1> QED BY <1>2, <1>3, <1>5 DEF o, p, c

LEMMA CloseIs ==
  ASSUME NEW t \in Begun, NEW c, c = CobsClose(t)
  PROVE  /\ c \in EncStates /\ c.pos = Len(t.out) + 1 /\ c.code = 1
         /\ Len(c.out) = Len(t.out) + 1
         /\ \A j \in 1 .. Len(t.out) : c.out[j] = Finished(t)[j]
         /\ c.out = Append(Finished(t), 0)
<1> DEFINE f == Finished(t)
           l == Len(t.out)
           o == Append(f, 0)
<1>1. f \in Seq(Int) /\ Len(f) = l /\ \A j \in 1 .. l : f[j] # 0
  BY FinishedIs
<1>2. l \in Nat
  BY BegunIs
<1>3. c = [out |-> o, pos |-> l + 1, code |-> 1]
  BY DEF CobsClose, Finished
<1> HIDE DEF f, l
<1>4. /\ o \in Seq(Int) /\ Len(o) = l + 1 /\ o[l + 1] = 0
      /\ \A j \in 1 .. l : o[j] = f[j]
  BY <1>1, AppendProperties
<1> HIDE DEF o
<1>5. c.out = o /\ c.pos = l + 1 /\ c.code = 1
  BY <1>3
<1>6. \A j \in 1 .. l + 1 : o[j] = 0 <=> j = l + 1
  <2> SUFFICES ASSUME NEW j \in 1 .. l + 1 PROVE o[j] = 0 <=> j = l + 1
    OBVIOUS
  <2>1. CASE j = l + 1
    BY <1>4, <2>1
  <2>2. CASE j # l + 1
    <3>1. j \in 1 .. l
      BY <1>2, <2>2
    <3> QED BY <1>1, <1>4, <2>2, <3>1
  <2> QED BY <2>1, <2>2
<1>7. c \in [out : Seq(Int), pos : Nat, code : Nat]
  <2>1. l + 1 \in Nat
    BY <1>2
  <2> QED BY <1>3, <1>4, <2>1
<1>8. l + 1 \in 1 .. l + 1 /\ 1 = (l + 1) - (l + 1) + 1 /\ 1 <= MAX_CODE /\ 1 < MAX_CODE
  BY <1>2, CodeMax
<1>9. c \in EncStates
  BY <1>4, <1>5, <1>6, <1>7, <1>8 DEF EncStates, Begun
<1> QED BY <1>4, <1>5, <1>9 DEF f, l, o

LEMMA LongerIs ==
  ASSUME NEW t \in EncStates, NEW b \in Int, b # 0, NEW c, c = Longer(t, b)
  PROVE  /\ c \in Begun /\ c.pos = t.pos /\ c.code = t.code + 1
         /\ Len(c.out) = Len(t.out) + 1
         /\ \A j \in 1 .. Len(t.out) : c.out[j] = t.out[j]
         /\ c.out[Len(t.out) + 1] = b
<1> DEFINE q == t.out
           l == Len(q)
           p == t.pos
           k == t.code
           o == Append(q, b)
<1>1. /\ q \in Seq(Int) /\ l \in Nat /\ p \in 1 .. l /\ p \in Nat
      /\ k \in Nat /\ k = l - p + 1 /\ k < MAX_CODE
      /\ \A j \in 1 .. l : q[j] = 0 <=> j = p
      /\ t = [out |-> q, pos |-> p, code |-> k]
  BY BegunIs DEF EncStates
<1>2. c = [t EXCEPT !.out = o, !.code = k + 1]
  BY DEF Longer
<1> HIDE DEF q, l, p, k
<1>3. /\ o \in Seq(Int) /\ Len(o) = l + 1 /\ o[l + 1] = b
      /\ \A j \in 1 .. l : o[j] = q[j]
  BY <1>1, AppendProperties DEF l
<1> HIDE DEF o
<1>4. c = [out |-> o, pos |-> p, code |-> k + 1]
  BY <1>1, <1>2
<1>5. c.out = o /\ c.pos = p /\ c.code = k + 1
  BY <1>4
<1>6. \A j \in 1 .. l + 1 : o[j] = 0 <=> j = p
  <2> SUFFICES ASSUME NEW j \in 1 .. l + 1 PROVE o[j] = 0 <=> j = p
    OBVIOUS
  <2>1. CASE j = l + 1
    BY <1>1, <1>3, <2>1
  <2>2. CASE j # l + 1
    <3>1. j \in 1 .. l
      BY <1>1, <2>2
    <3> QED BY <1>1, <1>3, <3>1
  <2> QED BY <2>1, <2>2
<1>7. p \in 1 .. l + 1 /\ k + 1 = (l + 1) - p + 1 /\ k + 1 <= MAX_CODE /\ k + 1 \in Nat
  BY <1>1, CodeMax
<1>8. c \in [out : Seq(Int), pos : Nat, code : Nat]
  BY <1>1, <1>3, <1>4, <1>7
<1>9. c \in Begun
  BY <1>3, <1>5, <1>6, <1>7, <1>8 DEF Begun
<1> QED BY <1>3, <1>5, <1>9 DEF q, l, p, k

LEMMA EncStartIs ==
  /\ EncStart \in EncStates /\ EncStart.pos = 1 /\ EncStart.code = 1
  /\ Len(EncStart.out) = 1
<1> DEFINE o == <<0>>
           c == EncStart
<1>1. o \in Seq(Int) /\ Len(o) = 1 /\ o[1] = 0
  OBVIOUS
<1>2. c = [out |-> o, pos |-> 1, code |-> 1]
  BY DEF EncStart
<1> HIDE DEF o, c
<1>3. c.out = o /\ c.pos = 1 /\ c.code = 1
  BY <1>2
<1>4. \A j \in 1 .. 1 : o[j] = 0 <=> j = 1
  BY <1>1
<1>5. c \in [out : Seq(Int), pos : Nat, code : Nat]
  BY <1>1, <1>2
<1>6. 1 \in 1 .. 1 /\ 1 = 1 - 1 + 1 /\ 1 <= MAX_CODE /\ 1 < MAX_CODE
  BY CodeMax
<1>7. c \in EncStates
  BY <1>1, <1>3, <1>4, <1>5, <1>6 DEF EncStates, Begun
<1> QED BY <1>1, <1>3, <1>7 DEF c

LEMMA PutIs ==
  ASSUME NEW t \in EncStates, NEW b \in Int
  PROVE  CobsPut(t, b) = IF t.code + 1 = MAX_CODE THEN CobsClose(Longer(t, b))
                         ELSE Longer(t, b)
<1> DEFINE u == Longer(t, b)
<1>1. CobsPut(t, b) = IF u.code = MAX_CODE THEN CobsClose(u) ELSE u
  BY DEF CobsPut, Longer
<1>2. u.code = t.code + 1
  <2>1. t = [out |-> t.out, pos |-> t.pos, code |-> t.code]
    BY BegunIs DEF EncStates
  <2> QED BY <2>1 DEF Longer
<1> HIDE DEF u
<1>3. CobsPut(t, b) = IF t.code + 1 = MAX_CODE THEN CobsClose(u) ELSE u
  BY <1>1, <1>2
<1> QED BY <1>3 DEF u

LEMMA EncStepType ==
  ASSUME NEW t \in EncStates, NEW b \in Int PROVE EncStep(t, b) \in EncStates
<1>1. t \in Begun /\ t.code \in Nat /\ t.code < MAX_CODE
  BY BegunIs DEF EncStates
<1>2. CASE b = 0
  BY <1>1, <1>2, CloseIs DEF EncStep
<1>3. CASE b # 0
  <2> DEFINE u == Longer(t, b)
  <2>1. u \in Begun /\ u.code = t.code + 1
    BY <1>3, LongerIs
  <2>2. EncStep(t, b) = IF t.code + 1 = MAX_CODE THEN CobsClose(u) ELSE u
    BY <1>3, PutIs DEF EncStep
  <2> HIDE DEF u
  <2>3. CASE t.code + 1 = MAX_CODE
    BY <2>1, <2>2, <2>3, CloseIs
  <2>4. CASE t.code + 1 # MAX_CODE
    <3>1. u.code < MAX_CODE
      BY <1>1, <2>1, <2>4, CodeMax
    <3> QED BY <2>1, <2>2, <2>4, <3>1 DEF EncStates
  <2> QED BY <2>3, <2>4
<1> QED BY <1>2, <1>3

Encoding(in, h) ==
  h = [s \in SUBSET (DOMAIN in) |->
         IF s = {} THEN EncStart ELSE EncStep(h[s \ {Max(s)}], in[Max(s)])]

\* What the encoder has when all bytes are in.
Encoded(in) == (CHOOSE h : Encoding(in, h))[DOMAIN in]

LEMMA CobsEncodeIs ==
  ASSUME NEW in, NEW cap
  PROVE  htk_cobs_encode(in, cap) = Capped(Finished(Encoded(in)), cap)
BY DEF htk_cobs_encode, FoldLeft, MapThenFoldSet, Encoded, Encoding, EncStart, EncStep,
       Finished

LEMMA EncRun ==
  ASSUME NEW in \in Seq(Int)
  PROVE  \E r \in [0 .. Len(in) -> EncStates] :
           /\ Encoded(in) = r[Len(in)]
           /\ r[0] = EncStart
           /\ \A i \in 1 .. Len(in) : r[i] = EncStep(r[i - 1], in[i])
<1> DEFINE F == [y \in (1 .. Len(in)) \X EncStates |-> EncStep(y[2], in[y[1]])]
           g == CHOOSE h : Encoding(in, h)
<1>0. Len(in) \in Nat /\ DOMAIN in = 1 .. Len(in)
  BY LenProperties
<1>1. Folds(Len(in), EncStates, EncStart, F)
  <2>1. ASSUME NEW i \in 1 .. Len(in), NEW x \in EncStates PROVE EncStep(x, in[i]) \in EncStates
    BY ElementOfSeq, EncStepType
  <2>2. EncStart \in EncStates
    BY EncStartIs
  <2> QED BY <1>0, <2>1, <2>2 DEF Folds
<1>2. \A i \in 1 .. Len(in), x \in EncStates : F[<<i, x>>] = EncStep(x, in[i])
  OBVIOUS
<1> HIDE DEF F
<1>3. Encoding(in, g)
  <2>1. PICK h : Solves(Len(in), EncStates, EncStart, F, h)
    BY <1>1, FoldExists
  <2>2. ASSUME NEW s \in SUBSET (1 .. Len(in))
        PROVE  h[s] = IF s = {} THEN EncStart
                      ELSE EncStep(h[s \ {Max(s)}], in[Max(s)])
    <3>1. CASE s # {}
      <4>1. Max(s) \in 1 .. Len(in) /\ s \ {Max(s)} \in SUBSET (1 .. Len(in))
        BY <1>0, <3>1, MaxIs
      <4>2. h[s \ {Max(s)}] \in EncStates
        BY <2>1, <4>1 DEF Solves
      <4> QED BY <1>2, <2>1, <3>1, <4>1, <4>2 DEF Solves
    <3> QED BY <2>1, <3>1 DEF Solves
  <2>3. Encoding(in, h)
    BY <1>0, <2>1, <2>2 DEF Encoding, Solves
  <2> QED BY <2>3
<1> HIDE DEF g
<1>4. Follows(Len(in), EncStates, EncStart, F, g)
  <2>1. g[{}] = EncStart
    BY <1>3 DEF Encoding
  <2>2. ASSUME NEW s \in SUBSET (1 .. Len(in)), s # {}, g[s \ {Max(s)}] \in EncStates
        PROVE  g[s] = F[<<Max(s), g[s \ {Max(s)}]>>]
    <3>1. Max(s) \in 1 .. Len(in)
      BY <1>0, <2>2, MaxIs
    <3>2. g[s] = EncStep(g[s \ {Max(s)}], in[Max(s)])
      BY <1>0, <1>3, <2>2 DEF Encoding
    <3> QED BY <1>2, <2>2, <3>1, <3>2
  <2> QED BY <2>1, <2>2 DEF Follows
<1>5. PICK r : Runs(Len(in), EncStates, EncStart, F, g, r)
  BY <1>1, <1>4, FoldRun
<1>6. ASSUME NEW i \in 1 .. Len(in) PROVE r[i] = EncStep(r[i - 1], in[i])
  <2>1. r[i - 1] \in EncStates
    <3>1. r \in [0 .. Len(in) -> EncStates] /\ i - 1 \in 0 .. Len(in)
      BY <1>0, <1>5 DEF Runs
    <3> QED BY <3>1
  <2> QED BY <1>2, <1>5, <2>1 DEF Runs
<1>7. Encoded(in) = r[Len(in)]
  BY <1>0, <1>5 DEF Encoded, Runs, g
<1> QED BY <1>5, <1>6, <1>7 DEF Runs

-----------------------------------------------------------------------------
(* COBS, the decoder.                                                      *)

DecStates == [out : Seq(Int), left : Int, zero : BOOLEAN, bad : BOOLEAN]

DecStart == [out |-> <<>>, left |-> 0, zero |-> FALSE, bad |-> FALSE]

LEMMA DecStartIs == DecStart \in DecStates
BY EmptySeq DEF DecStart, DecStates

LEMMA TakeType ==
  ASSUME NEW s \in DecStates, NEW b \in Int PROVE CobsTake(s, b) \in DecStates
<1> DEFINE q == s.out
           l == s.left
<1>1. /\ q \in Seq(Int) /\ l \in Int /\ s.zero \in BOOLEAN /\ s.bad \in BOOLEAN
      /\ s = [out |-> q, left |-> l, zero |-> s.zero, bad |-> s.bad]
  BY DEF DecStates
<1> HIDE DEF q, l
<1>2. Append(q, b) \in Seq(Int) /\ Append(q, 0) \in Seq(Int) /\ l - 1 \in Int /\ b - 1 \in Int
  BY <1>1, AppendProperties
<1>3. CASE l > 0
  <2> DEFINE o == Append(q, b)
             m == l - 1
  <2>1. CobsTake(s, b) = [s EXCEPT !.out = o, !.left = m]
    BY <1>3 DEF CobsTake, q, l
  <2>2. o \in Seq(Int) /\ m \in Int
    BY <1>2
  <2> HIDE DEF o, m
  <2>3. [s EXCEPT !.out = o, !.left = m] = [out |-> o, left |-> m, zero |-> s.zero, bad |-> s.bad]
    <3> DEFINE x == s.zero
               y == s.bad
    <3>1. s = [out |-> q, left |-> l, zero |-> x, bad |-> y]
      BY <1>1
    <3> DEFINE c == [s EXCEPT !.out = o, !.left = m]
    <3>2. c = [s EXCEPT !.out = o, !.left = m]
      OBVIOUS
    <3> HIDE DEF x, y, c
    <3>3. c = [out |-> o, left |-> m, zero |-> x, bad |-> y]
      BY <3>1, <3>2
    <3> QED BY <3>3 DEF x, y, c
  <2>4. [out |-> o, left |-> m, zero |-> s.zero, bad |-> s.bad] \in DecStates
    BY <1>1, <2>2 DEF DecStates
  <2> QED BY <2>1, <2>3, <2>4
<1>4. CASE ~(l > 0)
  <2> DEFINE o == IF s.zero THEN Append(q, 0) ELSE q
             m == IF b = 0 THEN 0 ELSE b - 1
             z == EndsInZero(b)
             w == s.bad \/ b = 0
  <2>1. CobsTake(s, b) = [out |-> o, left |-> m, zero |-> z, bad |-> w]
    BY <1>4 DEF CobsTake, q, l
  <2>2. o \in Seq(Int) /\ m \in Int /\ z \in BOOLEAN /\ w \in BOOLEAN
    BY <1>1, <1>2 DEF EndsInZero
  <2> HIDE DEF o, m, z, w
  <2> QED BY <2>1, <2>2 DEF DecStates
<1> QED BY <1>3, <1>4

Decoding(e, h) ==
  h = [s \in SUBSET (DOMAIN e) |->
         IF s = {} THEN DecStart ELSE CobsTake(h[s \ {Max(s)}], e[Max(s)])]

Decoded(e) == (CHOOSE h : Decoding(e, h))[DOMAIN e]

LEMMA CobsDecodeIs ==
  ASSUME NEW e, NEW cap
  PROVE  htk_cobs_decode(e, cap) =
           IF Decoded(e).bad \/ Decoded(e).left > 0 THEN <<>>
           ELSE Capped(Decoded(e).out, cap)
BY DEF htk_cobs_decode, FoldLeft, MapThenFoldSet, Decoded, Decoding, DecStart

LEMMA DecRun ==
  ASSUME NEW e \in Seq(Int)
  PROVE  \E r \in [0 .. Len(e) -> DecStates] :
           /\ Decoded(e) = r[Len(e)]
           /\ r[0] = DecStart
           /\ \A i \in 1 .. Len(e) : r[i] = CobsTake(r[i - 1], e[i])
<1> DEFINE F == [y \in (1 .. Len(e)) \X DecStates |-> CobsTake(y[2], e[y[1]])]
           g == CHOOSE h : Decoding(e, h)
<1>0. Len(e) \in Nat /\ DOMAIN e = 1 .. Len(e)
  BY LenProperties
<1>1. Folds(Len(e), DecStates, DecStart, F)
  <2>1. ASSUME NEW i \in 1 .. Len(e), NEW x \in DecStates PROVE CobsTake(x, e[i]) \in DecStates
    BY ElementOfSeq, TakeType
  <2>2. DecStart \in DecStates
    BY DecStartIs
  <2> QED BY <1>0, <2>1, <2>2 DEF Folds
<1>2. \A i \in 1 .. Len(e), x \in DecStates : F[<<i, x>>] = CobsTake(x, e[i])
  OBVIOUS
<1> HIDE DEF F
<1>3. Decoding(e, g)
  <2>1. PICK h : Solves(Len(e), DecStates, DecStart, F, h)
    BY <1>1, FoldExists
  <2>2. ASSUME NEW s \in SUBSET (1 .. Len(e))
        PROVE  h[s] = IF s = {} THEN DecStart
                      ELSE CobsTake(h[s \ {Max(s)}], e[Max(s)])
    <3>1. CASE s # {}
      <4>1. Max(s) \in 1 .. Len(e) /\ s \ {Max(s)} \in SUBSET (1 .. Len(e))
        BY <1>0, <3>1, MaxIs
      <4>2. h[s \ {Max(s)}] \in DecStates
        BY <2>1, <4>1 DEF Solves
      <4> QED BY <1>2, <2>1, <3>1, <4>1, <4>2 DEF Solves
    <3> QED BY <2>1, <3>1 DEF Solves
  <2>3. Decoding(e, h)
    BY <1>0, <2>1, <2>2 DEF Decoding, Solves
  <2> QED BY <2>3
<1> HIDE DEF g
<1>4. Follows(Len(e), DecStates, DecStart, F, g)
  <2>1. g[{}] = DecStart
    BY <1>3 DEF Decoding
  <2>2. ASSUME NEW s \in SUBSET (1 .. Len(e)), s # {}, g[s \ {Max(s)}] \in DecStates
        PROVE  g[s] = F[<<Max(s), g[s \ {Max(s)}]>>]
    <3>1. Max(s) \in 1 .. Len(e)
      BY <1>0, <2>2, MaxIs
    <3>2. g[s] = CobsTake(g[s \ {Max(s)}], e[Max(s)])
      BY <1>0, <1>3, <2>2 DEF Decoding
    <3> QED BY <1>2, <2>2, <3>1, <3>2
  <2> QED BY <2>1, <2>2 DEF Follows
<1>5. PICK r : Runs(Len(e), DecStates, DecStart, F, g, r)
  BY <1>1, <1>4, FoldRun
<1>6. ASSUME NEW i \in 1 .. Len(e) PROVE r[i] = CobsTake(r[i - 1], e[i])
  <2>1. r[i - 1] \in DecStates
    <3>1. r \in [0 .. Len(e) -> DecStates] /\ i - 1 \in 0 .. Len(e)
      BY <1>0, <1>5 DEF Runs
    <3> QED BY <3>1
  <2> QED BY <1>2, <1>5, <2>1 DEF Runs
<1>7. Decoded(e) = r[Len(e)]
  BY <1>0, <1>5 DEF Decoded, Runs, g
<1> QED BY <1>5, <1>6, <1>7 DEF Runs

\* The first k bytes of in have come out, and l more of this block are to come.
Restored(in, k, l, z) ==
  [out |-> SubSeq(in, 1, k), left |-> l, zero |-> z, bad |-> FALSE]

LEMMA FirstsGrow ==
  ASSUME NEW in \in Seq(Int), NEW k \in 0 .. Len(in) - 1
  PROVE  Append(SubSeq(in, 1, k), in[k + 1]) = SubSeq(in, 1, k + 1)
<1> DEFINE a == SubSeq(in, 1, k)
           n == Len(in)
           m == k + 1
<1>1. n \in Nat /\ \A i \in 1 .. n : in[i] \in Int
  BY LenProperties
<1> HIDE DEF n
<1>2. k \in 0 .. n - 1
  BY DEF n
<1>3. /\ k \in Int /\ m - 1 = k /\ 1 \in 1 .. n /\ m \in 1 .. n
      /\ \A i \in 1 .. k : i \in 1 .. n
  BY <1>1, <1>2
<1> HIDE DEF m
<1>4. a \in Seq(Int)
  <2>1. \A i \in 1 .. k : in[i] \in Int
    BY <1>1, <1>3
  <2>2. 1 \in Int
    OBVIOUS
  <2> QED BY <1>3, <2>1, <2>2, SubSeqProperties
<1>5. SubSeq(in, 1, m) = SubSeq(in, 1, m - 1) \o <<in[m]>>
  BY <1>3, SubSeqRecursiveSecond DEF n
<1> HIDE DEF a
<1>6. Append(a, in[m]) = a \o <<in[m]>>
  BY <1>1, <1>3, <1>4, AppendIsConcat
<1>7. a = SubSeq(in, 1, m - 1)
  BY <1>3 DEF a
<1>8. Append(a, in[m]) = SubSeq(in, 1, m)
  BY <1>5, <1>6, <1>7
<1> QED BY <1>8 DEF a, m

(* A code brings the zero that was due.                                    *)
LEMMA CodeTaken ==
  ASSUME NEW in \in Seq(Int), NEW k \in 0 .. Len(in), NEW z \in BOOLEAN, NEW m,
         m = IF z THEN k + 1 ELSE k,
         z => k \in 0 .. Len(in) - 1 /\ in[k + 1] = 0,
         NEW c \in Nat, c >= 1
  PROVE  CobsTake(Restored(in, k, 0, z), c) = Restored(in, m, c - 1, c < MAX_CODE)
<1> DEFINE s == Restored(in, k, 0, z)
           o == SubSeq(in, 1, k)
<1>1. s.out = o /\ s.left = 0 /\ s.zero = z /\ s.bad = FALSE
  BY DEF Restored
<1>2. (IF z THEN Append(o, 0) ELSE o) = SubSeq(in, 1, m)
  <2>1. CASE z
    <3>1. Append(o, in[k + 1]) = SubSeq(in, 1, k + 1)
      BY <2>1, FirstsGrow
    <3> QED BY <2>1, <3>1
  <2>2. CASE ~z
    BY <2>2
  <2> QED BY <2>1, <2>2
<1> HIDE DEF s, o
<1>3. c # 0
  OBVIOUS
<1>4. CobsTake(s, c) = [out |-> SubSeq(in, 1, m), left |-> c - 1, zero |-> EndsInZero(c),
                        bad |-> FALSE]
  <2>1. ~(s.left > 0) /\ ~s.bad /\ (IF s.zero THEN Append(s.out, 0) ELSE s.out) = SubSeq(in, 1, m)
    BY <1>1, <1>2
  <2> DEFINE q == SubSeq(in, 1, m)
             x == c - 1
  <2>2. (IF c = 0 THEN 0 ELSE c - 1) = x
    BY <1>3
  <2> HIDE DEF q, x
  <2>3. (s.bad \/ c = 0) = FALSE
    BY <1>3, <2>1
  <2>4. CobsTake(s, c) = [out |-> IF s.zero THEN Append(s.out, 0) ELSE s.out,
                          left |-> IF c = 0 THEN 0 ELSE c - 1,
                          zero |-> EndsInZero(c), bad |-> s.bad \/ c = 0]
    BY <2>1, Zenon DEF CobsTake
  <2>5. CobsTake(s, c) = [out |-> q, left |-> x, zero |-> EndsInZero(c), bad |-> FALSE]
    BY <2>1, <2>2, <2>3, <2>4, Zenon DEF q
  <2> QED BY <2>5 DEF q, x
<1> QED BY <1>4 DEF EndsInZero, Restored, s

LEMMA ByteTaken ==
  ASSUME NEW in \in Seq(Int), NEW k \in 0 .. Len(in) - 1, NEW z, NEW l \in Nat, l >= 1
  PROVE  CobsTake(Restored(in, k, l, z), in[k + 1]) = Restored(in, k + 1, l - 1, z)
<1> DEFINE s == Restored(in, k, l, z)
           b == in[k + 1]
           o == SubSeq(in, 1, k)
           p == SubSeq(in, 1, k + 1)
           m == l - 1
<1>1. s = [out |-> o, left |-> l, zero |-> z, bad |-> FALSE]
  BY DEF Restored
<1>2. Append(o, b) = p
  BY FirstsGrow
<1>3. Restored(in, k + 1, l - 1, z) = [out |-> p, left |-> m, zero |-> z, bad |-> FALSE]
  BY DEF Restored
<1> HIDE DEF s, o, p, b
<1>4. s.left > 0 /\ s.out = o /\ s.left = l
  BY <1>1
<1>5. CobsTake(s, b) = [s EXCEPT !.out = p, !.left = m]
  BY <1>2, <1>4 DEF CobsTake
<1> HIDE DEF m
<1>6. [s EXCEPT !.out = p, !.left = m] = [out |-> p, left |-> m, zero |-> z, bad |-> FALSE]
  <2> DEFINE w == FALSE
  <2>1. s = [out |-> o, left |-> l, zero |-> z, bad |-> w]
    BY <1>1
  <2> DEFINE c == [s EXCEPT !.out = p, !.left = m]
  <2>2. c = [s EXCEPT !.out = p, !.left = m]
    OBVIOUS
  <2> HIDE DEF w, c
  <2>3. c = [out |-> p, left |-> m, zero |-> z, bad |-> w]
    BY <2>1, <2>2
  <2> QED BY <2>3 DEF w, c
<1> QED BY <1>3, <1>5, <1>6 DEF s, b

\* d is the run of the decoder over e.
Decodes(e, d) ==
  d[0] = DecStart /\ \A i \in 1 .. Len(e) : d[i] = CobsTake(d[i - 1], e[i])

\* The decoder is at a code, and the block brings the bytes behind the m-th.
AtCode(in, w, i, m) ==
  \E k \in 0 .. i, z \in BOOLEAN :
    /\ m = IF z THEN k + 1 ELSE k
    /\ z => k \in 0 .. i - 1 /\ in[k + 1] = 0
    /\ w = Restored(in, k, 0, z)

\* A block of code c is at p, and holds the bytes of in behind the m-th.
BlockAt(in, e, d, i, p, m, c) ==
  /\ in \in Seq(Int) /\ e \in Seq(Int) /\ Decodes(e, d)
  /\ i \in 0 .. Len(in) /\ p \in Nat /\ p >= 1
  /\ AtCode(in, d[p - 1], i, m)
  /\ c \in Nat /\ c >= 1 /\ m + c - 1 <= Len(in) /\ p + c - 1 <= Len(e)
  /\ e[p] = c /\ \A j \in 1 .. c - 1 : e[p + j] = in[m + j]

LEMMA BlockTaken ==
  ASSUME NEW in, NEW e, NEW d, NEW i, NEW p, NEW m, NEW c, BlockAt(in, e, d, i, p, m, c)
  PROVE  d[p + c - 1] = Restored(in, m + c - 1, 0, c < MAX_CODE)
<1> DEFINE n == Len(in)
           l == Len(e)
           y == c < MAX_CODE
           T == {j \in 0 .. c - 1 : d[p + j] = Restored(in, m + j, c - 1 - j, y)}
<1>1. /\ in \in Seq(Int) /\ e \in Seq(Int) /\ Decodes(e, d)
      /\ i \in 0 .. n /\ p \in Nat /\ p >= 1
      /\ c \in Nat /\ c >= 1 /\ m + c - 1 <= n /\ p + c - 1 <= l
      /\ e[p] = c /\ \A j \in 1 .. c - 1 : e[p + j] = in[m + j]
  BY DEF BlockAt
<1>2. PICK k \in 0 .. i, z \in BOOLEAN :
        /\ m = IF z THEN k + 1 ELSE k
        /\ z => k \in 0 .. i - 1 /\ in[k + 1] = 0
        /\ d[p - 1] = Restored(in, k, 0, z)
  BY DEF BlockAt, AtCode
<1>3. n \in Nat /\ l \in Nat
  BY <1>1, LenProperties
<1> HIDE DEF n, l
<1>4. m \in Nat /\ m + c - 1 <= n /\ p + c - 1 <= l
  BY <1>1, <1>3, <1>2
<1>5. k \in 0 .. n /\ (z => k \in 0 .. n - 1)
  <2>1. k \in 0 .. n /\ (k \in 0 .. i - 1 => k \in 0 .. n - 1)
    BY <1>1, <1>3
  <2> QED BY <1>2, <2>1
<1>6. 0 \in T
  <2>1. p \in 1 .. l
    BY <1>1, <1>3, <1>4
  <2>2. d[p] = CobsTake(d[p - 1], e[p])
    BY <1>1, <2>1 DEF Decodes, l
  <2>3. d[p] = Restored(in, m, c - 1, y)
    <3>1. CobsTake(Restored(in, k, 0, z), c) = Restored(in, m, c - 1, c < MAX_CODE)
      BY <1>1, <1>2, <1>5, CodeTaken DEF n
    <3> QED BY <1>1, <1>2, <2>2, <3>1
  <2>4. p + 0 = p /\ m + 0 = m /\ c - 1 - 0 = c - 1 /\ 0 \in 0 .. c - 1
    BY <1>1, <1>4
  <2> QED BY <2>3, <2>4
<1>7. ASSUME NEW j \in 0 .. (c - 1) - 1, j \in T PROVE j + 1 \in T
  <2> DEFINE x == p + j
             u == m + j
             a == c - 1 - j
             w == j + 1
  <2>1. d[x] = Restored(in, u, a, y)
    BY <1>7
  <2>2. /\ x + 1 \in 1 .. l /\ (x + 1) - 1 = x
        /\ u \in 0 .. n - 1 /\ a \in Nat /\ a >= 1
        /\ w \in 1 .. c - 1 /\ p + w = x + 1 /\ m + w = u + 1 /\ c - 1 - w = a - 1
        /\ w \in 0 .. c - 1
    BY <1>1, <1>3, <1>4
  <2> HIDE DEF x, u, a, w
  <2>3. e[x + 1] = in[u + 1]
    <3>1. e[p + w] = in[m + w]
      BY <1>1, <2>2
    <3> QED BY <2>2, <3>1
  <2>4. d[x + 1] = CobsTake(d[x], e[x + 1])
    <3>1. d[x + 1] = CobsTake(d[(x + 1) - 1], e[x + 1])
      BY <1>1, <2>2 DEF Decodes, l
    <3> QED BY <2>2, <3>1
  <2> HIDE DEF y
  <2>5. CobsTake(Restored(in, u, a, y), in[u + 1]) = Restored(in, u + 1, a - 1, y)
    BY <1>1, <2>2, ByteTaken DEF n
  <2>6. d[p + w] = Restored(in, m + w, c - 1 - w, y)
    BY <2>1, <2>2, <2>3, <2>4, <2>5
  <2> QED BY <2>2, <2>6 DEF w
<1> HIDE DEF T
<1>8. \A j \in 0 .. c - 1 : j \in T
  <2>1. c - 1 \in Nat
    BY <1>1
  <2> QED BY <1>6, <1>7, <2>1, UpTo
<1>9. c - 1 \in T
  <2>1. c - 1 \in 0 .. c - 1
    BY <1>1
  <2> QED BY <1>8, <2>1
<1> DEFINE j == c - 1
<1>10. d[p + j] = Restored(in, m + j, c - 1 - j, y)
  BY <1>9 DEF T
<1>11. p + j = p + c - 1 /\ m + j = m + c - 1 /\ c - 1 - j = 0
  BY <1>1, <1>4
<1> QED BY <1>10, <1>11

-----------------------------------------------------------------------------
(* What the encoder does with a byte.                                      *)

EncodesAs(in, r) ==
  /\ r \in [0 .. Len(in) -> EncStates]
  /\ r[0] = EncStart
  /\ \A i \in 1 .. Len(in) : r[i] = EncStep(r[i - 1], in[i])

\* What t has written stays, but for the code of the block that is open.
Extends(t, c) ==
  /\ Len(t.out) <= Len(c.out)
  /\ c.pos = t.pos \/ c.pos > Len(t.out)
  /\ \A j \in 1 .. Len(t.out) : j # t.pos => c.out[j] = t.out[j]

\* The byte joins the block,
StepPuts(t, b, c) ==
  /\ b # 0 /\ c.pos = t.pos /\ Len(c.out) = Len(t.out) + 1
  /\ c.code = t.code + 1
  /\ \A j \in 1 .. Len(t.out) : c.out[j] = t.out[j]
  /\ c.out[Len(t.out) + 1] = b

\* is the zero that ends it,
StepCloses(t, b, c) ==
  /\ b = 0 /\ c.pos = Len(t.out) + 1 /\ Len(c.out) = Len(t.out) + 1
  /\ c.code = 1
  /\ \A j \in 1 .. Len(t.out) : c.out[j] = IF j = t.pos THEN t.code ELSE t.out[j]

\* or fills it.
StepFills(t, b, c) ==
  /\ b # 0 /\ t.code + 1 = MAX_CODE
  /\ c.pos = Len(t.out) + 2 /\ Len(c.out) = Len(t.out) + 2
  /\ c.code = 1
  /\ \A j \in 1 .. Len(t.out) : c.out[j] = IF j = t.pos THEN MAX_CODE ELSE t.out[j]
  /\ c.out[Len(t.out) + 1] = b

LEMMA EncFacts ==
  ASSUME NEW t \in EncStates
  PROVE  /\ t.out \in Seq(Int) /\ Len(t.out) \in Nat
         /\ t.pos \in 1 .. Len(t.out) /\ t.pos \in Nat /\ t.pos >= 1
         /\ t.code \in Nat /\ t.code >= 1 /\ t.code < MAX_CODE
         /\ t.code = Len(t.out) - t.pos + 1
         /\ \A j \in 1 .. Len(t.out) : t.out[j] = 0 <=> j = t.pos
<1>1. t \in Begun /\ t.code < MAX_CODE
  BY DEF EncStates
<1>2. t.pos \in 1 .. Len(t.out) /\ Len(t.out) \in Nat
  BY <1>1, BegunIs
<1>3. t.pos >= 1
  BY <1>2
<1> QED BY <1>1, <1>2, <1>3, BegunIs

LEMMA StepIs ==
  ASSUME NEW t \in EncStates, NEW b \in Int, NEW c, c = EncStep(t, b)
  PROVE  StepPuts(t, b, c) \/ StepCloses(t, b, c) \/ StepFills(t, b, c)
<1> DEFINE l == Len(t.out)
<1>1. t \in Begun /\ t.code \in Nat /\ t.pos \in 1 .. l /\ l \in Nat
  BY EncFacts DEF EncStates
<1>2. CASE b = 0
  <2>1. c = CobsClose(t)
    BY <1>2 DEF EncStep
  <2>2. /\ c.pos = l + 1 /\ c.code = 1 /\ Len(c.out) = l + 1
        /\ \A j \in 1 .. l : c.out[j] = Finished(t)[j]
    BY <1>1, <2>1, CloseIs
  <2>3. \A j \in 1 .. l : Finished(t)[j] = IF j = t.pos THEN t.code ELSE t.out[j]
    BY <1>1, FinishedIs
  <2> QED BY <1>2, <2>2, <2>3 DEF StepCloses
<1>3. CASE b # 0
  <2> DEFINE u == Longer(t, b)
  <2>1. /\ u \in Begun /\ u.pos = t.pos /\ u.code = t.code + 1
        /\ Len(u.out) = l + 1
        /\ \A j \in 1 .. l : u.out[j] = t.out[j]
        /\ u.out[l + 1] = b
    BY <1>3, LongerIs
  <2>2. c = IF t.code + 1 = MAX_CODE THEN CobsClose(u) ELSE u
    BY <1>3, PutIs DEF EncStep
  <2> HIDE DEF u
  <2>3. CASE t.code + 1 # MAX_CODE
    <3>1. c = u
      BY <2>2, <2>3
    <3> QED BY <1>3, <2>1, <3>1 DEF StepPuts
  <2>4. CASE t.code + 1 = MAX_CODE
    <3> DEFINE k == l + 1
    <3>1. c = CobsClose(u)
      BY <2>2, <2>4
    <3>2. /\ c.pos = Len(u.out) + 1 /\ c.code = 1 /\ Len(c.out) = Len(u.out) + 1
          /\ \A j \in 1 .. Len(u.out) : c.out[j] = Finished(u)[j]
      BY <2>1, <3>1, CloseIs
    <3>3. \A j \in 1 .. Len(u.out) : Finished(u)[j] = IF j = u.pos THEN u.code ELSE u.out[j]
      BY <2>1, FinishedIs
    <3>4. /\ Len(u.out) = k /\ u.pos = t.pos /\ u.code = MAX_CODE /\ u.out[k] = b
          /\ \A j \in 1 .. l : u.out[j] = t.out[j]
      BY <2>1, <2>4
    <3>5. /\ k + 1 = l + 2 /\ k \in 1 .. k /\ k # t.pos
          /\ \A j \in 1 .. l : j \in 1 .. k
      BY <1>1
    <3> HIDE DEF l, k
    <3>6. c.pos = l + 2 /\ Len(c.out) = l + 2 /\ c.code = 1
      BY <3>2, <3>4, <3>5
    <3>7. c.out[k] = b
      BY <3>2, <3>3, <3>4, <3>5
    <3>8. \A j \in 1 .. l : c.out[j] = IF j = t.pos THEN MAX_CODE ELSE t.out[j]
      BY <3>2, <3>3, <3>4, <3>5
    <3> QED BY <1>3, <2>4, <3>6, <3>7, <3>8 DEF StepFills, l, k
  <2> QED BY <2>3, <2>4
<1> QED BY <1>2, <1>3

LEMMA StepExtends ==
  ASSUME NEW t \in EncStates, NEW b \in Int
  PROVE  Extends(t, EncStep(t, b))
<1> DEFINE c == EncStep(t, b)
           l == Len(t.out)
<1>1. StepPuts(t, b, c) \/ StepCloses(t, b, c) \/ StepFills(t, b, c)
  BY StepIs
<1>2. l \in Nat /\ t.pos \in 1 .. l
  BY EncFacts
<1> SUFFICES Extends(t, c)
  OBVIOUS
<1> HIDE DEF c
<1>3. CASE StepPuts(t, b, c)
  <2>1. /\ Len(c.out) = l + 1 /\ c.pos = t.pos /\ \A j \in 1 .. l : c.out[j] = t.out[j]
    BY <1>3 DEF StepPuts
  <2>2. l <= l + 1
    BY <1>2
  <2> QED BY <2>1, <2>2 DEF Extends
<1>4. CASE StepCloses(t, b, c)
  <2>1. /\ Len(c.out) = l + 1 /\ c.pos = l + 1
        /\ \A j \in 1 .. l : c.out[j] = IF j = t.pos THEN t.code ELSE t.out[j]
    BY <1>4 DEF StepCloses
  <2>2. l <= l + 1 /\ l + 1 > l
    BY <1>2
  <2> QED BY <2>1, <2>2 DEF Extends
<1>5. CASE StepFills(t, b, c)
  <2>1. /\ Len(c.out) = l + 2 /\ c.pos = l + 2
        /\ \A j \in 1 .. l : c.out[j] = IF j = t.pos THEN MAX_CODE ELSE t.out[j]
    BY <1>5 DEF StepFills
  <2>2. l <= l + 2 /\ l + 2 > l
    BY <1>2
  <2> QED BY <2>1, <2>2 DEF Extends
<1> QED BY <1>1, <1>3, <1>4, <1>5

LEMMA ExtendsTransitive ==
  ASSUME NEW t \in EncStates, NEW c \in EncStates, NEW u \in EncStates,
         Extends(t, c), Extends(c, u)
  PROVE  Extends(t, u)
<1> DEFINE l == Len(t.out)
           m == Len(c.out)
           n == Len(u.out)
<1>1. /\ l \in Nat /\ m \in Nat /\ n \in Nat
      /\ t.pos \in Nat /\ c.pos \in Nat /\ u.pos \in Nat
  BY EncFacts
<1>2. /\ l <= m /\ (c.pos = t.pos \/ c.pos > l)
      /\ \A j \in 1 .. l : j # t.pos => c.out[j] = t.out[j]
  BY DEF Extends
<1>3. /\ m <= n /\ (u.pos = c.pos \/ u.pos > m)
      /\ \A j \in 1 .. m : j # c.pos => u.out[j] = c.out[j]
  BY DEF Extends
<1> HIDE DEF l, m, n
<1>4. l <= n /\ (u.pos = t.pos \/ u.pos > l)
  BY <1>1, <1>2, <1>3
<1>5. \A j \in 1 .. l : j \in 1 .. m /\ (j # t.pos => j # c.pos)
  BY <1>1, <1>2
<1>6. \A j \in 1 .. l : j # t.pos => u.out[j] = t.out[j]
  BY <1>2, <1>3, <1>5
<1> QED BY <1>4, <1>6 DEF Extends, l, n

LEMMA RunExtends ==
  ASSUME NEW in \in Seq(Int), NEW r, EncodesAs(in, r)
  PROVE  \A i \in 0 .. Len(in) : r[i] \in EncStates /\ Extends(r[i], r[Len(in)])
<1> DEFINE n == Len(in)
           T == {x \in 0 .. n : Extends(r[n - x], r[n])}
<1>1. n \in Nat /\ \A i \in 1 .. n : in[i] \in Int
  BY LenProperties
<1>2. /\ \A i \in 0 .. n : r[i] \in EncStates
      /\ \A i \in 1 .. n : r[i] = EncStep(r[i - 1], in[i])
  BY DEF EncodesAs
<1> HIDE DEF n
<1>3. 0 \in T
  <2>1. n \in 0 .. n /\ n - 0 = n /\ 0 \in 0 .. n
    BY <1>1
  <2>2. Len(r[n].out) \in Nat
    BY <1>2, <2>1, EncFacts
  <2>3. Extends(r[n], r[n])
    BY <2>2 DEF Extends
  <2> QED BY <2>1, <2>3
<1>4. ASSUME NEW x \in 0 .. n - 1, x \in T PROVE x + 1 \in T
  <2> DEFINE i == n - x
             y == x + 1
  <2>1. i \in 1 .. n /\ i - 1 \in 0 .. n /\ n - y = i - 1 /\ y \in 0 .. n
        /\ i \in 0 .. n /\ n \in 0 .. n
    BY <1>1
  <2>2. Extends(r[i], r[n])
    BY <1>4
  <2> HIDE DEF i, y
  <2>3. Extends(r[i - 1], r[i])
    <3>1. r[i - 1] \in EncStates /\ in[i] \in Int /\ r[i] = EncStep(r[i - 1], in[i])
      BY <1>1, <1>2, <2>1
    <3> QED BY <3>1, StepExtends
  <2>4. Extends(r[i - 1], r[n])
    <3>1. r[i - 1] \in EncStates /\ r[i] \in EncStates /\ r[n] \in EncStates
      BY <1>2, <2>1
    <3> QED BY <2>2, <2>3, <3>1, ExtendsTransitive
  <2> QED BY <2>1, <2>4 DEF y
<1> HIDE DEF T
<1>5. \A x \in 0 .. n : x \in T
  BY <1>1, <1>3, <1>4, UpTo
<1>6. ASSUME NEW i \in 0 .. n PROVE Extends(r[i], r[n])
  <2> DEFINE x == n - i
  <2>1. x \in 0 .. n /\ n - x = i
    BY <1>1
  <2> HIDE DEF x
  <2>2. Extends(r[n - x], r[n])
    BY <1>5, <2>1 DEF T
  <2> QED BY <2>1, <2>2
<1> QED BY <1>2, <1>6 DEF n

-----------------------------------------------------------------------------
(* The decoder gives back what the encoder took.                           *)

(* With i bytes in, t has the last of them in the block that is open, and  *)
(* what it has closed is decoded to those before them.                     *)
BlockOpen(in, d, t, i) ==
  LET m == i - t.code + 1
  IN /\ AtCode(in, d[t.pos - 1], i, m)
     /\ \A j \in 1 .. t.code - 1 : t.out[t.pos + j] = in[m + j]

\* Bytes of closed blocks are as they will be in the end.
LEMMA Settled ==
  ASSUME NEW t \in EncStates, NEW f \in EncStates, Extends(t, f)
  PROVE  /\ Finished(f) \in Seq(Int) /\ Len(t.out) <= Len(Finished(f))
         /\ \A j \in 1 .. Len(t.out) : j # t.pos => Finished(f)[j] = t.out[j]
<1> DEFINE l == Len(t.out)
           n == Len(f.out)
           e == Finished(f)
<1>1. l \in Nat /\ n \in Nat /\ t.pos \in Nat /\ f.pos \in Nat
  BY EncFacts
<1>2. /\ l <= n /\ (f.pos = t.pos \/ f.pos > l)
      /\ \A j \in 1 .. l : j # t.pos => f.out[j] = t.out[j]
  BY DEF Extends
<1>3. /\ e \in Seq(Int) /\ Len(e) = n
      /\ \A j \in 1 .. n : e[j] = IF j = f.pos THEN f.code ELSE f.out[j]
  BY FinishedIs DEF EncStates
<1> HIDE DEF l, n, e
<1>4. \A j \in 1 .. l : j \in 1 .. n /\ (j # t.pos => j # f.pos)
  BY <1>1, <1>2
<1>5. \A j \in 1 .. l : j # t.pos => e[j] = t.out[j]
  BY <1>2, <1>3, <1>4
<1> QED BY <1>2, <1>3, <1>5 DEF l, e

LEMMA StepOpen ==
  ASSUME NEW in \in Seq(Int), NEW d, NEW f \in EncStates, Decodes(Finished(f), d),
         NEW i \in 0 .. Len(in) - 1, NEW t \in EncStates, BlockOpen(in, d, t, i),
         EncStep(t, in[i + 1]) \in EncStates, Extends(EncStep(t, in[i + 1]), f)
  PROVE  BlockOpen(in, d, EncStep(t, in[i + 1]), i + 1)
<1> DEFINE n == Len(in)
           b == in[i + 1]
           c == EncStep(t, b)
           e == Finished(f)
           p == t.pos
           k == t.code
           l == Len(t.out)
           m == i - k + 1
           y == i + 1
<1>1. n \in Nat /\ \A x \in 1 .. n : in[x] \in Int
  BY LenProperties
<1> HIDE DEF n
<1>2. /\ i \in 0 .. n /\ y \in 1 .. n /\ y \in 0 .. n /\ i \in 0 .. y - 1
      /\ i \in 0 .. y /\ y \in 0 .. y /\ i \in Nat /\ b \in Int
  BY <1>1 DEF n
<1>3. /\ l \in Nat /\ p \in 1 .. l /\ p \in Nat /\ p >= 1 /\ k \in Nat /\ k >= 1
      /\ k = l - p + 1 /\ k < MAX_CODE /\ MAX_CODE \in Nat
  BY EncFacts, CodeMax
<1>4. StepPuts(t, b, c) \/ StepCloses(t, b, c) \/ StepFills(t, b, c)
  BY <1>2, StepIs
<1>5. /\ e \in Seq(Int) /\ Len(c.out) <= Len(e)
      /\ \A j \in 1 .. Len(c.out) : j # c.pos => e[j] = c.out[j]
  BY Settled
<1>6. /\ AtCode(in, d[p - 1], i, m)
      /\ \A j \in 1 .. k - 1 : t.out[p + j] = in[m + j]
  BY DEF BlockOpen
<1>7. Len(e) \in Nat
  BY <1>5, LenProperties
<1>8. m \in Int /\ m + k - 1 = i
  BY <1>2, <1>3
<1> SUFFICES BlockOpen(in, d, c, y)
  OBVIOUS
<1>9. b = in[y] /\ Decodes(e, d)
  OBVIOUS
<1>10. i \in 0 .. Len(in) /\ n = Len(in)
  BY <1>2 DEF n
<1> HIDE DEF b, c, e, p, k, l, m
<1>11. CASE StepPuts(t, b, c)
  <2>1. /\ c.pos = p /\ c.code = k + 1
        /\ \A j \in 1 .. l : c.out[j] = t.out[j]
        /\ c.out[l + 1] = b
    BY <1>11 DEF StepPuts, p, k, l
  <2>2. y - c.code + 1 = m
    BY <1>2, <1>3, <1>8, <2>1
  <2>3. AtCode(in, d[c.pos - 1], y, m)
    <3>1. i - 1 \in Int /\ \A x \in 0 .. i : x \in 0 .. y
      BY <1>2
    <3>2. \A x \in 0 .. i - 1 : x \in 0 .. y - 1
      BY <1>2
    <3> HIDE DEF y
    <3> QED BY <1>6, <2>1, <3>1, <3>2 DEF AtCode
  <2>4. ASSUME NEW j \in 1 .. c.code - 1 PROVE c.out[c.pos + j] = in[m + j]
    <3>1. j \in 1 .. k
      BY <1>3, <2>1
    <3>2. CASE j = k
      <4>1. p + j = l + 1 /\ m + j = y
        BY <1>3, <1>8, <3>2
      <4> QED BY <1>9, <2>1, <4>1
    <3>3. CASE j # k
      <4>1. j \in 1 .. k - 1 /\ p + j \in 1 .. l
        BY <1>3, <3>1, <3>3
      <4>2. t.out[p + j] = in[m + j]
        BY <1>6, <4>1
      <4> QED BY <2>1, <4>1, <4>2
    <3> QED BY <3>2, <3>3
  <2> HIDE DEF y
  <2> QED BY <2>2, <2>3, <2>4 DEF BlockOpen
<1>12. CASE StepCloses(t, b, c)
  <2>1. /\ b = 0 /\ c.pos = l + 1 /\ Len(c.out) = l + 1 /\ c.code = 1
        /\ \A j \in 1 .. l : c.out[j] = IF j = p THEN k ELSE t.out[j]
    BY <1>12 DEF StepCloses, p, k, l
  <2>2. \A j \in 1 .. l : e[j] = IF j = p THEN k ELSE t.out[j]
    <3>1. \A j \in 1 .. l : j \in 1 .. l + 1 /\ j # l + 1
      BY <1>3
    <3> QED BY <1>5, <2>1, <3>1
  <2>3. e[p] = k
    BY <1>3, <2>2
  <2>4. ASSUME NEW j \in 1 .. k - 1 PROVE e[p + j] = in[m + j]
    <3>1. p + j \in 1 .. l /\ p + j # p
      BY <1>3
    <3> QED BY <1>6, <2>2, <3>1
  <2>5. m + k - 1 <= Len(in) /\ p + k - 1 <= Len(e)
    BY <1>2, <1>3, <1>5, <1>7, <1>8, <1>10, <2>1
  <2>6. d[p + k - 1] = Restored(in, m + k - 1, 0, k < MAX_CODE)
    <3>1. BlockAt(in, e, d, i, p, m, k)
      BY <1>3, <1>5, <1>6, <1>9, <1>10, <2>3, <2>4, <2>5 DEF BlockAt
    <3> QED BY <3>1, BlockTaken
  <2>7. d[c.pos - 1] = Restored(in, i, 0, TRUE)
    <3> DEFINE q == c.pos
    <3>1. q = l + 1
      BY <2>1
    <3> HIDE DEF q
    <3>2. p + k - 1 = q - 1 /\ (k < MAX_CODE) = TRUE
      BY <1>3, <3>1
    <3> QED BY <1>8, <2>6, <3>2 DEF q
  <2>8. AtCode(in, d[c.pos - 1], y, y)
    <3>1. in[i + 1] = 0
      BY <1>9, <2>1
    <3> QED BY <1>2, <2>7, <3>1 DEF AtCode
  <2>9. y - c.code + 1 = y /\ \A j \in 1 .. c.code - 1 : FALSE
    BY <1>2, <2>1
  <2> HIDE DEF y
  <2> QED BY <2>8, <2>9 DEF BlockOpen
<1>13. CASE StepFills(t, b, c)
  <2> DEFINE g == k + 1
  <2>1. /\ g = MAX_CODE /\ c.pos = l + 2 /\ Len(c.out) = l + 2 /\ c.code = 1
        /\ \A j \in 1 .. l : c.out[j] = IF j = p THEN g ELSE t.out[j]
        /\ c.out[l + 1] = b
    BY <1>13 DEF StepFills, p, k, l
  <2>2. /\ \A j \in 1 .. l : e[j] = IF j = p THEN g ELSE t.out[j]
        /\ e[l + 1] = b
    <3>1. /\ \A j \in 1 .. l : j \in 1 .. l + 2 /\ j # l + 2
          /\ l + 1 \in 1 .. l + 2 /\ l + 1 # l + 2
      BY <1>3
    <3> QED BY <1>5, <2>1, <3>1
  <2>3. e[p] = g
    BY <1>3, <2>2
  <2>4. ASSUME NEW j \in 1 .. g - 1 PROVE e[p + j] = in[m + j]
    <3>1. j \in 1 .. k
      BY <1>3
    <3>2. CASE j = k
      <4>1. p + j = l + 1 /\ m + j = y
        BY <1>3, <1>8, <3>2
      <4> QED BY <1>9, <2>2, <4>1
    <3>3. CASE j # k
      <4>1. j \in 1 .. k - 1 /\ p + j \in 1 .. l /\ p + j # p
        BY <1>3, <3>1, <3>3
      <4> QED BY <1>6, <2>2, <4>1
    <3> QED BY <3>2, <3>3
  <2>5. m + g - 1 <= Len(in) /\ p + g - 1 <= Len(e) /\ g \in Nat /\ g >= 1
    <3> DEFINE q == Len(e)
    <3>1. q \in Nat /\ l + 2 <= q
      BY <1>5, <1>7, <2>1
    <3> HIDE DEF q
    <3>2. p + g - 1 <= q
      BY <1>3, <3>1
    <3>3. g \in Nat /\ g >= 1
      BY <1>3
    <3>4. m + g - 1 = y
      BY <1>3, <1>8
    <3>5. y <= n
      BY <1>1, <1>2
    <3> QED BY <1>10, <3>2, <3>3, <3>4, <3>5 DEF q
  <2>6. p + g - 1 = c.pos - 1 /\ m + g - 1 = y /\ (g < MAX_CODE) = FALSE
    <3> DEFINE q == c.pos
    <3>1. q = l + 2 /\ g = MAX_CODE
      BY <2>1
    <3> HIDE DEF q
    <3>2. q - 1 = l + 1
      BY <1>3, <3>1
    <3>3. p + g - 1 = l + 1
      BY <1>3
    <3>4. ~(g < MAX_CODE)
      BY <1>3, <3>1
    <3>5. m + g - 1 = y
      BY <1>3, <1>8
    <3>6. p + g - 1 = q - 1
      BY <3>2, <3>3
    <3> QED BY <3>4, <3>5, <3>6 DEF q
  <2> HIDE DEF g
  <2>7. d[p + g - 1] = Restored(in, m + g - 1, 0, g < MAX_CODE)
    <3>1. BlockAt(in, e, d, i, p, m, g)
      BY <1>3, <1>5, <1>6, <1>9, <1>10, <2>3, <2>4, <2>5 DEF BlockAt
    <3> QED BY <3>1, BlockTaken
  <2>8. d[c.pos - 1] = Restored(in, y, 0, FALSE)
    BY <2>6, <2>7
  <2>9. AtCode(in, d[c.pos - 1], y, y)
    BY <1>2, <2>8 DEF AtCode
  <2>10. y - c.code + 1 = y /\ \A j \in 1 .. c.code - 1 : FALSE
    BY <1>2, <2>1
  <2> HIDE DEF y
  <2> QED BY <2>9, <2>10 DEF BlockOpen
<1> QED BY <1>4, <1>11, <1>12, <1>13

LEMMA CobsRoundTrip ==
  ASSUME NEW in \in Seq(Int)
  PROVE  LET s == Decoded(Finished(Encoded(in)))
         IN s.out = in /\ s.left = 0 /\ s.bad = FALSE
<1> DEFINE n == Len(in)
           f == Encoded(in)
           e == Finished(f)
           s == Decoded(e)
<1>1. n \in Nat /\ \A x \in 1 .. n : in[x] \in Int
  BY LenProperties
<1>2. PICK r \in [0 .. n -> EncStates] :
        /\ f = r[n]
        /\ r[0] = EncStart
        /\ \A i \in 1 .. n : r[i] = EncStep(r[i - 1], in[i])
  BY EncRun
<1>3. EncodesAs(in, r)
  BY <1>2 DEF EncodesAs
<1>4. \A i \in 0 .. n : r[i] \in EncStates /\ Extends(r[i], r[n])
  BY <1>3, RunExtends
<1> HIDE DEF n, f
<1>5. f \in EncStates
  <2>1. n \in 0 .. n
    BY <1>1
  <2> QED BY <1>2, <1>4, <2>1
<1>6. e \in Seq(Int) /\ Len(e) = Len(f.out)
  BY <1>5, FinishedIs DEF EncStates
<1> HIDE DEF e, s
<1>7. PICK d \in [0 .. Len(e) -> DecStates] :
        /\ s = d[Len(e)]
        /\ d[0] = DecStart
        /\ \A i \in 1 .. Len(e) : d[i] = CobsTake(d[i - 1], e[i])
  BY <1>6, DecRun DEF s
<1>8. Decodes(e, d)
  BY <1>7 DEF Decodes
<1> DEFINE T == {i \in 0 .. n : BlockOpen(in, d, r[i], i)}
<1>9. 0 \in T
  <2>1. r[0].pos = 1 /\ r[0].code = 1
    BY <1>2, EncStartIs
  <2>2. d[0] = Restored(in, 0, 0, FALSE)
    <3>1. SubSeq(in, 1, 0) = <<>>
      BY SubSeqEmpty
    <3> QED BY <1>7, <3>1 DEF DecStart, Restored
  <2>3. AtCode(in, d[0], 0, 0)
    <3>1. 0 \in 0 .. 0
      OBVIOUS
    <3> QED BY <2>2, <3>1 DEF AtCode
  <2>4. r[0].pos - 1 = 0 /\ 0 - r[0].code + 1 = 0 /\ \A j \in 1 .. r[0].code - 1 : FALSE
    BY <2>1
  <2>5. BlockOpen(in, d, r[0], 0)
    BY <2>3, <2>4 DEF BlockOpen
  <2> QED BY <1>1, <2>5
<1>10. ASSUME NEW i \in 0 .. n - 1, i \in T PROVE i + 1 \in T
  <2> DEFINE x == i + 1
  <2>1. x \in 1 .. n /\ x \in 0 .. n /\ i \in 0 .. n /\ x - 1 = i /\ i \in 0 .. Len(in) - 1
    BY <1>1 DEF n
  <2>2. BlockOpen(in, d, r[i], i)
    BY <1>10
  <2>3. r[x] = EncStep(r[i], in[x])
    <3>1. r[x] = EncStep(r[x - 1], in[x])
      BY <1>2, <2>1
    <3> HIDE DEF x
    <3> QED BY <2>1, <3>1
  <2>4. r[i] \in EncStates /\ r[x] \in EncStates /\ Extends(r[x], f)
    BY <1>2, <1>4, <2>1
  <2>5. BlockOpen(in, d, r[x], x)
    BY <1>5, <1>8, <2>1, <2>2, <2>3, <2>4, StepOpen DEF e
  <2> QED BY <2>1, <2>5
<1> HIDE DEF T
<1>11. \A i \in 0 .. n : i \in T
  BY <1>1, <1>9, <1>10, UpTo
<1> DEFINE p == f.pos
           k == f.code
           l == Len(f.out)
           m == n - k + 1
<1>12. /\ AtCode(in, d[p - 1], n, m)
       /\ \A j \in 1 .. k - 1 : f.out[p + j] = in[m + j]
  <2>1. n \in T
    BY <1>1, <1>11
  <2>2. BlockOpen(in, d, f, n)
    BY <1>2, <2>1 DEF T
  <2> QED BY <2>2 DEF BlockOpen
<1>13. /\ l \in Nat /\ p \in 1 .. l /\ p \in Nat /\ p >= 1 /\ k \in Nat /\ k >= 1
       /\ k = l - p + 1 /\ k < MAX_CODE /\ MAX_CODE \in Nat
  BY <1>5, EncFacts, CodeMax
<1>14. \A j \in 1 .. l : e[j] = IF j = p THEN k ELSE f.out[j]
  BY <1>5, FinishedIs DEF EncStates, e
<1>15. Len(e) = l
  BY <1>6
<1> HIDE DEF p, k, l
<1>16. e[p] = k
  BY <1>13, <1>14
<1>17. ASSUME NEW j \in 1 .. k - 1 PROVE e[p + j] = in[m + j]
  <2>1. p + j \in 1 .. l /\ p + j # p
    BY <1>13
  <2> HIDE DEF m
  <2> QED BY <1>12, <1>14, <2>1
<1>18. /\ m + k - 1 = n /\ p + k - 1 = l /\ (k < MAX_CODE) = TRUE /\ m + k - 1 <= n
       /\ p + k - 1 <= l /\ n \in 0 .. n
  BY <1>1, <1>13
<1> HIDE DEF m
<1>19. d[p + k - 1] = Restored(in, m + k - 1, 0, k < MAX_CODE)
  <2>1. BlockAt(in, e, d, n, p, m, k)
    BY <1>6, <1>8, <1>12, <1>13, <1>15, <1>16, <1>17, <1>18 DEF BlockAt, n
  <2> QED BY <2>1, BlockTaken
<1>20. s = Restored(in, n, 0, TRUE)
  BY <1>7, <1>15, <1>18, <1>19
<1>21. SubSeq(in, 1, n) = in
  BY SubSeqFull DEF n
<1>22. s.out = in /\ s.left = 0 /\ s.bad = FALSE
  BY <1>20, <1>21 DEF Restored
<1> QED BY <1>22 DEF s, e, f

-----------------------------------------------------------------------------
(* How long an encoding can get: one code, and one more for each full      *)
(* block, which has taken MAX_CODE - 1 bytes.                              *)

Grown(t, i) ==
  /\ Len(t.out) >= i + 1
  /\ (MAX_CODE - 1) * (Len(t.out) - 1 - i) + (t.code - 1) <= i

LEMMA StepGrows ==
  ASSUME NEW i \in Nat, NEW t \in EncStates, NEW b \in Int, Grown(t, i)
  PROVE  Grown(EncStep(t, b), i + 1)
<1> DEFINE c == EncStep(t, b)
           K == MAX_CODE - 1
           l == Len(t.out)
           x == l - 1 - i
           a == t.code
<1>1. StepPuts(t, b, c) \/ StepCloses(t, b, c) \/ StepFills(t, b, c)
  BY StepIs
<1>2. K \in Nat /\ K >= 1 /\ MAX_CODE = K + 1
  BY CodeMax
<1>3. l \in Nat /\ a \in Nat /\ a >= 1
  BY EncFacts
<1>4. l >= i + 1 /\ K * x + (a - 1) <= i
  BY DEF Grown
<1>5. x \in Nat /\ l = x + 1 + i
  BY <1>3, <1>4
<1> SUFFICES Grown(c, i + 1)
  OBVIOUS
<1> HIDE DEF K, l, x, a, c
<1> DEFINE y == K * x
<1>6. y \in Nat /\ y + (a - 1) <= i
  BY <1>2, <1>4, <1>5
<1>7. CASE StepPuts(t, b, c)
  <2>1. Len(c.out) = l + 1 /\ c.code = a + 1
    BY <1>7 DEF StepPuts, l, a
  <2>2. Len(c.out) - 1 - (i + 1) = x /\ Len(c.out) >= (i + 1) + 1
    BY <1>5, <2>1
  <2>3. y + (c.code - 1) <= i + 1
    <3> HIDE DEF y
    <3> QED BY <1>3, <1>6, <2>1
  <2>4. K * (Len(c.out) - 1 - (i + 1)) + (c.code - 1) <= i + 1
    BY <2>2, <2>3
  <2> QED BY <2>2, <2>4 DEF Grown, K
<1>8. CASE StepCloses(t, b, c)
  <2>1. Len(c.out) = l + 1 /\ c.code = 1
    BY <1>8 DEF StepCloses, l
  <2>2. Len(c.out) - 1 - (i + 1) = x /\ Len(c.out) >= (i + 1) + 1
    BY <1>5, <2>1
  <2>3. y + (c.code - 1) <= i + 1
    <3> HIDE DEF y
    <3> QED BY <1>3, <1>6, <2>1
  <2>4. K * (Len(c.out) - 1 - (i + 1)) + (c.code - 1) <= i + 1
    BY <2>2, <2>3
  <2> QED BY <2>2, <2>4 DEF Grown, K
<1>9. CASE StepFills(t, b, c)
  <2>1. Len(c.out) = l + 2 /\ c.code = 1 /\ a = K
    <3>1. Len(c.out) = l + 2 /\ c.code = 1 /\ a + 1 = MAX_CODE
      BY <1>9 DEF StepFills, l, a
    <3> QED BY <1>2, <1>3, <3>1
  <2>2. Len(c.out) - 1 - (i + 1) = x + 1 /\ Len(c.out) >= (i + 1) + 1
    BY <1>5, <2>1
  <2> DEFINE z == K * (x + 1)
  <2>3. z = y + K
    BY <1>2, <1>5
  <2>4. z + (c.code - 1) <= i + 1
    <3> HIDE DEF y, z
    <3> QED BY <1>2, <1>3, <1>6, <2>1, <2>3
  <2>5. K * (Len(c.out) - 1 - (i + 1)) + (c.code - 1) <= i + 1
    BY <2>2, <2>4
  <2> QED BY <2>2, <2>5 DEF Grown, K
<1> QED BY <1>1, <1>7, <1>8, <1>9

LEMMA EncodedGrows ==
  ASSUME NEW in \in Seq(Int)
  PROVE  Encoded(in) \in EncStates /\ Grown(Encoded(in), Len(in))
<1> DEFINE n == Len(in)
           f == Encoded(in)
<1>1. n \in Nat /\ \A x \in 1 .. n : in[x] \in Int
  BY LenProperties
<1>2. PICK r \in [0 .. n -> EncStates] :
        /\ f = r[n]
        /\ r[0] = EncStart
        /\ \A i \in 1 .. n : r[i] = EncStep(r[i - 1], in[i])
  BY EncRun
<1> HIDE DEF n, f
<1> DEFINE T == {i \in 0 .. n : Grown(r[i], i)}
<1>3. 0 \in T
  <2> DEFINE c == EncStart
             K == MAX_CODE - 1
  <2>1. Len(c.out) = 1 /\ c.code = 1
    BY EncStartIs
  <2>2. K \in Int
    BY CodeMax
  <2> HIDE DEF c, K
  <2>3. Len(c.out) >= 0 + 1 /\ K * (Len(c.out) - 1 - 0) + (c.code - 1) <= 0
    <3>1. Len(c.out) - 1 - 0 = 0 /\ c.code - 1 = 0
      BY <2>1
    <3>2. K * 0 = 0
      BY <2>2
    <3> QED BY <2>1, <3>1, <3>2
  <2>4. Grown(c, 0)
    BY <2>3 DEF Grown, K
  <2> QED BY <1>1, <1>2, <2>4 DEF c
<1>4. ASSUME NEW i \in 0 .. n - 1, i \in T PROVE i + 1 \in T
  <2> DEFINE x == i + 1
  <2>1. x \in 1 .. n /\ x \in 0 .. n /\ i \in 0 .. n /\ x - 1 = i /\ i \in Nat
    BY <1>1
  <2>2. r[i] \in EncStates /\ in[x] \in Int /\ Grown(r[i], i)
    BY <1>1, <1>2, <1>4, <2>1
  <2>3. Grown(EncStep(r[i], in[x]), x)
    BY <2>1, <2>2, StepGrows
  <2> HIDE DEF x
  <2>4. r[x] = EncStep(r[i], in[x])
    <3>1. r[x] = EncStep(r[x - 1], in[x])
      BY <1>2, <2>1
    <3> QED BY <2>1, <3>1
  <2> QED BY <2>1, <2>3, <2>4 DEF x
<1> HIDE DEF T
<1>5. \A i \in 0 .. n : i \in T
  BY <1>1, <1>3, <1>4, UpTo
<1>6. n \in T /\ n \in 0 .. n
  BY <1>1, <1>5
<1>7. f \in EncStates /\ Grown(f, n)
  BY <1>2, <1>6 DEF T
<1> QED BY <1>7 DEF f, n

LEMMA QuotientIs ==
  ASSUME NEW c \in Nat, NEW k \in Nat, k > 0
  PROVE  /\ c \div k \in Nat /\ k * (c \div k) \in Nat
         /\ c < k * (c \div k) + k
OBVIOUS

LEMMA EncodedFits ==
  ASSUME NEW in \in Seq(Int), Len(in) <= MAX_PAYLOAD + 2
  PROVE  Len(Finished(Encoded(in))) + 1 <= MAX_FRAME
<1> DEFINE t == Encoded(in)
           K == MAX_CODE - 1
           C == MAX_PAYLOAD + 2
           n == Len(in)
           l == Len(t.out)
           x == l - 1 - n
           a == t.code
           q == C \div K
<1>1. /\ n \in Nat /\ C \in Nat /\ K \in Nat \ {0} /\ n <= C
      /\ MAX_FRAME \in Nat /\ C + q + 2 <= MAX_FRAME
  BY LenProperties, CodecAssumption
<1>2. t \in EncStates /\ Grown(t, n)
  BY EncodedGrows
<1>3. l \in Nat /\ a \in Nat \ {0} /\ Len(Finished(t)) = l
  BY <1>2, EncFacts, FinishedIs DEF EncStates
<1>4. l >= n + 1 /\ K * x + (a - 1) <= n
  BY <1>2 DEF Grown
<1>5. x \in Nat
  BY <1>1, <1>3, <1>4
<1> HIDE DEF C, K, q, a, n, l
<1>6. q \in Nat /\ C < K * q + K /\ K * q \in Nat
  <2>1. K > 0
    BY <1>1
  <2> QED BY <1>1, <2>1, QuotientIs DEF q
<1> DEFINE y == x
<1> HIDE DEF y
<1>7. y \in Nat /\ K * y + (a - 1) <= n
  BY <1>4, <1>5 DEF y
<1>8. K * y <= C /\ K * y \in Nat
  <2>1. K * y \in Nat
    BY <1>1, <1>7
  <2> QED BY <1>1, <1>3, <1>7, <2>1
<1>9. y <= q
  <2> SUFFICES ASSUME y >= q + 1 PROVE FALSE
    BY <1>6, <1>7
  <2>1. K * y >= K * (q + 1)
    BY <1>1, <1>6, <1>7
  <2>2. K * (q + 1) = K * q + K
    BY <1>1, <1>6
  <2> QED BY <1>1, <1>6, <1>8, <2>1, <2>2
<1>10. l + 1 = n + y + 2
  BY <1>1, <1>3 DEF y
<1>11. l + 1 <= MAX_FRAME
  BY <1>1, <1>6, <1>7, <1>9, <1>10
<1> QED BY <1>3, <1>11

-----------------------------------------------------------------------------
(* The frame: a payload, its checksum, COBS and the delimiter.             *)

LEMMA HalvesMakeCrc ==
  ASSUME NEW crc \in Int
  PROVE  /\ crc % 2^8 \in Int /\ crc \div 2^8 \in Int
         /\ (crc % 2^8) + 2^8 * (crc \div 2^8) = crc
OBVIOUS

\* A payload with its checksum.
Checked(p) == p \o <<htk_crc16(p) % 2^8, htk_crc16(p) \div 2^8>>

LEMMA CheckedIs ==
  ASSUME NEW p \in Seq(Int)
  PROVE  /\ Checked(p) \in Seq(Int) /\ Len(Checked(p)) = Len(p) + 2
         /\ \A i \in 1 .. Len(p) : Checked(p)[i] = p[i]
         /\ Checked(p)[Len(p) + 1] + 2^8 * Checked(p)[Len(p) + 2] = htk_crc16(p)
         /\ SubSeq(Checked(p), 1, Len(p)) = p
<1> DEFINE lo == htk_crc16(p) % 2^8
           hi == htk_crc16(p) \div 2^8
           s == <<lo, hi>>
           c == Checked(p)
           n == Len(p)
<1>1. lo \in Int /\ hi \in Int /\ lo + 2^8 * hi = htk_crc16(p)
  <2>1. htk_crc16(p) \in Int
    BY Crc16Type
  <2> QED BY <2>1, HalvesMakeCrc
<1> HIDE DEF lo, hi
<1>2. s \in Seq(Int) /\ Len(s) = 2 /\ s[1] = lo /\ s[2] = hi
  BY <1>1
<1>3. c = p \o s
  BY DEF Checked, lo, hi
<1> HIDE DEF s, c
<1>4. n \in Nat /\ c \in Seq(Int) /\ Len(c) = n + 2
      /\ \A i \in 1 .. n + 2 : c[i] = IF i <= n THEN p[i] ELSE s[i - n]
  <2>1. n \in Nat
    BY LenProperties
  <2>2. c \in Seq(Int) /\ Len(c) = n + Len(s)
        /\ \A i \in 1 .. n + Len(s) : c[i] = IF i <= n THEN p[i] ELSE s[i - n]
    BY <1>2, <1>3, ConcatProperties
  <2> HIDE DEF n
  <2> QED BY <1>2, <2>1, <2>2
<1> HIDE DEF n
<1>5. \A i \in 1 .. n : c[i] = p[i]
  <2>1. \A i \in 1 .. n : i \in 1 .. n + 2 /\ i <= n
    BY <1>4
  <2> QED BY <1>4, <2>1
<1>6. c[n + 1] = lo /\ c[n + 2] = hi
  <2>1. n + 1 \in 1 .. n + 2 /\ ~(n + 1 <= n) /\ (n + 1) - n = 1
        /\ n + 2 \in 1 .. n + 2 /\ ~(n + 2 <= n) /\ (n + 2) - n = 2
    BY <1>4
  <2> QED BY <1>2, <1>4, <2>1
<1>7. SubSeq(c, 1, n) = p
  <2> DEFINE o == SubSeq(c, 1, n)
  <2>1. o \in Seq(Int) /\ Len(o) = n /\ \A i \in 1 .. n : o[i] = c[i]
    <3>1. 1 \in 1 .. Len(c) + 1 /\ n \in 0 .. Len(c)
      BY <1>4
    <3>2. /\ o \in Seq(Int) /\ Len(o) = IF 1 <= n THEN n - 1 + 1 ELSE 0
          /\ \A i \in 1 .. n - 1 + 1 : o[i] = c[1 + i - 1]
      BY <1>4, <3>1, SubSeqProperties
    <3>3. n - 1 + 1 = n /\ (IF 1 <= n THEN n - 1 + 1 ELSE 0) = n
          /\ \A i \in 1 .. n : 1 + i - 1 = i
      BY <1>4
    <3> QED BY <3>2, <3>3
  <2> HIDE DEF o
  <2>2. o = p
    BY <1>5, <2>1, SeqEqual DEF n
  <2> QED BY <2>2 DEF o
<1> QED BY <1>1, <1>4, <1>5, <1>6, <1>7 DEF n, c

(* Every payload that the format allows, whatever its bytes, is encoded:   *)
(* a frame never outgrows MAX_FRAME, holds one zero and that is its last   *)
(* byte, and what stands before it is decoded to the payload (htk_frame.c, *)
(* htk_cobs.c; htk_frame.h:17 says of MAX_FRAME that it always suffices).  *)
THEOREM FrameRoundTrip ==
  ASSUME NEW p \in Seq(Int), Len(p) \in 1 .. MAX_PAYLOAD
  PROVE  LET f == htk_frame_encode(p)
         IN /\ f \in Seq(Int) /\ f # <<>> /\ Len(f) <= MAX_FRAME
            /\ f[Len(f)] = 0
            /\ \A i \in 1 .. Len(f) - 1 : f[i] # 0
            /\ htk_frame_decode(Front(f)) = p
<1> DEFINE in == Checked(p)
           e == Finished(Encoded(in))
           f == htk_frame_encode(p)
           l == Len(e)
           n == Len(p)
<1>1. n \in Nat /\ n >= 1 /\ n <= MAX_PAYLOAD /\ p # <<>> /\ MAX_PAYLOAD \in Nat
      /\ MAX_FRAME \in Nat
  BY CodecAssumption
<1>2. in \in Seq(Int) /\ Len(in) = n + 2
  BY CheckedIs
<1> HIDE DEF in
<1>3. Encoded(in) \in Begun
  BY <1>2, EncodedGrows DEF EncStates
<1>4. e \in Seq(Int) /\ l \in Nat /\ l >= 1 /\ \A i \in 1 .. l : e[i] # 0
  <2>1. Len(Encoded(in).out) \in Nat /\ Len(Encoded(in).out) >= 1
    BY <1>3, BegunIs
  <2> QED BY <1>3, <2>1, FinishedIs
<1>5. l + 1 <= MAX_FRAME
  BY <1>1, <1>2, EncodedFits
<1>6. Decoded(e).out = in /\ Decoded(e).left = 0 /\ Decoded(e).bad = FALSE
  BY <1>2, CobsRoundTrip
<1>7. htk_cobs_encode(in, MAX_FRAME) = e
  <2>1. l <= MAX_FRAME
    BY <1>1, <1>4, <1>5
  <2> QED BY <2>1, CobsEncodeIs DEF Capped
<1> HIDE DEF e
<1>8. f = Append(e, 0)
  <2>1. e # <<>> /\ ~(Len(e) + 1 > MAX_FRAME) /\ ~(Len(p) > MAX_PAYLOAD)
    BY <1>1, <1>4, <1>5
  <2> QED BY <1>1, <1>7, <2>1 DEF htk_frame_encode, in, Checked
<1>9. /\ Append(e, 0) \in Seq(Int) /\ Len(Append(e, 0)) = l + 1
      /\ \A i \in 1 .. l : Append(e, 0)[i] = e[i]
      /\ Append(e, 0)[l + 1] = 0
  BY <1>4, AppendProperties
<1>10. f \in Seq(Int) /\ Len(f) = l + 1 /\ f[l + 1] = 0 /\ \A i \in 1 .. l : f[i] = e[i]
  BY <1>8, <1>9
<1> HIDE DEF f, l
<1>11. Front(f) = e
  <2>1. Front(f) = SubSeq(f, 1, l)
    BY <1>4, <1>10 DEF Front
  <2> DEFINE o == SubSeq(f, 1, l)
  <2>2. o \in Seq(Int) /\ Len(o) = l /\ \A i \in 1 .. l : o[i] = f[i]
    <3>1. 1 \in 1 .. Len(f) + 1 /\ l \in 0 .. Len(f)
      BY <1>4, <1>10
    <3>2. /\ o \in Seq(Int) /\ Len(o) = IF 1 <= l THEN l - 1 + 1 ELSE 0
          /\ \A i \in 1 .. l - 1 + 1 : o[i] = f[1 + i - 1]
      BY <1>10, <3>1, SubSeqProperties
    <3>3. l - 1 + 1 = l /\ (IF 1 <= l THEN l - 1 + 1 ELSE 0) = l
          /\ \A i \in 1 .. l : 1 + i - 1 = i
      BY <1>4
    <3> QED BY <3>2, <3>3
  <2> HIDE DEF o
  <2>3. o = e
    BY <1>4, <1>10, <2>2, SeqEqual DEF l
  <2> QED BY <2>1, <2>3 DEF o
<1>12. htk_frame_decode(e) = p
  <2>1. htk_cobs_decode(e, MAX_PAYLOAD + 2) = in
    <3>1. Len(in) <= MAX_PAYLOAD + 2
      BY <1>1, <1>2
    <3>2. htk_cobs_decode(e, MAX_PAYLOAD + 2) = Capped(in, MAX_PAYLOAD + 2)
      BY <1>6, CobsDecodeIs
    <3> QED BY <3>1, <3>2 DEF Capped
  <2>2. Len(in) - 2 = n /\ ~(Len(in) < 3)
    BY <1>1, <1>2
  <2>3. /\ SubSeq(in, 1, n) = p
        /\ in[n + 1] + 2^8 * in[n + 2] = htk_crc16(p)
    BY CheckedIs DEF in
  <2> HIDE DEF n
  <2> QED BY <2>1, <2>2, <2>3 DEF htk_frame_decode, CrcAgrees
<1>13. Len(f) - 1 = l /\ Len(f) <= MAX_FRAME /\ f # <<>> /\ f[Len(f)] = 0
  BY <1>4, <1>5, <1>10 DEF l
<1>14. \A i \in 1 .. Len(f) - 1 : f[i] # 0
  BY <1>4, <1>10, <1>13 DEF l
<1> QED BY <1>10, <1>11, <1>12, <1>13, <1>14 DEF f

(* The codec is exact, for any bytes to try it with and any length of      *)
(* payload (htk_frame.c).                                                  *)
THEOREM CodecIsExact == Spec => []CodecExact
<1>1. CodecExact
  <2> SUFFICES ASSUME NEW n \in 1 .. MAX_PAYLOAD, NEW p \in [1 .. n -> Probes]
               PROVE  LET f == htk_frame_encode(p)
                      IN /\ f # <<>> /\ f[Len(f)] = 0
                         /\ \A i \in 1 .. Len(f) - 1 : f[i] # 0
                         /\ htk_frame_decode(Front(f)) = p
    BY DEF CodecExact
  <2>1. p \in Seq(Int) /\ Len(p) = n
    <3>1. Probes \subseteq Int
      BY PathAssumption
    <3>2. p \in [1 .. n -> Int]
      BY <3>1
    <3>3. n \in Nat
      OBVIOUS
    <3> QED BY <3>2, <3>3
  <2> QED BY <2>1, FrameRoundTrip
<1> QED BY <1>1, PTL

-----------------------------------------------------------------------------
(* Sequences of bytes that carry the number of their frame.                *)

\* A byte on its way, with the number of its frame.
Bytes == Int \X Nat

(* A byte follows another one of the same frame or of an earlier one; a    *)
(* delimiter is followed by later frames only.                             *)
InOrder(a, b) == a[2] <= b[2] /\ (a[1] = 0 => a[2] < b[2])

Sorted(s) == \A i, j \in 1 .. Len(s) : i < j => InOrder(s[i], s[j])

Ahead(s, t) == \A a \in Range(s), b \in Range(t) : InOrder(a, b)

LEMMA RangeIs ==
  ASSUME NEW S, NEW s \in Seq(S)
  PROVE  /\ Range(s) = {s[i] : i \in 1 .. Len(s)} /\ Range(s) \subseteq S
         /\ \A i \in 1 .. Len(s) : s[i] \in Range(s)
BY LenProperties DEF Range

LEMMA PieceIs ==
  ASSUME NEW S, NEW s \in Seq(S), NEW m \in 1 .. Len(s) + 1, NEW n \in m - 1 .. Len(s)
  PROVE  /\ SubSeq(s, m, n) \in Seq(S)
         /\ Len(SubSeq(s, m, n)) = n - m + 1
         /\ \A i \in 1 .. n - m + 1 : SubSeq(s, m, n)[i] = s[m + i - 1]
         /\ \A i \in 1 .. n - m + 1 : m + i - 1 \in 1 .. Len(s)
<1> DEFINE l == Len(s)
<1>1. l \in Nat /\ \A i \in 1 .. l : s[i] \in S
  BY LenProperties
<1> HIDE DEF l
<1>2. m \in 1 .. l + 1 /\ n \in m - 1 .. l /\ m \in Int /\ n \in Int
  BY <1>1 DEF l
<1>3. \A i \in m .. n : s[i] \in S
  BY <1>1, <1>2
<1>4. (IF m <= n THEN n - m + 1 ELSE 0) = n - m + 1
  BY <1>1, <1>2
<1>5. \A i \in 1 .. n - m + 1 : m + i - 1 \in 1 .. l
  BY <1>1, <1>2
<1> QED BY <1>2, <1>3, <1>4, <1>5, SubSeqProperties DEF l

LEMMA PrefixIs ==
  ASSUME NEW S, NEW s \in Seq(S), NEW k \in 0 .. Len(s)
  PROVE  /\ SubSeq(s, 1, k) \in Seq(S) /\ Len(SubSeq(s, 1, k)) = k
         /\ \A i \in 1 .. k : SubSeq(s, 1, k)[i] = s[i]
<1> DEFINE one == 1
           l == Len(s)
<1>1. l \in Nat
  BY LenProperties
<1>2. one \in 1 .. l + 1 /\ k \in one - 1 .. l
  BY <1>1
<1>3. k - one + 1 = k /\ \A i \in 1 .. k : one + i - 1 = i
  BY <1>1
<1>4. /\ SubSeq(s, one, k) \in Seq(S)
      /\ Len(SubSeq(s, one, k)) = k - one + 1
      /\ \A i \in 1 .. k - one + 1 : SubSeq(s, one, k)[i] = s[one + i - 1]
  <2> HIDE DEF one
  <2> QED BY <1>2, PieceIs
<1>5. SubSeq(s, one, k) = SubSeq(s, 1, k)
  OBVIOUS
<1> HIDE DEF one
<1> QED BY <1>3, <1>4, <1>5

LEMMA SortedPiece ==
  ASSUME NEW S, NEW s \in Seq(S), NEW m \in 1 .. Len(s) + 1, NEW n \in m - 1 .. Len(s)
  PROVE  /\ SubSeq(s, m, n) \in Seq(S)
         /\ Range(SubSeq(s, m, n)) \subseteq Range(s)
         /\ Sorted(s) => Sorted(SubSeq(s, m, n))
<1> DEFINE t == SubSeq(s, m, n)
           k == n - m + 1
<1>1. t \in Seq(S) /\ Len(t) = k
      /\ \A i \in 1 .. k : t[i] = s[m + i - 1] /\ m + i - 1 \in 1 .. Len(s)
  BY PieceIs
<1> HIDE DEF t
<1>2. Range(t) \subseteq Range(s)
  BY <1>1, RangeIs
<1>3. ASSUME Sorted(s) PROVE Sorted(t)
  <2> SUFFICES ASSUME NEW i \in 1 .. k, NEW j \in 1 .. k, i < j
               PROVE  InOrder(t[i], t[j])
    BY <1>1 DEF Sorted
  <2>1. m + i - 1 < m + j - 1
    BY LenProperties
  <2>2. InOrder(s[m + i - 1], s[m + j - 1])
    BY <1>1, <1>3, <2>1 DEF Sorted
  <2> QED BY <1>1, <2>2
<1> QED BY <1>1, <1>2, <1>3 DEF t

(* What is taken from the front is ahead of what is left.                  *)
LEMMA FrontAhead ==
  ASSUME NEW S, NEW s \in Seq(S), Sorted(s),
         NEW n \in 0 .. Len(s), NEW k \in 0 .. n
  PROVE  Ahead(SubSeq(s, 1, k), SubSeq(s, n + 1, Len(s)))
<1> DEFINE a == SubSeq(s, 1, k)
           b == SubSeq(s, n + 1, Len(s))
           l == Len(s)
<1>1. l \in Nat /\ n \in 0 .. l /\ k \in 0 .. n
  BY LenProperties
<1>2. /\ a \in Seq(S) /\ Len(a) = k - 1 + 1
      /\ \A i \in 1 .. k - 1 + 1 : a[i] = s[1 + i - 1]
  <2>1. 1 \in 1 .. l + 1 /\ k \in 1 - 1 .. l
    BY <1>1
  <2> QED BY <2>1, PieceIs
<1>3. /\ b \in Seq(S) /\ Len(b) = l - (n + 1) + 1
      /\ \A i \in 1 .. l - (n + 1) + 1 : b[i] = s[n + 1 + i - 1]
  <2>1. n + 1 \in 1 .. l + 1 /\ l \in (n + 1) - 1 .. l
    BY <1>1
  <2> QED BY <2>1, PieceIs
<1> HIDE DEF a, b
<1> SUFFICES ASSUME NEW x \in Range(a), NEW y \in Range(b)
             PROVE  InOrder(x, y)
  BY DEF Ahead, a, b
<1>4. PICK i \in 1 .. k : x = s[i]
  <2>1. PICK i \in 1 .. k - 1 + 1 : x = a[i]
    BY <1>2, RangeIs
  <2>2. i \in 1 .. k /\ 1 + i - 1 = i
    BY <1>1
  <2> QED BY <1>2, <2>1, <2>2
<1>5. PICK j \in n + 1 .. l : y = s[j]
  <2>1. PICK j \in 1 .. l - (n + 1) + 1 : y = b[j]
    BY <1>3, RangeIs
  <2>2. n + 1 + j - 1 \in n + 1 .. l
    BY <1>1
  <2> QED BY <1>3, <2>1, <2>2
<1>6. i \in 1 .. l /\ j \in 1 .. l /\ i < j
  BY <1>1
<1> QED BY <1>4, <1>5, <1>6 DEF Sorted, l

LEMMA SortedConcat ==
  ASSUME NEW S, NEW s \in Seq(S), NEW t \in Seq(S)
  PROVE  /\ s \o t \in Seq(S)
         /\ Range(s \o t) \subseteq Range(s) \cup Range(t)
         /\ Sorted(s) /\ Sorted(t) /\ Ahead(s, t) => Sorted(s \o t)
<1> DEFINE c == s \o t
           k == Len(s)
           l == Len(t)
<1>1. k \in Nat /\ l \in Nat
  BY LenProperties
<1>2. /\ c \in Seq(S) /\ Len(c) = k + l
      /\ \A i \in 1 .. k + l : c[i] = IF i <= k THEN s[i] ELSE t[i - k]
  BY ConcatProperties
<1>3. /\ \A i \in 1 .. k : s[i] \in Range(s)
      /\ \A i \in 1 .. l : t[i] \in Range(t)
  BY RangeIs
<1>4. /\ Sorted(s) => \A i, j \in 1 .. k : i < j => InOrder(s[i], s[j])
      /\ Sorted(t) => \A i, j \in 1 .. l : i < j => InOrder(t[i], t[j])
  BY DEF Sorted
<1> HIDE DEF c, k, l
<1>5. \A i \in 1 .. k + l : i > k => i - k \in 1 .. l
  BY <1>1
<1>6. \A i \in 1 .. k + l : i <= k => i \in 1 .. k
  BY <1>1
<1>7. \A i \in 1 .. k + l : (i <= k) \/ (i > k)
  BY <1>1
<1>8. Range(c) \subseteq Range(s) \cup Range(t)
  <2> SUFFICES ASSUME NEW x \in Range(c) PROVE x \in Range(s) \cup Range(t)
    OBVIOUS
  <2>1. PICK i \in 1 .. k + l : x = c[i]
    BY <1>2, RangeIs
  <2>2. CASE i <= k
    BY <1>2, <1>3, <1>6, <2>1, <2>2
  <2>3. CASE i > k
    <3>1. c[i] = t[i - k] /\ i - k \in 1 .. l
      BY <1>1, <1>2, <1>5, <2>3
    <3> QED BY <1>3, <2>1, <3>1
  <2> QED BY <1>7, <2>2, <2>3
<1>9. ASSUME Sorted(s), Sorted(t), Ahead(s, t) PROVE Sorted(c)
  <2> SUFFICES ASSUME NEW i \in 1 .. k + l, NEW j \in 1 .. k + l, i < j
               PROVE  InOrder(c[i], c[j])
    BY <1>2 DEF Sorted
  <2>1. CASE j <= k
    <3>1. i \in 1 .. k /\ j \in 1 .. k /\ i <= k
      BY <1>1, <2>1
    <3> QED BY <1>2, <1>4, <1>9, <2>1, <3>1
  <2>2. CASE i > k
    <3>1. /\ i - k \in 1 .. l /\ j - k \in 1 .. l /\ i - k < j - k
          /\ ~(i <= k) /\ ~(j <= k)
      BY <1>1, <2>2
    <3> QED BY <1>2, <1>4, <1>9, <3>1
  <2>3. CASE i <= k /\ j > k
    <3>1. i \in 1 .. k /\ j - k \in 1 .. l /\ ~(j <= k)
      BY <1>1, <2>3
    <3>2. c[i] \in Range(s) /\ c[j] \in Range(t)
      BY <1>2, <1>3, <2>3, <3>1
    <3> QED BY <1>9, <3>2 DEF Ahead
  <2> QED BY <1>7, <2>1, <2>2, <2>3
<1> QED BY <1>2, <1>8, <1>9 DEF c

LEMMA HeadAhead ==
  ASSUME NEW S, NEW s \in Seq(S), s # <<>>
  PROVE  /\ Tail(s) \in Seq(S) /\ Head(s) \in Range(s)
         /\ Range(Tail(s)) \subseteq Range(s)
         /\ Sorted(s) => Sorted(Tail(s)) /\ \A b \in Range(Tail(s)) : InOrder(Head(s), b)
<1> DEFINE t == Tail(s)
           l == Len(s)
<1>1. l \in Nat /\ l >= 1 /\ Head(s) = s[1]
  BY LenProperties, EmptySeq
<1>2. t = SubSeq(s, 2, l)
  BY TailIsSubSeq
<1> HIDE DEF t
<1>3. 2 \in 1 .. l + 1 /\ l \in 2 - 1 .. l /\ 1 \in 1 .. l
  BY <1>1
<1>4. t \in Seq(S) /\ Len(t) = l - 2 + 1
      /\ \A i \in 1 .. l - 2 + 1 : t[i] = s[2 + i - 1]
  <2>1. /\ SubSeq(s, 2, l) \in Seq(S) /\ Len(SubSeq(s, 2, l)) = l - 2 + 1
        /\ \A i \in 1 .. l - 2 + 1 : SubSeq(s, 2, l)[i] = s[2 + i - 1]
    BY <1>3, PieceIs
  <2> QED BY <1>2, <2>1
<1>5. t \in Seq(S) /\ Range(t) \subseteq Range(s) /\ (Sorted(s) => Sorted(t))
  BY <1>2, <1>3, SortedPiece
<1>6. ASSUME Sorted(s), NEW b \in Range(t) PROVE InOrder(Head(s), b)
  <2>1. PICK i \in 1 .. l - 2 + 1 : b = t[i]
    BY <1>4, RangeIs
  <2>2. 2 + i - 1 \in 1 .. l /\ 1 < 2 + i - 1
    BY <1>1
  <2>3. b = s[2 + i - 1]
    BY <1>4, <2>1
  <2> QED BY <1>1, <1>3, <1>6, <2>2, <2>3 DEF Sorted
<1>7. Head(s) \in Range(s)
  BY <1>1, <1>3, RangeIs
<1> QED BY <1>5, <1>6, <1>7 DEF t

LEMMA RangeAppend ==
  ASSUME NEW S, NEW s \in Seq(S), NEW x \in S
  PROVE  Append(s, x) \in Seq(S) /\ Range(Append(s, x)) \subseteq Range(s) \cup {x}
<1> DEFINE l == Len(s)
           a == Append(s, x)
<1>1. /\ l \in Nat /\ a \in Seq(S) /\ Len(a) = l + 1
      /\ \A i \in 1 .. l : a[i] = s[i]
      /\ a[l + 1] = x
  BY AppendProperties, LenProperties
<1>2. \A i \in 1 .. l : s[i] \in Range(s)
  BY RangeIs
<1> HIDE DEF l, a
<1>3. ASSUME NEW y \in Range(a) PROVE y \in Range(s) \cup {x}
  <2>1. PICK i \in 1 .. l + 1 : y = a[i]
    BY <1>1, RangeIs
  <2>2. i \in 1 .. l \/ i = l + 1
    BY <1>1
  <2> QED BY <1>1, <1>2, <2>1, <2>2
<1> QED BY <1>1, <1>3 DEF a

-----------------------------------------------------------------------------
(* Commands, their payloads and their frames.                              *)

Cmds == Commands \cup {Hello, GetStats}

Typed == [kind : DOMAIN PktType, id : Int, arg : Int]

LEMMA CmdsTyped == Cmds \subseteq Typed
<1>1. Commands \subseteq Typed
  <2> DEFINE K == DOMAIN PktType
             A == 0 .. 2^16 - 1
  <2>1. A \subseteq Int
    OBVIOUS
  <2>2. Commands \subseteq [kind : K, id : A, arg : A]
    BY CommandsAssumption, Zenon
  <2> HIDE DEF K, A
  <2>3. Commands \subseteq [kind : K, id : Int, arg : Int]
    <3> SUFFICES ASSUME NEW c \in Commands PROVE c \in [kind : K, id : Int, arg : Int]
      OBVIOUS
    <3>1. c \in [kind : K, id : A, arg : A]
      BY <2>2
    <3> QED BY <2>1, <3>1
  <2> QED BY <2>3 DEF Typed, K
<1>2. Hello \in Typed /\ GetStats \in Typed
  BY DEF Typed, Hello, GetStats, PktType
<1> QED BY <1>1, <1>2 DEF Cmds

LEMMA HalvesTyped ==
  ASSUME NEW n \in Int PROVE Le16(n) \in Seq(Int) /\ Len(Le16(n)) = 2
<1>1. n % 2^8 \in Int /\ n \div 2^8 \in Int
  OBVIOUS
<1> QED BY <1>1 DEF Le16

LEMMA PayloadTyped ==
  ASSUME NEW c \in Typed PROVE Payload(c) \in Seq(Int)
<1> DEFINE k == c.kind
           l == Le16(c.id)
           m == Le16(c.arg)
           x == PktType[k]
<1>1. c.id \in Int /\ c.arg \in Int
      /\ k \in {"hello", "reset_fusion", "set_rate", "set_mode", "get_stats", "identify",
                "sim_mode"}
  BY DEF Typed, PktType
<1>2. l \in Seq(Int) /\ m \in Seq(Int)
  BY <1>1, HalvesTyped
<1>3. x \in Int
  BY <1>1 DEF PktType
<1> DEFINE a == c.arg
<1>4. a \in Int
  BY <1>1
<1> HIDE DEF l, m, x, k, a
<1>5. Append(l, a) \in Seq(Int) /\ l \o m \in Seq(Int) /\ <<a>> \in Seq(Int)
      /\ <<HTK_PROTO_VERSION>> \in Seq(Int) /\ <<>> \in Seq(Int)
  <2>1. l \o m \in Seq(Int)
    BY <1>2, ConcatProperties
  <2>2. Append(l, a) \in Seq(Int)
    BY <1>2, <1>4
  <2> QED BY <1>4, <2>1, <2>2 DEF HTK_PROTO_VERSION
<1> DEFINE b == CASE k = "hello" -> <<HTK_PROTO_VERSION>>
                  [] k = "get_stats" -> <<>>
                  [] k = "sim_mode" -> <<a>>
                  [] k \in {"reset_fusion", "identify"} -> l
                  [] k = "set_mode" -> Append(l, a)
                  [] k = "set_rate" -> l \o m
<1>6. b \in Seq(Int)
  BY <1>1, <1>2, <1>5
<1>7. Payload(c) = <<x>> \o b
  BY DEF Payload, k, a, l, m, x
<1> HIDE DEF b
<1>8. <<x>> \in Seq(Int)
  BY <1>3
<1> QED BY <1>6, <1>7, <1>8, ConcatProperties

\* A zero is the last byte, if there is one.
EndsFrame(s) == \A i \in 1 .. Len(s) : s[i] = 0 => i = Len(s)

LEMMA EncodesTyped ==
  ASSUME NEW p \in Seq(Int)
  PROVE  /\ htk_frame_encode(p) \in Seq(Int) /\ EndsFrame(htk_frame_encode(p))
         /\ htk_frame_encode(p) # <<>> => Len(p) \in 1 .. MAX_PAYLOAD
<1> DEFINE f == htk_frame_encode(p)
<1>1. CASE p = <<>> \/ Len(p) > MAX_PAYLOAD
  <2>1. f = <<>>
    BY <1>1 DEF htk_frame_encode
  <2> QED BY <2>1, EmptySeq DEF EndsFrame
<1>2. CASE ~(p = <<>> \/ Len(p) > MAX_PAYLOAD)
  <2>1. Len(p) \in 1 .. MAX_PAYLOAD
    BY <1>2, LenProperties, EmptySeq, CodecAssumption
  <2>2. f \in Seq(Int) /\ \A i \in 1 .. Len(f) - 1 : f[i] # 0
    BY <2>1, FrameRoundTrip
  <2> HIDE DEF f
  <2>3. ASSUME NEW i \in 1 .. Len(f), f[i] = 0 PROVE i = Len(f)
    <3> SUFFICES ASSUME i # Len(f) PROVE FALSE
      OBVIOUS
    <3>1. i \in 1 .. Len(f) - 1
      BY <2>2, LenProperties
    <3> QED BY <2>2, <2>3, <3>1
  <2> QED BY <2>1, <2>2, <2>3 DEF f, EndsFrame
<1> QED BY <1>1, <1>2

LEMMA FramesTyped ==
  ASSUME NEW c \in Cmds
  PROVE  Frames[c] \in Seq(Int) /\ EndsFrame(Frames[c]) /\ Payload(c) \in Seq(Int)
<1>1. Payload(c) \in Seq(Int)
  BY CmdsTyped, PayloadTyped
<1>2. Frames[c] = Frame(c)
  BY DEF Frames, Cmds
<1>3. Frame(c) = <<>> \/ Frame(c) = htk_frame_encode(Payload(c))
  BY DEF Frame
<1>4. <<>> \in Seq(Int) /\ EndsFrame(<<>>)
  BY EmptySeq DEF EndsFrame
<1> QED BY <1>1, <1>2, <1>3, <1>4, EncodesTyped

\* What a tty makes of a byte.
CookedByte(b) == IF b = 10 THEN <<13, 10>> ELSE <<b>>

CookedPut(s, b) == s \o CookedByte(b)

LEMMA CookedByteIs ==
  ASSUME NEW b \in Int
  PROVE  /\ CookedByte(b) \in Seq(Int) /\ Len(CookedByte(b)) \in {1, 2}
         /\ b # 0 => \A i \in 1 .. Len(CookedByte(b)) : CookedByte(b)[i] # 0
         /\ b = 0 => CookedByte(b) = <<0>>
<1>1. CASE b = 10
  <2> DEFINE s == <<13, 10>>
  <2>1. s \in Seq(Int) /\ Len(s) = 2 /\ s[1] = 13 /\ s[2] = 10
    OBVIOUS
  <2>2. CookedByte(b) = s
    BY <1>1 DEF CookedByte
  <2> HIDE DEF s
  <2>3. \A i \in 1 .. 2 : s[i] # 0
    BY <2>1
  <2>4. b # 0
    BY <1>1
  <2> QED BY <2>1, <2>2, <2>3, <2>4
<1>2. CASE b # 10
  <2> DEFINE s == <<b>>
  <2>1. s \in Seq(Int) /\ Len(s) = 1 /\ s[1] = b
    OBVIOUS
  <2>2. CookedByte(b) = s
    BY <1>2 DEF CookedByte
  <2>3. b = 0 => s = <<0>>
    OBVIOUS
  <2> HIDE DEF s
  <2>4. \A i \in 1 .. 1 : s[i] = b
    BY <2>1
  <2> QED BY <2>1, <2>2, <2>3, <2>4
<1> QED BY <1>1, <1>2

LEMMA CookedPutTyped ==
  ASSUME NEW s \in Seq(Int), NEW b \in Int PROVE CookedPut(s, b) \in Seq(Int)
<1>1. CookedByte(b) \in Seq(Int)
  BY CookedByteIs
<1> HIDE DEF CookedByte
<1> QED BY <1>1, ConcatProperties DEF CookedPut

CookedSolves(n, base, in, h) ==
  h = [s \in SUBSET (1 .. n) |->
         IF s = {} THEN base ELSE CookedPut(h[s \ {Max(s)}], in[Max(s)])]

LEMMA CookedRun ==
  ASSUME NEW in \in Seq(Int), NEW base \in Seq(Int), base = <<>>
  PROVE  \E r \in [0 .. Len(in) -> Seq(Int)] :
           /\ Cooked(in) = r[Len(in)]
           /\ r[0] = base
           /\ \A i \in 1 .. Len(in) : r[i] = CookedPut(r[i - 1], in[i])
<1> DEFINE F == [y \in (1 .. Len(in)) \X Seq(Int) |-> CookedPut(y[2], in[y[1]])]
           g == CHOOSE h : CookedSolves(Len(in), base, in, h)
<1>0. Len(in) \in Nat /\ DOMAIN in = 1 .. Len(in)
  BY LenProperties
<1>1. Folds(Len(in), Seq(Int), base, F)
  <2>1. ASSUME NEW i \in 1 .. Len(in), NEW x \in Seq(Int) PROVE CookedPut(x, in[i]) \in Seq(Int)
    BY <1>0, ElementOfSeq, CookedPutTyped
  <2>2. base \in Seq(Int)
    OBVIOUS
  <2> QED BY <1>0, <2>1, <2>2 DEF Folds
<1>2. \A i \in 1 .. Len(in), x \in Seq(Int) : F[<<i, x>>] = CookedPut(x, in[i])
  OBVIOUS
<1> HIDE DEF F
<1>3. CookedSolves(Len(in), base, in, g)
  <2>1. PICK h : Solves(Len(in), Seq(Int), base, F, h)
    BY <1>1, FoldExists
  <2>2. ASSUME NEW s \in SUBSET (1 .. Len(in))
        PROVE  h[s] = IF s = {} THEN base
                      ELSE CookedPut(h[s \ {Max(s)}], in[Max(s)])
    <3>1. CASE s # {}
      <4>1. Max(s) \in 1 .. Len(in) /\ s \ {Max(s)} \in SUBSET (1 .. Len(in))
        BY <1>0, <3>1, MaxIs
      <4>2. h[s \ {Max(s)}] \in Seq(Int)
        BY <2>1, <4>1 DEF Solves
      <4> QED BY <1>2, <2>1, <3>1, <4>1, <4>2 DEF Solves
    <3> QED BY <2>1, <3>1 DEF Solves
  <2>3. CookedSolves(Len(in), base, in, h)
    BY <1>0, <2>1, <2>2 DEF CookedSolves, Solves
  <2> QED BY <2>3
<1> HIDE DEF g
<1>4. Follows(Len(in), Seq(Int), base, F, g)
  <2>1. g[{}] = base
    BY <1>3 DEF CookedSolves
  <2>2. ASSUME NEW s \in SUBSET (1 .. Len(in)), s # {}, g[s \ {Max(s)}] \in Seq(Int)
        PROVE  g[s] = F[<<Max(s), g[s \ {Max(s)}]>>]
    <3>1. Max(s) \in 1 .. Len(in)
      BY <1>0, <2>2, MaxIs
    <3>2. g[s] = CookedPut(g[s \ {Max(s)}], in[Max(s)])
      BY <1>0, <1>3, <2>2 DEF CookedSolves
    <3> QED BY <1>2, <2>2, <3>1, <3>2
  <2> QED BY <2>1, <2>2 DEF Follows
<1>5. PICK r : Runs(Len(in), Seq(Int), base, F, g, r)
  BY <1>1, <1>4, FoldRun
<1>6. ASSUME NEW i \in 1 .. Len(in) PROVE r[i] = CookedPut(r[i - 1], in[i])
  <2>1. r[i - 1] \in Seq(Int)
    <3>1. r \in [0 .. Len(in) -> Seq(Int)] /\ i - 1 \in 0 .. Len(in)
      BY <1>0, <1>5 DEF Runs
    <3> QED BY <3>1
  <2> QED BY <1>2, <1>5, <2>1 DEF Runs
<1>7. Cooked(in) = r[Len(in)]
  BY <1>0, <1>5 DEF Cooked, CookedSolves, CookedPut, CookedByte, FoldLeft, MapThenFoldSet, Runs, g
<1> QED BY <1>5, <1>6, <1>7 DEF Runs

LEMMA CookedEnds ==
  ASSUME NEW in \in Seq(Int), EndsFrame(in)
  PROVE  /\ Cooked(in) \in Seq(Int) /\ EndsFrame(Cooked(in))
         /\ (\A i \in 1 .. Len(in) : in[i] # 0) =>
              \A i \in 1 .. Len(Cooked(in)) : Cooked(in)[i] # 0
<1> DEFINE n == Len(in)
           Pure(s) == \A i \in 1 .. Len(s) : s[i] # 0
           base == <<>>
<1>1. n \in Nat /\ \A i \in 1 .. n : in[i] \in Int
  BY LenProperties
<1>2. PICK r \in [0 .. n -> Seq(Int)] :
        /\ Cooked(in) = r[n]
        /\ r[0] = base
        /\ \A i \in 1 .. n : r[i] = CookedPut(r[i - 1], in[i])
  <2>1. base \in Seq(Int)
    BY EmptySeq
  <2> QED BY <2>1, CookedRun
<1>3. Pure(base)
  BY EmptySeq
<1> HIDE DEF base
<1>4. \A i \in 1 .. n : r[i - 1] \in Seq(Int)
  <2>1. \A i \in 1 .. n : i - 1 \in 0 .. n
    BY <1>1
  <2> QED BY <2>1
<1> HIDE DEF n
<1>5. ASSUME NEW i \in 1 .. n, in[i] # 0, Pure(r[i - 1]) PROVE Pure(r[i])
  <2> DEFINE s == r[i - 1]
             t == CookedByte(in[i])
             k == Len(s)
             l == Len(t)
  <2>1. s \in Seq(Int) /\ t \in Seq(Int) /\ \A j \in 1 .. l : t[j] # 0
    BY <1>1, <1>4, <1>5, CookedByteIs
  <2>2. r[i] = s \o t
    BY <1>2 DEF CookedPut
  <2>3. \A j \in 1 .. k : s[j] # 0
    BY <1>5
  <2> HIDE DEF s, t
  <2>4. k \in Nat /\ l \in Nat
    BY <2>1, LenProperties
  <2>5. /\ Len(s \o t) = k + l
        /\ \A j \in 1 .. k + l : (s \o t)[j] = IF j <= k THEN s[j] ELSE t[j - k]
    BY <2>1, ConcatProperties
  <2> HIDE DEF k, l
  <2>6. ASSUME NEW j \in 1 .. k + l PROVE (s \o t)[j] # 0
    <3>1. j \in 1 .. k \/ (~(j <= k) /\ j - k \in 1 .. l)
      BY <2>4
    <3>2. j \in 1 .. k => j <= k
      BY <2>4
    <3> QED BY <2>1, <2>3, <2>5, <3>1, <3>2
  <2> QED BY <2>2, <2>5, <2>6
<1>6. ASSUME NEW m \in 0 .. n, \A i \in 1 .. m : in[i] # 0 PROVE Pure(r[m])
  <2> DEFINE T == {i \in 0 .. m : Pure(r[i])}
  <2>1. 0 \in T
    BY <1>1, <1>2, <1>3
  <2>2. ASSUME NEW i \in 0 .. m - 1, i \in T PROVE i + 1 \in T
    <3>1. i + 1 \in 1 .. n /\ i + 1 \in 1 .. m /\ (i + 1) - 1 = i /\ i + 1 \in 0 .. m
      BY <1>1
    <3> DEFINE x == i + 1
    <3> HIDE DEF x
    <3>2. x \in 1 .. n /\ x \in 1 .. m /\ x - 1 = i /\ x \in 0 .. m
      BY <3>1 DEF x
    <3>3. Pure(r[i])
      BY <2>2
    <3>4. Pure(r[x])
      BY <1>5, <1>6, <3>2, <3>3
    <3> QED BY <3>2, <3>4 DEF x
  <2> HIDE DEF T
  <2>3. m \in Nat
    BY <1>1
  <2>4. \A i \in 0 .. m : i \in T
    BY <2>1, <2>2, <2>3, UpTo
  <2>5. m \in T
    BY <2>3, <2>4
  <2> QED BY <2>5 DEF T
<1> HIDE DEF Pure
<1>7. Cooked(in) \in Seq(Int)
  BY <1>1, <1>2
<1>8. CASE \A i \in 1 .. n : in[i] # 0
  <2>1. Pure(Cooked(in))
    <3>1. n \in 0 .. n
      BY <1>1
    <3> QED BY <1>2, <1>6, <1>8, <3>1
  <2>2. \A i \in 1 .. Len(Cooked(in)) : Cooked(in)[i] # 0
    BY <2>1 DEF Pure
  <2> QED BY <1>7, <2>2 DEF EndsFrame
<1>9. CASE \E i \in 1 .. n : in[i] = 0
  <2>1. n >= 1 /\ in[n] = 0 /\ \A i \in 1 .. n - 1 : in[i] # 0
    <3>1. PICK i \in 1 .. n : in[i] = 0
      BY <1>9
    <3>2. \A j \in 1 .. n : in[j] = 0 => j = n
      BY DEF EndsFrame, n
    <3>3. \A j \in 1 .. n - 1 : j \in 1 .. n /\ j # n
      BY <1>1
    <3>4. n >= 1
      BY <1>1, <3>1
    <3> QED BY <3>1, <3>2, <3>3, <3>4
  <2>2. n - 1 \in 0 .. n /\ n \in 1 .. n
    BY <1>1, <2>1
  <2> DEFINE s == r[n - 1]
             k == Len(s)
             z == <<0>>
             c == Cooked(in)
  <2>3. Pure(s) /\ s \in Seq(Int)
    BY <1>4, <1>6, <2>1, <2>2
  <2>4. c = s \o z
    <3>1. CookedByte(in[n]) = <<0>>
      BY <1>1, <2>1, <2>2, CookedByteIs
    <3>2. r[n] = CookedPut(r[n - 1], in[n])
      BY <1>2, <2>2
    <3> QED BY <1>2, <3>1, <3>2 DEF CookedPut
  <2>5. z \in Seq(Int) /\ Len(z) = 1
    OBVIOUS
  <2>6. \A j \in 1 .. k : s[j] # 0
    BY <2>3 DEF Pure
  <2> HIDE DEF s, z, c
  <2>7. k \in Nat
    BY <2>3, LenProperties
  <2>8. /\ Len(s \o z) = k + 1
        /\ \A j \in 1 .. k + 1 : (s \o z)[j] = IF j <= k THEN s[j] ELSE z[j - k]
    <3>1. /\ Len(s \o z) = k + Len(z)
          /\ \A j \in 1 .. k + Len(z) : (s \o z)[j] = IF j <= k THEN s[j] ELSE z[j - k]
      BY <2>3, <2>5, ConcatProperties
    <3> HIDE DEF k
    <3> QED BY <2>5, <3>1
  <2> HIDE DEF k
  <2>9. ASSUME NEW j \in 1 .. Len(c), c[j] = 0 PROVE j = Len(c)
    <3>1. j \in 1 .. k \/ j = k + 1
      BY <2>4, <2>7, <2>8
    <3>2. CASE j \in 1 .. k
      <4>1. j <= k /\ j \in 1 .. k + 1
        BY <2>7, <3>2
      <4> QED BY <2>4, <2>6, <2>8, <2>9, <3>2, <4>1
    <3> QED BY <2>4, <2>8, <3>1, <3>2
  <2>10. EndsFrame(c)
    BY <2>9 DEF EndsFrame
  <2>11. ~(\A i \in 1 .. n : in[i] # 0)
    BY <1>9
  <2> QED BY <1>7, <2>10, <2>11 DEF c, n
<1> QED BY <1>8, <1>9

LEMMA SentIs ==
  ASSUME NEW in \in Seq(Int), EndsFrame(in), Len(order) \in Nat
  PROVE  /\ Sent(in) \in Seq(Bytes)
         /\ \A b \in Range(Sent(in)) : b[2] = Len(order)
         /\ Sorted(Sent(in))
         /\ (\A i \in 1 .. Len(in) : in[i] # 0) =>
              \A b \in Range(Sent(in)) : b[1] # 0
<1> DEFINE s == IF port = "cooked" THEN Cooked(in) ELSE in
           l == Len(s)
           m == Len(order)
           t == [i \in 1 .. l |-> <<s[i], m>>]
<1>1. /\ s \in Seq(Int) /\ (\A i \in 1 .. l : s[i] = 0 => i = l)
      /\ ((\A i \in 1 .. Len(in) : in[i] # 0) => \A i \in 1 .. l : s[i] # 0)
  BY CookedEnds DEF EndsFrame
<1>2. Sent(in) = t
  BY DEF Sent
<1> HIDE DEF s
<1>3. l \in Nat /\ \A i \in 1 .. l : s[i] \in Int
  BY <1>1, LenProperties
<1> HIDE DEF l
<1>4. m \in Nat
  OBVIOUS
<1> HIDE DEF m
<1>5. t \in [1 .. l -> Bytes]
  BY <1>3, <1>4 DEF Bytes
<1>6. t \in Seq(Bytes) /\ Len(t) = l /\ \A i \in 1 .. l : t[i] = <<s[i], m>>
  <2>1. \A i \in 1 .. l : t[i] = <<s[i], m>>
    OBVIOUS
  <2> HIDE DEF t
  <2> QED BY <1>3, <1>5, <2>1
<1> HIDE DEF t
<1>7. \A i \in 1 .. l : t[i][1] = s[i] /\ t[i][2] = m
  BY <1>6
<1>8. \A b \in Range(t) : \E i \in 1 .. l : b = t[i]
  BY <1>6, RangeIs
<1>9. Sorted(t)
  <2> SUFFICES ASSUME NEW i \in 1 .. l, NEW j \in 1 .. l, i < j
               PROVE  InOrder(t[i], t[j])
    BY <1>6 DEF Sorted
  <2>1. s[i] # 0
    BY <1>1, <1>3
  <2> QED BY <1>4, <1>7, <2>1 DEF InOrder
<1>10. \A b \in Range(t) : b[2] = m
  BY <1>7, <1>8
<1>11. (\A i \in 1 .. l : s[i] # 0) => \A b \in Range(t) : b[1] # 0
  BY <1>7, <1>8
<1>12. (\A i \in 1 .. Len(in) : in[i] # 0) => \A b \in Range(t) : b[1] # 0
  BY <1>1, <1>11
<1> QED BY <1>2, <1>6, <1>9, <1>10, <1>12 DEF m

-----------------------------------------------------------------------------
(* The inductive invariant of the path.                                    *)

WriterStates ==
  [pc : {"idle", "lock", "write"}, cmd : Cmds \cup {None}, rest : Seq(Int)]

(* Who writes has the lock, and what it has left to write ends its frame.  *)
WriterOK ==
  /\ writer \in [Writers -> WriterStates]
  /\ \A w \in Writers :
       /\ EndsFrame(writer[w].rest)
       /\ writer[w].pc = "lock" => writer[w].cmd \in Cmds
       /\ writer[w].pc = "write" => write_mu_ = w

Writing == \E w \in Writers : writer[w].pc = "write"

PathTypes ==
  /\ rx_block \in Seq(Bytes) /\ rx_ring \in Seq(Bytes) /\ wire \in Seq(Bytes)
  /\ Len(rx_ring) <= RING
  /\ order \in Seq(Seq(Int))
  /\ last \in 0 .. Len(order) /\ received \in Nat

\* The block is ahead of the ring, and the ring of the wire.
Ordered ==
  /\ Sorted(rx_ring) /\ Sorted(wire)
  /\ Ahead(rx_block, rx_ring) /\ Ahead(rx_block, wire) /\ Ahead(rx_ring, wire)

(* What is on its way belongs to frames behind the last one dispatched.    *)
Fresh ==
  \A b \in Range(rx_block) \cup Range(rx_ring) \cup Range(wire) :
    last < b[2] /\ b[2] <= Len(order)

(* A frame that is being written has not got its delimiter yet.            *)
Unended ==
  Writing =>
    /\ last < Len(order)
    /\ \A b \in Range(rx_block) \cup Range(rx_ring) \cup Range(wire) :
         b[2] = Len(order) => b[1] # 0

BytesOK == PathTypes /\ Ordered /\ Fresh /\ Unended

IInv == WriterOK /\ BytesOK

LEMMA MinIs ==
  ASSUME NEW a \in Int, NEW b \in Int
  PROVE  Min({a, b}) = IF a <= b THEN a ELSE b
<1> DEFINE m == IF a <= b THEN a ELSE b
<1>1. m \in {a, b} /\ \A y \in {a, b} : m <= y
  OBVIOUS
<1>2. Min({a, b}) \in {a, b} /\ \A y \in {a, b} : Min({a, b}) <= y
  BY <1>1 DEF Min
<1> QED BY <1>2

LEMMA RangeEmpty == Range(<<>>) = {} /\ Sorted(<<>>) /\ \A S : <<>> \in Seq(S)
<1>1. \A S : <<>> \in Seq(S) /\ Len(<<>>) = 0
  BY EmptySeq
<1>2. Range(<<>>) = {}
  <2> DEFINE e == <<>>
  <2>1. e \in Seq(Int) /\ Len(e) = 0
    BY <1>1
  <2> HIDE DEF e
  <2>2. Range(e) = {e[i] : i \in 1 .. 0}
    BY <2>1, RangeIs
  <2>3. \A i \in 1 .. 0 : FALSE
    OBVIOUS
  <2> QED BY <2>2, <2>3 DEF e
<1>3. Sorted(<<>>)
  BY <1>1 DEF Sorted
<1> QED BY <1>1, <1>2, <1>3

LEMMA IdleIs == Idle \in WriterStates /\ EndsFrame(Idle.rest) /\ Idle.pc = "idle"
<1>1. Idle.pc = "idle" /\ Idle.rest = <<>> /\ Idle.cmd = None
  BY DEF Idle
<1>2. Idle \in WriterStates
  BY EmptySeq DEF Idle, WriterStates
<1>3. EndsFrame(<<>>)
  BY EmptySeq DEF EndsFrame
<1> QED BY <1>1, <1>2, <1>3

LEMMA PathInit == Init => IInv
<1> SUFFICES ASSUME Init PROVE IInv
  OBVIOUS
<1>1. Idle \in WriterStates /\ EndsFrame(Idle.rest) /\ Idle.pc = "idle"
  BY IdleIs
<1>2. writer = [w \in Writers |-> Idle]
  BY DEF Init
<1> HIDE DEF Idle
<1>3. WriterOK
  BY <1>1, <1>2 DEF WriterOK
<1>4. ~Writing
  BY <1>1, <1>2 DEF Writing
<1>5. rx_block = <<>> /\ rx_ring = <<>> /\ wire = <<>> /\ order = <<>>
      /\ last = 0 /\ received = 0
  BY DEF Init
<1>6. Len(order) = 0
  BY <1>5, EmptySeq
<1>7. PathTypes
  BY <1>5, <1>6, RangeEmpty, PathAssumption DEF PathTypes
<1>8. Ordered /\ Fresh
  BY <1>5, RangeEmpty DEF Ordered, Fresh, Ahead
<1> QED BY <1>3, <1>4, <1>7, <1>8 DEF IInv, BytesOK, Unended

(* A step that brings no bytes, and lets no writer begin.                  *)
LEMMA BytesLost ==
  ASSUME BytesOK,
         Range(rx_block)' \subseteq Range(rx_block), rx_block' \in Seq(Bytes),
         Range(rx_ring)' \subseteq Range(rx_ring), rx_ring' \in Seq(Bytes), Sorted(rx_ring)',
         Len(rx_ring)' <= RING,
         Range(wire)' \subseteq Range(wire), wire' \in Seq(Bytes), Sorted(wire)',
         UNCHANGED <<last, received, order>>, Writing' => Writing
  PROVE  BytesOK'
<1>1. PathTypes'
  BY DEF BytesOK, PathTypes
<1>2. Ordered'
  BY DEF BytesOK, Ordered, Ahead
<1>3. Fresh'
  BY DEF BytesOK, Fresh
<1>4. Unended'
  BY DEF BytesOK, Unended
<1> QED BY <1>1, <1>2, <1>3, <1>4 DEF BytesOK

(* One writer goes on.                                                     *)
LEMMA WriterMoves ==
  ASSUME WriterOK, NEW w \in Writers, NEW x \in WriterStates,
         writer' = [writer EXCEPT ![w] = x],
         EndsFrame(x.rest),
         x.pc = "lock" => x.cmd \in Cmds,
         x.pc = "write" => write_mu_' = w,
         \A v \in Writers \ {w} : writer[v].pc = "write" => write_mu_' = v
  PROVE  /\ WriterOK'
         /\ x.pc # "write" => (Writing' => Writing)
         /\ (\A v \in Writers \ {w} : writer[v].pc # "write") /\ x.pc # "write" => ~Writing'
<1>1. writer' \in [Writers -> WriterStates]
  BY DEF WriterOK
<1>2. writer'[w] = x /\ \A v \in Writers : v # w => writer'[v] = writer[v]
  BY DEF WriterOK
<1>3. ASSUME NEW v \in Writers
      PROVE  /\ EndsFrame(writer'[v].rest)
             /\ writer'[v].pc = "lock" => writer'[v].cmd \in Cmds
             /\ writer'[v].pc = "write" => write_mu_' = v
  <2>1. CASE v = w
    BY <1>2, <2>1
  <2>2. CASE v # w
    BY <1>2, <2>2 DEF WriterOK
  <2> QED BY <2>1, <2>2
<1>4. WriterOK'
  BY <1>1, <1>3 DEF WriterOK
<1>5. ASSUME x.pc # "write", Writing' PROVE Writing
  BY <1>2, <1>5 DEF Writing
<1>6. ASSUME \A v \in Writers \ {w} : writer[v].pc # "write", x.pc # "write" PROVE ~Writing'
  BY <1>2, <1>6 DEF Writing
<1> QED BY <1>4, <1>5, <1>6

LEMMA WriterStays ==
  ASSUME WriterOK, UNCHANGED <<writer, write_mu_>> PROVE WriterOK' /\ Writing' = Writing
BY DEF WriterOK, Writing

\* Nobody else writes.
LEMMA OneWrites ==
  ASSUME WriterOK, NEW w \in Writers, writer[w].pc = "write"
  PROVE  \A v \in Writers \ {w} : writer[v].pc # "write"
BY DEF WriterOK

-----------------------------------------------------------------------------
(* One lemma for each action.                                              *)

\* What neither writes nor takes bytes.
bytes == <<rx_block, rx_ring, wire, order, last, received>>

LEMMA BytesStay ==
  ASSUME BytesOK, UNCHANGED bytes, Writing' => Writing
  PROVE  BytesOK'
<1>1. /\ rx_block' = rx_block /\ rx_ring' = rx_ring /\ wire' = wire
      /\ UNCHANGED <<last, received, order>>
  BY DEF bytes
<1>2. rx_block \in Seq(Bytes) /\ rx_ring \in Seq(Bytes) /\ wire \in Seq(Bytes)
      /\ Sorted(rx_ring) /\ Sorted(wire) /\ Len(rx_ring) <= RING
  BY DEF BytesOK, PathTypes, Ordered
<1> QED BY <1>1, <1>2, BytesLost

LEMMA CallKeeps ==
  ASSUME IInv, NEW t \in Threads, NEW c \in Commands, Call(t, c)
  PROVE  IInv'
<1> DEFINE x == [pc |-> "lock", cmd |-> c, rest |-> <<>>]
<1>1. x \in WriterStates /\ EndsFrame(x.rest) /\ x.pc = "lock" /\ x.cmd \in Cmds
  <2>1. c \in Cmds /\ <<>> \in Seq(Int) /\ EndsFrame(<<>>)
    BY EmptySeq DEF Cmds, EndsFrame
  <2>2. x \in WriterStates
    BY <2>1 DEF WriterStates
  <2> QED BY <2>1, <2>2
<1>2. writer' = [writer EXCEPT ![t] = x] /\ write_mu_' = write_mu_ /\ t \in Writers
      /\ UNCHANGED bytes
  BY DEF Call, dongleVars, bytes, Writers
<1> HIDE DEF x
<1>3. WriterOK' /\ (Writing' => Writing)
  <2>1. \A v \in Writers \ {t} : writer[v].pc = "write" => write_mu_' = v
    BY <1>2 DEF IInv, WriterOK
  <2> QED BY <1>1, <1>2, <2>1, WriterMoves DEF IInv
<1> QED BY <1>2, <1>3, BytesStay DEF IInv

(* An older byte comes before those of the frame that is begun.            *)
LEMMA LockKeeps ==
  ASSUME IInv, NEW w \in Writers, Lock(w)
  PROVE  IInv' /\ (UNCHANGED <<Len(order), last, received>>
                   \/ (Len(order)' = Len(order) + 1 /\ UNCHANGED <<last, received>>))
<1>1. writer[w].cmd \in Cmds /\ UNCHANGED <<rx_block, rx_ring, wire, last, received>>
      /\ writer \in [Writers -> WriterStates]
  BY DEF Lock, IInv, WriterOK, dongleVars
<1>2. \A v \in Writers : writer[v].pc # "write"
  BY PathAssumption DEF IInv, WriterOK, Lock, LockFree, Writers
<1>3. CASE port = "closed"
  <2>1. writer' = [writer EXCEPT ![w] = Idle] /\ UNCHANGED order
    BY <1>3 DEF Lock
  <2>2. WriterOK' /\ (Writing' => Writing)
    BY <1>2, <2>1, IdleIs, WriterMoves DEF IInv
  <2>3. BytesOK'
    BY <1>1, <2>1, <2>2, BytesStay DEF IInv, bytes
  <2> QED BY <1>1, <2>1, <2>2, <2>3 DEF IInv
<1>4. CASE port # "closed"
  <2> DEFINE c == writer[w].cmd
             x == [writer[w] EXCEPT !.pc = "write", !.rest = Frames[c]]
             p == Payload(c)
             l == Len(order)
  <2>1. Frames[c] \in Seq(Int) /\ EndsFrame(Frames[c]) /\ p \in Seq(Int)
    BY <1>1, FramesTyped
  <2>2. writer' = [writer EXCEPT ![w] = x] /\ write_mu_' = w /\ order' = Append(order, p)
    BY <1>1, <1>4 DEF Lock
  <2>3. x \in WriterStates /\ x.rest = Frames[c] /\ x.pc = "write"
    BY <1>1, <2>1 DEF WriterStates
  <2>4. WriterOK'
    <3> HIDE DEF x
    <3> QED BY <1>2, <2>1, <2>2, <2>3, WriterMoves DEF IInv
  <2> HIDE DEF x, p
  <2>5. /\ order \in Seq(Seq(Int)) /\ l \in Nat /\ last \in 0 .. l /\ received \in Nat
        /\ order' \in Seq(Seq(Int)) /\ Len(order') = l + 1
    <3>1. order \in Seq(Seq(Int)) /\ last \in 0 .. l /\ received \in Nat
      BY DEF IInv, BytesOK, PathTypes
    <3> QED BY <2>1, <2>2, <3>1, AppendProperties, LenProperties
  <2>6. \A b \in Range(rx_block) \cup Range(rx_ring) \cup Range(wire) : b \in Bytes
    BY RangeIs DEF IInv, BytesOK, PathTypes
  <2>7. \A b \in Range(rx_block) \cup Range(rx_ring) \cup Range(wire) :
          last < b[2] /\ b[2] <= l /\ b[2] \in Nat
    BY <2>6 DEF IInv, BytesOK, Fresh, Bytes
  <2> HIDE DEF l
  <2>8. \A b \in Range(rx_block) \cup Range(rx_ring) \cup Range(wire) :
          last < b[2] /\ b[2] <= l + 1 /\ b[2] # l + 1
    BY <2>5, <2>7
  <2>9. PathTypes'
    <3>1. last \in 0 .. l + 1
      BY <2>5
    <3> QED BY <1>1, <2>5, <3>1 DEF IInv, BytesOK, PathTypes
  <2>10. Ordered'
    BY <1>1 DEF IInv, BytesOK, Ordered
  <2>11. Fresh'
    BY <1>1, <2>5, <2>8 DEF Fresh
  <2>12. Unended'
    <3>1. last < l + 1
      BY <2>5
    <3> QED BY <1>1, <2>5, <2>8, <3>1 DEF Unended
  <2> QED BY <1>1, <2>4, <2>5, <2>9, <2>10, <2>11, <2>12 DEF IInv, BytesOK, l
<1> QED BY <1>3, <1>4

LEMMA WriteKeeps ==
  ASSUME IInv, NEW w \in Writers, Write(w)
  PROVE  IInv'
<1> DEFINE rest == writer[w].rest
           n == Len(rest)
           k == Min({n, WIRE - Len(wire)})
           piece == SubSeq(rest, 1, k)
           left == SubSeq(rest, k + 1, n)
           l == Len(order)
           t == Sent(piece)
<1>1. /\ writer \in [Writers -> WriterStates]
      /\ rest \in Seq(Int) /\ EndsFrame(rest)
      /\ wire \in Seq(Bytes) /\ Sorted(wire) /\ order \in Seq(Seq(Int))
  BY DEF IInv, WriterOK, WriterStates, BytesOK, PathTypes, Ordered
<1>2. /\ writer[w].pc = "write" /\ Len(wire) < WIRE
      /\ wire' = wire \o t
      /\ UNCHANGED <<rx_block, rx_ring, order, last, received>>
      /\ IF k = n
         THEN writer' = [writer EXCEPT ![w] = Idle] /\ write_mu_' = None
         ELSE writer' = [writer EXCEPT ![w].rest = SubSeq(@, k + 1, Len(@))]
              /\ UNCHANGED write_mu_
  BY DEF Write, dongleVars
<1>3. n \in Nat /\ l \in Nat /\ Len(wire) \in Nat /\ WIRE \in Nat
  BY <1>1, LenProperties, PathAssumption
<1>4. k \in 0 .. n
  <2> DEFINE m == WIRE - Len(wire)
  <2>1. m \in Nat
    BY <1>2, <1>3
  <2> HIDE DEF m, n
  <2>2. Min({n, m}) = IF n <= m THEN n ELSE m
    BY <1>3, <2>1, MinIs
  <2> QED BY <1>3, <2>1, <2>2 DEF m
<1> HIDE DEF k, rest, n
<1>5. \A i \in 1 .. n : rest[i] = 0 => i = n
  BY <1>1 DEF EndsFrame, n
<1>6. /\ piece \in Seq(Int) /\ Len(piece) = k /\ EndsFrame(piece)
      /\ k # n => \A i \in 1 .. k : piece[i] # 0
  <2>1. /\ piece \in Seq(Int) /\ Len(piece) = k
        /\ \A i \in 1 .. k : piece[i] = rest[i]
    <3>1. k \in 0 .. Len(rest)
      BY <1>4 DEF n
    <3> QED BY <1>1, <3>1, PrefixIs
  <2> HIDE DEF piece
  <2>2. \A i \in 1 .. k : i \in 1 .. n
    BY <1>3, <1>4
  <2>3. \A i \in 1 .. k : i = n => i = k
    BY <1>3, <1>4
  <2>4. \A i \in 1 .. k : piece[i] = 0 => i = k
    BY <1>5, <2>1, <2>2, <2>3
  <2>5. k # n => \A i \in 1 .. k : i # n
    BY <1>3, <1>4
  <2>6. k # n => \A i \in 1 .. k : piece[i] # 0
    BY <1>5, <2>1, <2>2, <2>5
  <2> QED BY <2>1, <2>4, <2>6 DEF EndsFrame
<1>7. left \in Seq(Int) /\ EndsFrame(left)
  <2>1. /\ left \in Seq(Int) /\ Len(left) = n - (k + 1) + 1
        /\ \A i \in 1 .. n - (k + 1) + 1 : left[i] = rest[k + 1 + i - 1]
    <3> DEFINE x == k + 1
    <3>1. x \in 1 .. n + 1 /\ n \in x - 1 .. n
      BY <1>3, <1>4
    <3> HIDE DEF x
    <3>2. n = Len(rest)
      BY DEF n
    <3>3. /\ SubSeq(rest, x, n) \in Seq(Int)
          /\ Len(SubSeq(rest, x, n)) = n - x + 1
          /\ \A i \in 1 .. n - x + 1 : SubSeq(rest, x, n)[i] = rest[x + i - 1]
      BY <1>1, <3>1, <3>2, PieceIs
    <3> QED BY <3>3 DEF x
  <2> HIDE DEF left
  <2>2. \A i \in 1 .. n - (k + 1) + 1 :
          k + 1 + i - 1 \in 1 .. n /\ (k + 1 + i - 1 = n => i = n - (k + 1) + 1)
    BY <1>3, <1>4
  <2> QED BY <1>5, <2>1, <2>2 DEF EndsFrame
<1> HIDE DEF piece, left
<1>8. /\ t \in Seq(Bytes) /\ Sorted(t)
      /\ \A b \in Range(t) : b[2] = l
      /\ k # n => \A b \in Range(t) : b[1] # 0
  BY <1>3, <1>6, SentIs
<1>9. WriterOK' /\ (k = n => ~Writing')
  <2>1. \A v \in Writers \ {w} : writer[v].pc # "write"
    BY <1>2, OneWrites DEF IInv
  <2>2. CASE k = n
    <3>1. writer' = [writer EXCEPT ![w] = Idle]
      BY <1>2, <2>2
    <3> QED BY <2>1, <3>1, IdleIs, WriterMoves DEF IInv
  <2>3. CASE k # n
    <3> DEFINE x == [writer[w] EXCEPT !.rest = left]
    <3>1. x \in WriterStates /\ x.pc = "write" /\ x.rest = left
      BY <1>1, <1>2, <1>7 DEF WriterStates
    <3>2. writer' = [writer EXCEPT ![w] = x]
      BY <1>1, <1>2, <2>3 DEF left, rest, n
    <3>3. write_mu_' = w
      BY <1>2, <2>3 DEF IInv, WriterOK
    <3> HIDE DEF x
    <3>4. WriterOK'
      BY <1>7, <2>1, <3>1, <3>2, <3>3, WriterMoves DEF IInv
    <3> QED BY <2>3, <3>4
  <2> QED BY <2>2, <2>3
<1> HIDE DEF t
<1> DEFINE All == Range(rx_block) \cup Range(rx_ring) \cup Range(wire)
<1>10. last < l /\ \A b \in All : b[2] = l => b[1] # 0
  BY <1>2 DEF IInv, BytesOK, Unended, Writing
<1>11. \A b \in All : last < b[2] /\ b[2] <= l
  BY DEF IInv, BytesOK, Fresh
<1>12. \A a \in All, b \in Range(t) : InOrder(a, b)
  <2>1. \A a \in All : a \in Bytes
    BY RangeIs DEF IInv, BytesOK, PathTypes
  <2>2. \A a \in All : a[2] \in Nat
    BY <2>1 DEF Bytes
  <2> HIDE DEF l, All
  <2>3. \A a \in All : a[2] <= l /\ (a[1] = 0 => a[2] < l)
    BY <1>3, <1>10, <1>11, <2>2
  <2> QED BY <1>8, <2>3 DEF InOrder
<1>13. /\ wire' \in Seq(Bytes) /\ Range(wire') \subseteq Range(wire) \cup Range(t)
       /\ Sorted(wire')
  <2>1. Ahead(wire, t)
    BY <1>12 DEF Ahead
  <2> QED BY <1>1, <1>2, <1>8, <2>1, SortedConcat
<1>14. PathTypes'
  BY <1>2, <1>13 DEF IInv, BytesOK, PathTypes
<1>15. Ordered'
  <2>1. Ahead(rx_block, wire') /\ Ahead(rx_ring, wire')
    BY <1>12, <1>13 DEF IInv, BytesOK, Ordered, Ahead
  <2> QED BY <1>2, <1>13, <2>1 DEF IInv, BytesOK, Ordered
<1>16. Fresh'
  <2>1. \A b \in Range(t) : last < b[2] /\ b[2] <= l
    <3> HIDE DEF l
    <3> QED BY <1>3, <1>8, <1>10
  <2> QED BY <1>2, <1>11, <1>13, <2>1 DEF Fresh
<1>17. Unended'
  <2> SUFFICES ASSUME Writing' PROVE Unended'
    BY DEF Unended
  <2>1. k # n
    BY <1>9
  <2> QED BY <1>2, <1>8, <1>10, <1>13, <2>1 DEF Unended
<1> QED BY <1>9, <1>14, <1>15, <1>16, <1>17 DEF IInv, BytesOK


LEMMA WriteFailsKeeps ==
  ASSUME IInv, NEW w \in Writers, WriteFails(w)
  PROVE  IInv'
<1>1. /\ writer[w].pc = "write" /\ writer' = [writer EXCEPT ![w] = Idle]
      /\ UNCHANGED bytes
  BY DEF WriteFails, dongleVars, bytes
<1>2. \A v \in Writers \ {w} : writer[v].pc # "write"
  BY <1>1, OneWrites DEF IInv
<1>3. WriterOK' /\ (Writing' => Writing)
  BY <1>1, <1>2, IdleIs, WriterMoves DEF IInv
<1> QED BY <1>1, <1>3, BytesStay DEF IInv

LEMMA WantsKeeps ==
  ASSUME IInv, NEW c \in {Hello, GetStats}, Wants(c), UNCHANGED write_mu_
  PROVE  WriterOK' /\ (Writing' => Writing)
<1> DEFINE x == [pc |-> "lock", cmd |-> c, rest |-> <<>>]
<1>1. x \in WriterStates /\ EndsFrame(x.rest) /\ x.pc = "lock" /\ x.cmd \in Cmds
  <2>1. c \in Cmds /\ <<>> \in Seq(Int) /\ EndsFrame(<<>>)
    BY EmptySeq DEF Cmds, EndsFrame
  <2>2. x \in WriterStates
    BY <2>1 DEF WriterStates
  <2> QED BY <2>1, <2>2
<1>2. writer' = [writer EXCEPT ![Reader] = x] /\ Reader \in Writers
  BY DEF Wants, Writers
<1> HIDE DEF x
<1>3. \A v \in Writers \ {Reader} : writer[v].pc = "write" => write_mu_' = v
  BY DEF IInv, WriterOK
<1> QED BY <1>1, <1>2, <1>3, WriterMoves DEF IInv

(* What is under way on the wire may be lost from its end.                 *)
LEMMA WireCut ==
  ASSUME IInv, NEW k \in 0 .. Len(wire), wire' = SubSeq(wire, 1, k),
         UNCHANGED <<rx_block, rx_ring, last, received, order>>, Writing' => Writing
  PROVE  BytesOK'
<1>1. wire \in Seq(Bytes) /\ Sorted(wire) /\ Sorted(rx_ring)
      /\ rx_block \in Seq(Bytes) /\ rx_ring \in Seq(Bytes) /\ Len(rx_ring) <= RING
  BY DEF IInv, BytesOK, PathTypes, Ordered
<1>2. 1 \in 1 .. Len(wire) + 1 /\ k \in 1 - 1 .. Len(wire)
  BY <1>1, LenProperties
<1>3. wire' \in Seq(Bytes) /\ Range(wire') \subseteq Range(wire) /\ Sorted(wire')
  BY <1>1, <1>2, SortedPiece
<1> QED BY <1>1, <1>3, BytesLost DEF IInv

LEMMA ConfigureKeeps == ASSUME IInv, Configure PROVE IInv'
<1>1. PICK k \in 0 .. Len(wire) : wire' = SubSeq(wire, 1, k)
  BY DEF Configure
<1>2. Wants(Hello) /\ UNCHANGED <<write_mu_, rx_block, rx_ring, last, received, order>>
  BY DEF Configure, dongleVars
<1>3. WriterOK' /\ (Writing' => Writing)
  BY <1>2, WantsKeeps
<1> QED BY <1>1, <1>2, <1>3, WireCut DEF IInv

LEMMA CloseKeeps == ASSUME IInv, Close PROVE IInv'
<1>1. PICK k \in 0 .. Len(wire) : wire' = SubSeq(wire, 1, k)
  BY DEF Close
<1>2. UNCHANGED <<writer, write_mu_, rx_block, rx_ring, last, received, order>>
  BY DEF Close, dongleVars
<1>3. WriterOK' /\ (Writing' => Writing)
  BY <1>2, WriterStays DEF IInv
<1> QED BY <1>1, <1>2, <1>3, WireCut DEF IInv

LEMMA ReadyKeeps == ASSUME IInv, Ready PROVE IInv'
<1>1. Wants(GetStats) /\ UNCHANGED write_mu_ /\ UNCHANGED bytes
  BY DEF Ready, dongleVars, bytes
<1>2. WriterOK' /\ (Writing' => Writing)
  BY <1>1, WantsKeeps
<1> QED BY <1>1, <1>2, BytesStay DEF IInv

LEMMA QuietKeeps ==
  ASSUME IInv, Open \/ OpenFails \/ Plug \/ UNCHANGED vars
  PROVE  IInv' /\ UNCHANGED bytes
<1>1. UNCHANGED <<writer, write_mu_>> /\ UNCHANGED bytes
  BY DEF Open, OpenFails, Plug, vars, dongleVars, bytes
<1>2. WriterOK' /\ (Writing' => Writing)
  BY <1>1, WriterStays DEF IInv
<1> QED BY <1>1, <1>2, BytesStay DEF IInv

LEMMA UnplugKeeps == ASSUME IInv, Unplug PROVE IInv'
<1>1. /\ UNCHANGED <<writer, write_mu_, last, received, order>>
      /\ wire' = <<>> /\ rx_ring' = <<>> /\ rx_block' = <<>>
  BY DEF Unplug
<1>2. WriterOK' /\ (Writing' => Writing)
  BY <1>1, WriterStays DEF IInv
<1>3. <<>> \in Seq(Bytes) /\ Sorted(<<>>) /\ Range(<<>>) = {} /\ Len(<<>>) <= RING
  BY RangeEmpty, EmptySeq, PathAssumption
<1>4. BytesOK'
  BY <1>1, <1>2, <1>3, BytesLost DEF IInv
<1> QED BY <1>2, <1>4 DEF IInv

(* Bytes go from the wire to the ring, as far as there is room.            *)
LEMMA IsrKeeps == ASSUME IInv, Isr PROVE IInv'
<1> DEFINE l == Len(wire)
           n == Min({l, FIFO})
           k == Min({n, RING - Len(rx_ring)})
           a == SubSeq(wire, 1, k)
           b == SubSeq(wire, n + 1, l)
<1>1. /\ rx_ring' = rx_ring \o a /\ wire' = b
      /\ UNCHANGED <<writer, write_mu_, rx_block, last, received, order>>
  BY DEF Isr
<1>2. /\ wire \in Seq(Bytes) /\ rx_ring \in Seq(Bytes) /\ rx_block \in Seq(Bytes)
      /\ Sorted(wire) /\ Sorted(rx_ring) /\ Ahead(rx_ring, wire)
      /\ Ahead(rx_block, rx_ring) /\ Ahead(rx_block, wire)
  BY DEF IInv, BytesOK, PathTypes, Ordered
<1>3. n \in 0 .. l /\ k \in 0 .. n
  <2> DEFINE m == RING - Len(rx_ring)
  <2>1. l \in Nat /\ FIFO \in Nat /\ m \in Nat
    BY <1>2, LenProperties, PathAssumption DEF IInv, BytesOK, PathTypes
  <2> HIDE DEF l, m
  <2>2. n = IF l <= FIFO THEN l ELSE FIFO
    BY <2>1, MinIs
  <2>3. n \in 0 .. l
    BY <2>1, <2>2
  <2> HIDE DEF n
  <2>4. Min({n, m}) = IF n <= m THEN n ELSE m
    BY <2>1, <2>3, MinIs
  <2> QED BY <2>1, <2>3, <2>4 DEF m
<1>4. /\ a \in Seq(Bytes) /\ Range(a) \subseteq Range(wire) /\ Sorted(a)
      /\ b \in Seq(Bytes) /\ Range(b) \subseteq Range(wire) /\ Sorted(b)
      /\ Ahead(a, b)
  <2> HIDE DEF n, k
  <2>1. l \in Nat
    BY <1>2, LenProperties
  <2>2. 1 \in 1 .. l + 1 /\ k \in 1 - 1 .. l /\ n + 1 \in 1 .. l + 1 /\ l \in (n + 1) - 1 .. l
    BY <1>3, <2>1
  <2>3. a \in Seq(Bytes) /\ Range(a) \subseteq Range(wire) /\ Sorted(a)
    BY <1>2, <2>2, SortedPiece
  <2>4. b \in Seq(Bytes) /\ Range(b) \subseteq Range(wire) /\ Sorted(b)
    BY <1>2, <2>2, SortedPiece
  <2>5. Ahead(a, b)
    BY <1>2, <1>3, FrontAhead
  <2> QED BY <2>3, <2>4, <2>5
<1> HIDE DEF a, b
<1>5. /\ rx_ring' \in Seq(Bytes) /\ Len(rx_ring') <= RING
      /\ Range(rx_ring') \subseteq Range(rx_ring) \cup Range(wire)
      /\ Range(rx_ring') \subseteq Range(rx_ring) \cup Range(a)
      /\ Sorted(rx_ring')
  <2>1. Ahead(rx_ring, a)
    BY <1>2, <1>4 DEF Ahead
  <2>2. Len(rx_ring') <= RING
    <3> DEFINE m == RING - Len(rx_ring)
    <3>1. l \in Nat /\ FIFO \in Nat /\ Len(rx_ring) \in Nat /\ RING \in Nat
      BY <1>2, LenProperties, PathAssumption
    <3>2. k <= m
      <4> HIDE DEF n
      <4>1. n \in Int /\ m \in Int
        BY <1>3, <3>1
      <4> HIDE DEF m
      <4>2. Min({n, m}) = IF n <= m THEN n ELSE m
        BY <4>1, MinIs
      <4> QED BY <4>1, <4>2 DEF m
    <3>3. Len(a) = k
      <4> HIDE DEF k, n
      <4>1. 1 \in 1 .. l + 1 /\ k \in 1 - 1 .. l /\ k - 1 + 1 = k
        BY <1>3, <3>1
      <4>2. Len(a) = k - 1 + 1
        BY <1>2, <4>1, PieceIs DEF a
      <4> QED BY <4>1, <4>2
    <3>4. Len(rx_ring') = Len(rx_ring) + Len(a)
      BY <1>1, <1>2, <1>4, ConcatProperties
    <3> HIDE DEF k
    <3>5. k \in Int
      BY <1>3, <3>1
    <3> QED BY <3>1, <3>2, <3>3, <3>4, <3>5
  <2> QED BY <1>1, <1>2, <1>4, <2>1, <2>2, SortedConcat
<1>6. WriterOK' /\ (Writing' => Writing)
  BY <1>1, WriterStays DEF IInv
<1>7. PathTypes'
  BY <1>1, <1>4, <1>5 DEF IInv, BytesOK, PathTypes
<1>8. Ordered'
  BY <1>1, <1>2, <1>4, <1>5 DEF Ordered, Ahead
<1>9. Fresh'
  BY <1>1, <1>4, <1>5 DEF IInv, BytesOK, Fresh
<1>10. Unended'
  BY <1>1, <1>4, <1>5, <1>6 DEF IInv, BytesOK, Unended
<1> QED BY <1>6, <1>7, <1>8, <1>9, <1>10 DEF IInv, BytesOK

-----------------------------------------------------------------------------
(* The parser's block, and the theorem.                                    *)

LEMMA InBlockIs ==
  ASSUME IInv, NEW n \in InBlock
  PROVE  /\ \E b \in Range(rx_block) : n = b[2]
         /\ n \in 1 .. Len(order) /\ last < n /\ order[n] \in Seq(Int)
<1>1. rx_block \in Seq(Bytes) /\ order \in Seq(Seq(Int)) /\ last \in 0 .. Len(order)
  BY DEF IInv, BytesOK, PathTypes
<1>2. PICK i \in DOMAIN rx_block : n = rx_block[i][2]
  BY DEF InBlock
<1>3. rx_block[i] \in Range(rx_block) /\ rx_block[i] \in Bytes
  BY <1>1, <1>2, RangeIs, LenProperties, ElementOfSeq
<1>4. last < n /\ n <= Len(order) /\ n \in Nat
  BY <1>2, <1>3 DEF IInv, BytesOK, Fresh, Bytes
<1>5. Len(order) \in Nat
  BY <1>1, LenProperties
<1>6. n \in 1 .. Len(order)
  BY <1>1, <1>4, <1>5
<1> QED BY <1>1, <1>2, <1>3, <1>4, <1>6, ElementOfSeq

(* A whole frame is decoded to what it was made from.                      *)
LEMMA WholeIs ==
  ASSUME IInv, rx_block # <<>>, ~Damaged
  PROVE  \E n \in InBlock : order[n] = htk_frame_decode(BlockBytes)
<1>1. PICK n \in InBlock : BlockBytes = Front(htk_frame_encode(order[n]))
  BY DEF Damaged
<1> DEFINE p == order[n]
           f == htk_frame_encode(p)
<1>2. p \in Seq(Int)
  BY InBlockIs
<1>3. f # <<>>
  <2> SUFFICES ASSUME f = <<>> PROVE FALSE
    OBVIOUS
  <2>1. Len(BlockBytes) = 0
    <3> DEFINE e == <<>>
    <3>1. e \in Seq(Int) /\ Len(e) = 0
      BY EmptySeq
    <3>2. BlockBytes = SubSeq(e, 1, Len(e) - 1)
      BY <1>1 DEF Front
    <3> HIDE DEF e
    <3>3. SubSeq(e, 1, 0 - 1) = <<>>
      BY SubSeqEmpty
    <3> QED BY <3>1, <3>2, <3>3, EmptySeq
  <2>2. Len(BlockBytes) = Len(rx_block) /\ Len(rx_block) # 0
    <3>1. rx_block \in Seq(Bytes)
      BY DEF IInv, BytesOK, PathTypes
    <3> DEFINE l == Len(rx_block)
               g == [i \in 1 .. l |-> rx_block[i][1]]
    <3>2. l \in Nat /\ l # 0
      BY <3>1, LenProperties, EmptySeq
    <3>3. BlockBytes = g
      BY DEF BlockBytes
    <3> HIDE DEF l
    <3>4. g \in Seq({rx_block[i][1] : i \in 1 .. l}) /\ Len(g) = l
      BY <3>2
    <3> QED BY <3>2, <3>3, <3>4 DEF l
  <2> QED BY <2>1, <2>2
<1>4. Len(p) \in 1 .. MAX_PAYLOAD
  BY <1>2, <1>3, EncodesTyped
<1>5. htk_frame_decode(Front(f)) = p
  <2> HIDE DEF p
  <2> QED BY <1>2, <1>4, FrameRoundTrip
<1> QED BY <1>1, <1>5

LEMMA SaysIs ==
  ASSUME IInv, NEW p, NEW n \in InBlock, order[n] = p
  PROVE  Says(p) \in InBlock
<1> DEFINE S == {m \in InBlock : order[m] = p}
           s == {0} \cup S
           l == Len(order)
<1>1. l \in Nat
  BY LenProperties DEF IInv, BytesOK, PathTypes
<1>2. \A m \in InBlock : m \in 1 .. l
  BY InBlockIs
<1>3. s \in SUBSET (0 .. l) /\ s # {}
  <2> HIDE DEF l
  <2> QED BY <1>1, <1>2
<1>4. n \in s /\ n >= 1 /\ n \in Int
  <2> HIDE DEF l
  <2> QED BY <1>1, <1>2
<1>5. Says(p) = Max(s)
  BY DEF Says
<1> HIDE DEF s, l
<1>6. Max(s) \in s /\ \A y \in s : Max(s) >= y
  BY <1>1, <1>3, BoundedMax
<1>7. Max(s) # 0
  BY <1>4, <1>6
<1> QED BY <1>5, <1>6, <1>7 DEF s

(* A byte that is not a delimiter joins the block, if there is room.       *)
LEMMA PutKeeps ==
  ASSUME IInv, Work, Head(rx_ring)[1] # 0
  PROVE  IInv' /\ UNCHANGED <<order, last, received>>
<1> DEFINE h == Head(rx_ring)
<1>1. /\ rx_ring # <<>> /\ rx_ring' = Tail(rx_ring)
      /\ rx_block' = Append(rx_block, h) \/ rx_block' = rx_block
      /\ UNCHANGED <<writer, write_mu_, wire, order, last, received>>
  BY DEF Work
<1>2. /\ rx_ring \in Seq(Bytes) /\ rx_block \in Seq(Bytes) /\ Len(rx_ring) <= RING
      /\ Sorted(rx_ring) /\ Ahead(rx_ring, wire)
      /\ Ahead(rx_block, rx_ring) /\ Ahead(rx_block, wire)
  BY DEF IInv, BytesOK, PathTypes, Ordered
<1>3. /\ rx_ring' \in Seq(Bytes) /\ h \in Range(rx_ring)
      /\ Range(rx_ring') \subseteq Range(rx_ring)
      /\ Sorted(rx_ring') /\ \A b \in Range(rx_ring') : InOrder(h, b)
  BY <1>1, <1>2, HeadAhead
<1>4. Len(rx_ring') <= RING
  <2>1. Len(rx_ring') = Len(rx_ring) - 1 /\ Len(rx_ring) \in Nat
    BY <1>1, <1>2, HeadTailProperties, LenProperties
  <2> QED BY <1>2, <2>1, PathAssumption
<1>5. h \in Bytes
  BY <1>2, <1>3, RangeIs
<1> HIDE DEF h
<1>6. rx_block' \in Seq(Bytes) /\ Range(rx_block') \subseteq Range(rx_block) \cup {h}
  <2>1. /\ Append(rx_block, h) \in Seq(Bytes)
        /\ Range(Append(rx_block, h)) \subseteq Range(rx_block) \cup {h}
    BY <1>2, <1>5, RangeAppend
  <2> QED BY <1>1, <1>2, <2>1
<1>7. WriterOK' /\ (Writing' => Writing)
  BY <1>1, WriterStays DEF IInv
<1>8. PathTypes'
  BY <1>1, <1>3, <1>4, <1>6 DEF IInv, BytesOK, PathTypes
<1>9. Ordered'
  BY <1>1, <1>2, <1>3, <1>6 DEF IInv, BytesOK, Ordered, Ahead
<1>10. Fresh'
  BY <1>1, <1>3, <1>6 DEF IInv, BytesOK, Fresh
<1>11. Unended'
  BY <1>1, <1>3, <1>6, <1>7 DEF IInv, BytesOK, Unended
<1> QED BY <1>1, <1>7, <1>8, <1>9, <1>10, <1>11 DEF IInv, BytesOK

(* A delimiter: what the block is taken for is one of its own frames, and  *)
(* all that is behind the delimiter is of later frames.                    *)
LEMMA EndKeeps ==
  ASSUME IInv, DamageDetected, Work, Head(rx_ring)[1] = 0
  PROVE  /\ IInv' /\ UNCHANGED order
         /\ \/ UNCHANGED <<last, received>>
            \/ last' \in last + 1 .. Len(order) /\ received' = received + 1
<1> DEFINE h == Head(rx_ring)
           p == IF rx_block = <<>> \/ rx_block_overflow THEN <<>>
                ELSE htk_frame_decode(BlockBytes)
           m == Says(p)
<1>1. /\ plugged /\ rx_ring # <<>> /\ rx_ring' = Tail(rx_ring) /\ BlockEnd
      /\ UNCHANGED <<writer, write_mu_, wire, order>>
  BY DEF Work
<1>2. /\ rx_block' = <<>>
      /\ IF p # <<>> /\ Dispatches(p)
         THEN last' = m /\ received' = received + 1
         ELSE UNCHANGED <<last, received>>
  BY <1>1 DEF BlockEnd
<1>3. /\ rx_ring \in Seq(Bytes) /\ Len(rx_ring) <= RING /\ Sorted(rx_ring)
      /\ Ahead(rx_ring, wire) /\ Ahead(rx_block, rx_ring)
      /\ wire \in Seq(Bytes) /\ Sorted(wire)
  BY DEF IInv, BytesOK, PathTypes, Ordered
<1>4. /\ rx_ring' \in Seq(Bytes) /\ h \in Range(rx_ring)
      /\ Range(rx_ring') \subseteq Range(rx_ring)
      /\ Sorted(rx_ring') /\ \A b \in Range(rx_ring') : InOrder(h, b)
  BY <1>1, <1>3, HeadAhead
<1>5. Len(rx_ring') <= RING
  <2>1. Len(rx_ring') = Len(rx_ring) - 1 /\ Len(rx_ring) \in Nat
    BY <1>1, <1>3, HeadTailProperties, LenProperties
  <2> QED BY <1>3, <2>1, PathAssumption
<1>6. rx_block' \in Seq(Bytes) /\ Range(rx_block') = {}
  BY <1>2, RangeEmpty
<1>7. WriterOK' /\ (Writing' => Writing)
  BY <1>1, WriterStays DEF IInv
<1>8. CASE ~(p # <<>> /\ Dispatches(p))
  <2>1. UNCHANGED <<last, received>>
    BY <1>2, <1>8
  <2>2. BytesOK'
    BY <1>1, <1>3, <1>4, <1>5, <1>6, <1>7, <2>1, BytesLost DEF IInv
  <2> QED BY <1>1, <1>7, <2>1, <2>2 DEF IInv
<1>9. CASE p # <<>> /\ Dispatches(p)
  <2>1. p = htk_frame_decode(BlockBytes) /\ rx_block # <<>> /\ ~rx_block_overflow
    BY <1>9
  <2>2. \E n \in InBlock : order[n] = p
    <3>1. CASE Damaged
      <4> HIDE DEF p
      <4> QED BY <1>1, <1>9, <2>1, <3>1 DEF DamageDetected
    <3>2. CASE ~Damaged
      <4> HIDE DEF p
      <4> QED BY <2>1, <3>2, WholeIs
    <3> QED BY <3>1, <3>2
  <2>3. last' = m /\ received' = received + 1
    BY <1>2, <1>9
  <2> HIDE DEF p
  <2>4. m \in InBlock
    BY <2>2, SaysIs
  <2> HIDE DEF m
  <2>5. PICK x \in Range(rx_block) : m = x[2]
    BY <2>4, InBlockIs
  <2>6. m \in 1 .. Len(order) /\ last < m /\ last \in Nat /\ received \in Nat
        /\ Len(order) \in Nat
    BY <2>4, InBlockIs, LenProperties DEF IInv, BytesOK, PathTypes
  <2>7. m <= h[2]
    BY <1>3, <1>4, <2>5 DEF Ahead, InOrder
  <2>8. h[2] <= Len(order) /\ h[1] = 0 /\ h[2] \in Nat
    <3>1. h \in Bytes
      BY <1>3, <1>4, RangeIs
    <3> QED BY <1>4, <3>1 DEF IInv, BytesOK, Fresh, Bytes
  <2> HIDE DEF h
  <2>9. \A b \in Range(rx_ring') \cup Range(wire) : m < b[2] /\ b[2] <= Len(order)
    <3>1. \A b \in Range(rx_ring') \cup Range(wire) : h[2] < b[2]
      BY <1>3, <1>4, <2>8 DEF Ahead, InOrder
    <3>2. \A b \in Range(rx_ring') \cup Range(wire) : b[2] <= Len(order)
      BY <1>4 DEF IInv, BytesOK, Fresh
    <3>3. \A b \in Range(rx_ring') \cup Range(wire) : b[2] \in Nat
      <4>1. \A b \in Range(rx_ring') \cup Range(wire) : b \in Bytes
        BY <1>3, <1>4, RangeIs
      <4> QED BY <4>1 DEF Bytes
    <3> QED BY <2>6, <2>7, <2>8, <3>1, <3>2, <3>3
  <2>10. PathTypes'
    <3>1. received + 1 \in Nat /\ m \in 0 .. Len(order)
      BY <2>6
    <3> QED BY <1>1, <1>3, <1>4, <1>5, <1>6, <2>3, <3>1 DEF IInv, BytesOK, PathTypes
  <2>11. Ordered'
    BY <1>1, <1>3, <1>4, <1>6 DEF Ordered, Ahead
  <2>12. Fresh'
    BY <1>1, <1>6, <2>3, <2>9 DEF Fresh
  <2>13. Unended'
    <3> SUFFICES ASSUME Writing' PROVE Unended'
      BY DEF Unended
    <3>1. \A b \in Range(rx_ring) \cup Range(wire) : b[2] = Len(order) => b[1] # 0
      BY <1>7 DEF IInv, BytesOK, Unended
    <3>2. h[2] # Len(order)
      BY <1>4, <2>8, <3>1
    <3>3. m < Len(order)
      BY <2>6, <2>7, <2>8, <3>2
    <3> QED BY <1>1, <1>4, <1>6, <2>3, <3>1, <3>3 DEF Unended
  <2>14. last' \in last + 1 .. Len(order)
    BY <2>3, <2>6
  <2> QED BY <1>1, <1>7, <2>3, <2>10, <2>11, <2>12, <2>13, <2>14 DEF IInv, BytesOK
<1> QED BY <1>8, <1>9

LEMMA PathStep ==
  ASSUME IInv, DamageDetected, [Next]_vars
  PROVE  IInv' /\ [Channel!Next]_<<Len(order), last, received>>
<1> USE DEF Channel!Next, Channel!Accept, Channel!Arrive
<1>1. CASE \E t \in Threads, c \in Commands : Call(t, c)
  <2>1. UNCHANGED <<order, last, received>>
    BY <1>1 DEF Call, dongleVars
  <2> QED BY <1>1, <2>1, CallKeeps
<1>2. CASE \E w \in Writers : Lock(w)
  BY <1>2, LockKeeps
<1>3. CASE \E w \in Writers : Write(w)
  <2>1. UNCHANGED <<order, last, received>>
    BY <1>3 DEF Write, dongleVars
  <2> QED BY <1>3, <2>1, WriteKeeps
<1>4. CASE \E w \in Writers : WriteFails(w)
  <2>1. UNCHANGED <<order, last, received>>
    BY <1>4 DEF WriteFails, dongleVars
  <2> QED BY <1>4, <2>1, WriteFailsKeeps
<1>5. CASE Open \/ OpenFails \/ Plug \/ UNCHANGED vars
  <2>1. IInv' /\ UNCHANGED <<order, last, received>>
    BY <1>5, QuietKeeps DEF bytes
  <2> QED BY <2>1
<1>6. CASE Configure \/ Ready \/ Close \/ Isr \/ Unplug
  <2>1. UNCHANGED <<order, last, received>>
    BY <1>6 DEF Configure, Ready, Close, Isr, Unplug, dongleVars
  <2> QED BY <1>6, <2>1, ConfigureKeeps, ReadyKeeps, CloseKeeps, IsrKeeps, UnplugKeeps
<1>7. CASE Work
  <2>1. CASE Head(rx_ring)[1] = 0
    BY <1>7, <2>1, EndKeeps
  <2>2. CASE Head(rx_ring)[1] # 0
    BY <1>7, <2>2, PutKeeps
  <2> QED BY <2>1, <2>2
<1> QED BY <1>1, <1>2, <1>3, <1>4, <1>5, <1>6, <1>7 DEF Next, Return

(* While damage is detected, the dongle executes commands in the order in  *)
(* which their writers had the lock, each at most once and none that was   *)
(* not written, for any threads and commands, any room on the wire and in  *)
(* the ring, and any number of frames, port losses and unplugs.            *)
THEOREM CommandsAreInOrder == Spec /\ []DamageDetected => CommandsInOrder
<1>1. Init => Channel!Init
  BY EmptySeq DEF Init, Channel!Init
<1>2. IInv /\ DamageDetected /\ [Next]_vars
        => IInv' /\ [Channel!Next]_<<Len(order), last, received>>
  BY PathStep
<1> QED BY <1>1, <1>2, PathInit, PTL DEF Spec, CommandsInOrder, Channel!Spec
=============================================================================
