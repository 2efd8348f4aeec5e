---------------------------- MODULE UsbPipeProofs ----------------------------
(***************************************************************************)
(* UsbPipe delivers frames in order and at most once, and whole, for every *)
(* length of frames, size of the ring and of the driver's buffer, and any  *)
(* number of producers, frames and bus events.                             *)
(*                                                                         *)
(* The block of the host's parser and the bytes of the driver are a piece  *)
(* of the stream that the dongle has written, and the frame in flight goes *)
(* on where they end.  A piece that was lost is missed at the beginning of *)
(* a port that the host opens, and nowhere else.                           *)
(***************************************************************************)
EXTENDS UsbPipe, SequenceTheorems, WellFoundedInduction, TLAPS

Bytes == {b \in Nat \X Nat \X Nat : b[2] \in 1 .. b[3]}

Frames == [n : Nat, len : Nat]

TypeOK ==
  /\ bus \in {"up", "reset", "suspended"}
  /\ tx_ring \in Seq(Frames)
  /\ tx_cur \in [n : Nat, len : Nat, off : Nat] /\ tx_cur.off <= tx_cur.len
  /\ cdc \in Seq(Bytes) /\ block \in Seq(Bytes)
  /\ accepted \in Nat /\ decoded \in Nat /\ received \in Nat
  /\ torn \in Nat /\ opens \in Nat

(* The ring holds the last frames accepted, and the frame in flight is the *)
(* one before them.                                                        *)
Queued ==
  /\ tx_cur.n + Len(tx_ring) = accepted
  /\ \A i \in 1 .. Len(tx_ring) : tx_ring[i].n = tx_cur.n + i
  /\ RingUsed(tx_ring) <= RING_SIZE

\* No byte of frame n is still to come.
Passed(n) == n < tx_cur.n \/ (n = tx_cur.n /\ CurDone)

(* Frames follow each other in the driver and in the parser, and what the  *)
(* host has decoded is behind all of them.                                 *)
Ordered ==
  /\ \A i \in 1 .. Len(cdc) :
       /\ decoded < cdc[i][1] /\ cdc[i][1] <= tx_cur.n
       /\ IsDelimiter(cdc[i]) => Passed(cdc[i][1])
       /\ block # <<>> => block[1][1] <= cdc[i][1]
  /\ \A i, j \in 1 .. Len(cdc) : i < j =>
       cdc[i][1] < cdc[j][1] \/ (cdc[i][1] = cdc[j][1] /\ ~IsDelimiter(cdc[i]))
  /\ block # <<>> => decoded < block[1][1] /\ block[1][1] <= tx_cur.n
  /\ Passed(decoded)

Successor(b) == <<b[1], b[2] + 1, b[3]>>

\* The byte c comes next after b.
Follows(b, c) == IF IsDelimiter(b) THEN c[2] = 1 ELSE c = Successor(b)

\* The frame in flight goes on after b.
Resumes(b) ==
  IF IsDelimiter(b) THEN tx_cur.off \in {0, tx_cur.len}
                    ELSE tx_cur = [n |-> b[1], len |-> b[3], off |-> b[2]]

Gapless(c) == \A i \in 1 .. Len(c) - 1 : Follows(c[i], c[i + 1])

\* Bytes of one frame, before its end.
OneFrame(b) ==
  \A i \in 1 .. Len(b) :
    b[i] = <<b[1][1], b[1][2] + (i - 1), b[1][3]>> /\ ~IsDelimiter(b[i])

(* There are no gaps, but the one that the loss of a port leaves until the *)
(* next is opened.                                                         *)
Contiguous ==
  /\ Gapless(cdc)
  /\ cdc # <<>> => Resumes(cdc[Len(cdc)])
  /\ OneFrame(block)
  /\ bus # "reset" /\ block # <<>> =>
       IF cdc # <<>> THEN Follows(block[Len(block)], cdc[1])
                     ELSE Resumes(block[Len(block)])

\* The block that the host is in begins where a frame does.
Aligned ==
  IF block # <<>> THEN block[1][2] = 1
  ELSE IF cdc # <<>> THEN cdc[1][2] = 1
  ELSE tx_cur.off \in {0, tx_cur.len}

(* The host is in the middle of a frame once for each port at most.        *)
Tearing ==
  /\ torn <= opens
  /\ bus # "reset" /\ torn = opens => Aligned

IInv == TypeOK /\ Queued /\ Ordered /\ Contiguous /\ Tearing

-----------------------------------------------------------------------------
LEMMA ConstantTypes ==
  /\ Lens \subseteq Nat /\ \A len \in Lens : len > 1
  /\ RING_SIZE \in Nat
  /\ CDC_SIZE \in Nat /\ CDC_SIZE > 0
BY PipeAssumption

(* The space that the ring uses is the sum over its frames: the recursion  *)
(* has a solution, and a frame more or less changes it by what it takes.   *)

LEMMA UpTo ==
  ASSUME NEW n \in Nat, NEW T, 0 \in T, \A i \in 0 .. n - 1 : i \in T => i + 1 \in T
  PROVE  \A i \in 0 .. n : i \in T
<1> DEFINE R == OpToRel(<, Nat)
           B == (0 .. n) \ T
<1>1. IsWellFoundedOn(R, Nat)
  BY NatLessThanWellFounded
<1>2. \A x, y \in Nat : y < x => <<y, x>> \in R
  BY DEF OpToRel
<1> HIDE DEF R
<1>3. SUFFICES ASSUME B # {} PROVE FALSE
  OBVIOUS
<1>4. PICK x \in B : \A y \in B : ~(<<y, x>> \in R)
  <2>1. B \subseteq Nat
    OBVIOUS
  <2> HIDE DEF B
  <2> QED BY <1>1, <1>3, <2>1, WFMin
<1>5. x \in 1 .. n /\ x - 1 \in 0 .. n - 1
  OBVIOUS
<1>6. x - 1 \notin B
  <2>1. x \in Nat /\ x - 1 \in Nat /\ x - 1 < x
    BY <1>5
  <2>2. <<x - 1, x>> \in R
    BY <1>2, <2>1
  <2> HIDE DEF B
  <2> QED BY <1>4, <2>2
<1> QED BY <1>4, <1>5, <1>6

Sums(ring, u) ==
  u = [i \in 0 .. Len(ring) |-> IF i = 0 THEN 0 ELSE u[i - 1] + ring[i].len + 1]

LEMMA SumsExist ==
  ASSUME NEW ring \in Seq(Frames)
  PROVE  \E u : Sums(ring, u)
<1> DEFINE Upto(n, u) ==
             u = [i \in 0 .. n |-> IF i = 0 THEN 0 ELSE u[i - 1] + ring[i].len + 1]
           T == {n \in Nat : \E u : Upto(n, u)}
<1>1. Len(ring) \in Nat
  BY LenProperties
<1>2. 0 \in T
  <2>1. Upto(0, [i \in 0 .. 0 |-> 0])
    OBVIOUS
  <2> QED BY <2>1
<1>3. ASSUME NEW n \in 0 .. Len(ring) - 1, n \in T PROVE n + 1 \in T
  <2>1. PICK u : Upto(n, u)
    BY <1>3
  <2> DEFINE v == [i \in 0 .. n + 1 |->
                     IF i <= n THEN u[i] ELSE u[n] + ring[n + 1].len + 1]
  <2>2. ASSUME NEW i \in 0 .. n + 1
        PROVE  v[i] = IF i = 0 THEN 0 ELSE v[i - 1] + ring[i].len + 1
    <3>1. CASE i = 0
      BY <2>1, <3>1
    <3>2. CASE i \in 1 .. n
      <4>1. u[i] = u[i - 1] + ring[i].len + 1
        BY <2>1, <3>2
      <4> QED BY <3>2, <4>1
    <3>3. CASE i = n + 1
      BY <1>1, <3>3
    <3> QED BY <3>1, <3>2, <3>3
  <2>3. Upto(n + 1, v)
    BY <2>2, Zenon
  <2>4. n + 1 \in Nat
    BY <1>1
  <2> HIDE DEF v, Upto
  <2> QED BY <2>3, <2>4
<1> HIDE DEF T
<1>4. \A i \in 0 .. Len(ring) : i \in T
  BY <1>1, <1>2, <1>3, UpTo
<1>5. Len(ring) \in T
  BY <1>1, <1>4
<1> QED BY <1>5 DEF T, Sums

LEMMA RingUsedIs ==
  ASSUME NEW ring \in Seq(Frames)
  PROVE  \E u \in [0 .. Len(ring) -> Nat] :
           /\ RingUsed(ring) = u[Len(ring)]
           /\ u[0] = 0
           /\ \A i \in 1 .. Len(ring) : u[i] = u[i - 1] + ring[i].len + 1
<1>1. PICK u : Sums(ring, u) /\ RingUsed(ring) = u[Len(ring)]
  <2> DEFINE w == CHOOSE u : Sums(ring, u)
  <2>1. Sums(ring, w)
    BY SumsExist
  <2>2. RingUsed(ring) = w[Len(ring)]
    BY DEF RingUsed, Sums
  <2> QED BY <2>1, <2>2
<1>2. Len(ring) \in Nat
  BY LenProperties
<1>3. /\ u[0] = 0
      /\ \A i \in 1 .. Len(ring) : u[i] = u[i - 1] + ring[i].len + 1
  BY <1>1, <1>2 DEF Sums
<1> DEFINE T == {i \in 0 .. Len(ring) : u[i] \in Nat}
<1>4. \A i \in 0 .. Len(ring) : i \in T
  <2>1. 0 \in T
    BY <1>2, <1>3
  <2>2. ASSUME NEW i \in 0 .. Len(ring) - 1, i \in T PROVE i + 1 \in T
    <3>1. u[i + 1] = u[i] + ring[i + 1].len + 1
      BY <1>2, <1>3
    <3>2. ring[i + 1] \in Frames
      BY <1>2, ElementOfSeq
    <3> QED BY <1>2, <2>2, <3>1, <3>2 DEF Frames
  <2> HIDE DEF T
  <2> QED BY <1>2, <2>1, <2>2, UpTo
<1>5. u \in [0 .. Len(ring) -> Nat]
  BY <1>1, <1>4 DEF Sums
<1> QED BY <1>1, <1>3, <1>5

LEMMA RingUsedNat ==
  ASSUME NEW ring \in Seq(Frames)
  PROVE  RingUsed(ring) \in Nat
BY RingUsedIs, LenProperties

LEMMA RingUsedAppend ==
  ASSUME NEW ring \in Seq(Frames), NEW f \in Frames
  PROVE  RingUsed(Append(ring, f)) = RingUsed(ring) + f.len + 1
<1> DEFINE more == Append(ring, f)
<1>1. /\ more \in Seq(Frames) /\ Len(more) = Len(ring) + 1 /\ Len(ring) \in Nat
      /\ \A i \in 1 .. Len(ring) : more[i] = ring[i]
      /\ more[Len(ring) + 1] = f
  BY AppendProperties, LenProperties
<1>2. PICK u \in [0 .. Len(ring) -> Nat] :
        /\ RingUsed(ring) = u[Len(ring)] /\ u[0] = 0
        /\ \A i \in 1 .. Len(ring) : u[i] = u[i - 1] + ring[i].len + 1
  BY RingUsedIs
<1> HIDE DEF more
<1>3. PICK v \in [0 .. Len(more) -> Nat] :
        /\ RingUsed(more) = v[Len(more)] /\ v[0] = 0
        /\ \A i \in 1 .. Len(more) : v[i] = v[i - 1] + more[i].len + 1
  BY <1>1, RingUsedIs
<1> DEFINE T == {i \in 0 .. Len(ring) : u[i] = v[i]}
<1>4. \A i \in 0 .. Len(ring) : i \in T
  <2>1. 0 \in T
    BY <1>1, <1>2, <1>3
  <2>2. ASSUME NEW i \in 0 .. Len(ring) - 1, i \in T PROVE i + 1 \in T
    BY <1>1, <1>2, <1>3, <2>2
  <2> HIDE DEF T
  <2> QED BY <1>1, <2>1, <2>2, UpTo
<1>5. v[Len(ring)] = u[Len(ring)]
  BY <1>1, <1>4
<1>6. v[Len(more)] = v[Len(ring)] + f.len + 1
  BY <1>1, <1>3
<1> QED BY <1>2, <1>3, <1>5, <1>6 DEF more

LEMMA RingUsedTail ==
  ASSUME NEW ring \in Seq(Frames), ring # <<>>
  PROVE  RingUsed(Tail(ring)) <= RingUsed(ring)
<1> DEFINE less == Tail(ring)
<1>1. /\ less \in Seq(Frames) /\ Len(less) = Len(ring) - 1 /\ Len(ring) \in Nat
      /\ Len(less) \in Nat
      /\ \A i \in 1 .. Len(less) : less[i] = ring[i + 1]
  BY HeadTailProperties, LenProperties, EmptySeq
<1>2. PICK u \in [0 .. Len(ring) -> Nat] :
        /\ RingUsed(ring) = u[Len(ring)] /\ u[0] = 0
        /\ \A i \in 1 .. Len(ring) : u[i] = u[i - 1] + ring[i].len + 1
  BY RingUsedIs
<1> HIDE DEF less
<1>3. PICK v \in [0 .. Len(less) -> Nat] :
        /\ RingUsed(less) = v[Len(less)] /\ v[0] = 0
        /\ \A i \in 1 .. Len(less) : v[i] = v[i - 1] + less[i].len + 1
  BY <1>1, RingUsedIs
<1> DEFINE T == {i \in 0 .. Len(less) : v[i] <= u[i + 1]}
<1>4. \A i \in 0 .. Len(less) : i \in T
  <2>1. 0 \in T
    <3>1. 0 \in 0 .. Len(less) /\ 0 + 1 \in 0 .. Len(ring)
      BY <1>1
    <3> QED BY <1>2, <1>3, <3>1
  <2>2. ASSUME NEW i \in 0 .. Len(less) - 1, i \in T PROVE i + 1 \in T
    <3>1. ring[i + 2] \in Frames /\ less[i + 1] = ring[i + 2]
      <4>1. i + 1 \in 1 .. Len(less) /\ i + 2 \in 1 .. Len(ring) /\ (i + 1) + 1 = i + 2
        BY <1>1
      <4>2. less[i + 1] = ring[(i + 1) + 1]
        BY <1>1, <4>1
      <4> QED BY <4>1, <4>2, ElementOfSeq
    <3>2. /\ v[i + 1] = v[i] + ring[i + 2].len + 1
          /\ u[i + 2] = u[i + 1] + ring[i + 2].len + 1
      BY <1>1, <1>2, <1>3, <3>1
    <3>3. /\ v[i] \in Nat /\ u[i + 1] \in Nat /\ v[i] <= u[i + 1]
          /\ ring[i + 2].len \in Nat
      <4>1. i \in 0 .. Len(less) /\ i + 1 \in 0 .. Len(ring)
        BY <1>1
      <4> QED BY <2>2, <3>1, <4>1 DEF Frames
    <3> QED BY <1>1, <3>2, <3>3
  <2> HIDE DEF T
  <2> QED BY <1>1, <2>1, <2>2, UpTo
<1>5. v[Len(less)] <= u[Len(ring)]
  BY <1>1, <1>4
<1> QED BY <1>2, <1>3, <1>5 DEF less

-----------------------------------------------------------------------------
LEMMA InitIInv == Init => IInv
<1> SUFFICES ASSUME Init PROVE IInv
  OBVIOUS
<1> USE ConstantTypes DEF Init, NoFrame
<1>1. /\ \A S : <<>> \in Seq(S)
      /\ Len(<<>>) = 0
  BY EmptySeq
<1>2. RingUsed(tx_ring) = 0
  BY <1>1, RingUsedIs
<1>3. TypeOK
  BY <1>1 DEF TypeOK
<1>4. Queued
  BY <1>1, <1>2 DEF Queued
<1>5. Ordered
  BY <1>1 DEF Ordered, Passed, CurDone
<1>6. Contiguous
  BY <1>1 DEF Contiguous, Gapless, OneFrame
<1>7. Tearing
  BY DEF Tearing, Aligned
<1> QED BY <1>3, <1>4, <1>5, <1>6, <1>7 DEF IInv

(* The steps that touch no frame and no byte.                              *)
LEMMA QuietIInv ==
  ASSUME IInv,
         UNCHANGED <<tx_ring, tx_cur, cdc, accepted, block, decoded, received,
                     torn, opens>>,
         bus' \in {"up", "reset", "suspended"},
         bus = "reset" => bus' = "reset"
  PROVE  IInv'
<1>1. TypeOK'
  BY DEF IInv, TypeOK
<1>2. Queued'
  BY DEF IInv, Queued
<1>3. Ordered'
  BY DEF IInv, Ordered, Passed, CurDone, IsDelimiter
<1>4. Contiguous'
  BY DEF IInv, Contiguous, Resumes
<1>5. Tearing'
  BY DEF IInv, Tearing, Aligned
<1> QED BY <1>1, <1>2, <1>3, <1>4, <1>5 DEF IInv

LEMMA EnqueueIInv ==
  ASSUME IInv, NEW p \in Producers, Enqueue(p)
  PROVE  IInv'
<1> USE DEF Enqueue
<1>1. PICK len \in Lens :
        IF Fits(len)
        THEN /\ tx_ring' = Append(tx_ring, [n |-> accepted + 1, len |-> len])
             /\ accepted' = accepted + 1
        ELSE UNCHANGED <<tx_ring, accepted>>
  OBVIOUS
<1>2. CASE ~Fits(len)
  BY <1>1, <1>2, QuietIInv DEF IInv, TypeOK
<1>3. CASE Fits(len)
  <2> DEFINE f == [n |-> accepted + 1, len |-> len]
  <2>1. /\ tx_ring \in Seq(Frames) /\ Len(tx_ring) \in Nat /\ accepted \in Nat
        /\ len \in Nat
    BY LenProperties, ConstantTypes DEF IInv, TypeOK
  <2>2. f \in Frames /\ f.n = accepted + 1 /\ f.len = len
    BY <2>1 DEF Frames
  <2>3. tx_ring' = Append(tx_ring, f) /\ accepted' = accepted + 1
    BY <1>1, <1>3
  <2> HIDE DEF f
  <2>4. /\ tx_ring' \in Seq(Frames) /\ Len(tx_ring') = Len(tx_ring) + 1
        /\ \A i \in 1 .. Len(tx_ring) : tx_ring'[i] = tx_ring[i]
        /\ tx_ring'[Len(tx_ring) + 1] = f
    BY <2>1, <2>2, <2>3, AppendProperties
  <2>5. RingUsed(tx_ring') = RingUsed(tx_ring) + f.len + 1
    BY <2>1, <2>2, <2>3, RingUsedAppend
  <2>6. /\ UNCHANGED <<bus, tx_cur, cdc, block, decoded, received, torn, opens>>
        /\ accepted' \in Nat
    BY <2>1, <2>3
  <2>7. TypeOK'
    BY <2>4, <2>6 DEF IInv, TypeOK
  <2>8. Queued'
    <3>1. tx_cur.n \in Nat /\ tx_cur.n + Len(tx_ring) = accepted
          /\ \A i \in 1 .. Len(tx_ring) : tx_ring[i].n = tx_cur.n + i
      BY DEF IInv, TypeOK, Queued
    <3>2. RingUsed(tx_ring') <= RING_SIZE
      BY <1>3, <2>2, <2>5 DEF Fits
    <3>3. \A i \in 1 .. Len(tx_ring) + 1 : tx_ring'[i].n = tx_cur.n + i
      <4> TAKE i \in 1 .. Len(tx_ring) + 1
      <4>1. CASE i \in 1 .. Len(tx_ring)
        BY <2>1, <2>4, <3>1, <4>1
      <4>2. CASE i = Len(tx_ring) + 1
        BY <2>1, <2>2, <2>4, <3>1, <4>2
      <4> QED BY <2>1, <4>1, <4>2
    <3>4. tx_cur.n + (Len(tx_ring) + 1) = accepted + 1
      BY <2>1, <3>1
    <3> QED BY <2>3, <2>4, <2>6, <3>2, <3>3, <3>4, Zenon DEF Queued
  <2>9. Ordered'
    BY <2>6 DEF IInv, Ordered, Passed, CurDone, IsDelimiter
  <2>10. Contiguous'
    BY <2>6 DEF IInv, Contiguous, Resumes
  <2>11. Tearing'
    BY <2>6 DEF IInv, Tearing, Aligned
  <2> QED BY <2>7, <2>8, <2>9, <2>10, <2>11 DEF IInv
<1> QED BY <1>2, <1>3

(* The loss of a port, and the opening of the next: what is still in the   *)
(* driver is contiguous, whether it is dropped or not.                     *)
LEMMA PortIInv ==
  ASSUME IInv, HostReopen \/ BusReset \/ BusConfigure
  PROVE  IInv'
<1>1. /\ UNCHANGED <<tx_ring, tx_cur, accepted, decoded, received, torn>>
      /\ cdc' \in {cdc, <<>>}
      /\ bus' \in {"up", "reset", "suspended"}
      /\ \/ bus' = "reset" /\ block' = block /\ opens' = opens
         \/ block' = <<>> /\ opens' = opens + 1
  <2>1. CASE HostReopen
    BY <2>1 DEF HostReopen, IInv, TypeOK
  <2>2. CASE BusReset
    BY <2>2 DEF BusReset
  <2>3. CASE BusConfigure
    BY <2>3 DEF BusConfigure
  <2> QED BY <2>1, <2>2, <2>3
<1>2. /\ <<>> \in Seq(Bytes) /\ Len(<<>>) = 0
  BY EmptySeq
<1>3. TypeOK'
  <2>. opens' \in Nat
    BY <1>1 DEF IInv, TypeOK
  <2>1. cdc' \in Seq(Bytes) /\ block' \in Seq(Bytes)
    BY <1>1, <1>2 DEF IInv, TypeOK
  <2> QED BY <1>1, <2>1 DEF IInv, TypeOK
<1>4. Queued'
  BY <1>1 DEF IInv, Queued
<1>5. Ordered'
  <2>1. CASE cdc' = cdc
    BY <1>1, <2>1 DEF IInv, Ordered, Passed, CurDone, IsDelimiter
  <2>2. CASE cdc' = <<>>
    BY <1>1, <1>2, <2>2 DEF IInv, Ordered, Passed, CurDone, IsDelimiter
  <2> QED BY <1>1, <2>1, <2>2
<1>6. Contiguous'
  <2>1. Gapless(cdc') /\ (cdc' # <<>> => cdc' = cdc)
    BY <1>1, <1>2 DEF IInv, Contiguous, Gapless
  <2>2. (cdc # <<>> => Resumes(cdc[Len(cdc)]))'
    BY <1>1, <2>1 DEF IInv, Contiguous, Resumes
  <2>3. OneFrame(block')
    BY <1>1, <1>2 DEF IInv, Contiguous, OneFrame
  <2>4. ~(bus' # "reset" /\ block' # <<>>)
    BY <1>1
  <2> QED BY <2>1, <2>2, <2>3, <2>4, Zenon DEF Contiguous
<1>7. Tearing'
  BY <1>1 DEF IInv, TypeOK, Tearing
<1> QED BY <1>3, <1>4, <1>5, <1>6, <1>7 DEF IInv

-----------------------------------------------------------------------------
(* The host reads a byte.                                                  *)

LEMMA HeadIs ==
  ASSUME NEW S, NEW s \in Seq(S), s # <<>>
  PROVE  /\ Head(s) = s[1] /\ Len(s) \in Nat /\ Len(s) >= 1
         /\ s[1] \in S
         /\ Tail(s) \in Seq(S) /\ Len(Tail(s)) = Len(s) - 1
         /\ \A i \in 1 .. Len(s) - 1 : Tail(s)[i] = s[i + 1]
<1>1. Len(s) \in Nat /\ Len(s) # 0
  BY EmptySeq, LenProperties
<1>2. Head(s) = s[1]
  OBVIOUS
<1>3. s[1] \in S
  BY <1>1, ElementOfSeq
<1> QED BY <1>1, <1>2, <1>3, HeadTailProperties

LEMMA ByteIs ==
  ASSUME NEW b \in Bytes
  PROVE  /\ b = <<b[1], b[2], b[3]>>
         /\ b[1] \in Nat /\ b[2] \in Nat /\ b[3] \in Nat
         /\ 1 <= b[2] /\ b[2] <= b[3]
BY DEF Bytes

(* What is left of the driver's bytes, and where the block goes on.        *)
LEMMA ReadIs ==
  ASSUME IInv, HostRead
  PROVE  LET h == cdc[1]
         IN /\ cdc \in Seq(Bytes) /\ Len(cdc) \in Nat /\ Len(cdc) >= 1
            /\ h \in Bytes
            /\ cdc' \in Seq(Bytes) /\ Len(cdc') = Len(cdc) - 1
            /\ \A i \in 1 .. Len(cdc) - 1 : cdc'[i] = cdc[i + 1]
            /\ block \in Seq(Bytes) /\ Len(block) \in Nat
            /\ \/ /\ IsDelimiter(h) /\ block' = <<>>
                  /\ \/ decoded' = decoded /\ received' = received /\ torn' = torn
                     \/ /\ block # <<>>
                        /\ decoded' = block[1][1] /\ received' = received + 1
                        /\ torn' = torn
                     \/ /\ block # <<>> /\ ~Whole(block)
                        /\ decoded' = decoded /\ received' = received
                        /\ torn' = torn + 1
               \/ /\ ~IsDelimiter(h) /\ block' = Append(block, h)
                  /\ decoded' = decoded /\ received' = received /\ torn' = torn
            /\ bus = "up"
            /\ UNCHANGED <<bus, tx_ring, tx_cur, accepted, opens>>
<1>1. /\ cdc \in Seq(Bytes) /\ cdc # <<>> /\ block \in Seq(Bytes)
      /\ cdc' = Tail(cdc)
  BY DEF HostRead, IInv, TypeOK
<1>2. /\ Head(cdc) = cdc[1] /\ Len(cdc) \in Nat /\ Len(cdc) >= 1
      /\ cdc[1] \in Bytes
      /\ cdc' \in Seq(Bytes) /\ Len(cdc') = Len(cdc) - 1
      /\ \A i \in 1 .. Len(cdc) - 1 : cdc'[i] = cdc[i + 1]
  BY <1>1, HeadIs
<1>3. Len(block) \in Nat
  BY <1>1, LenProperties
<1>4. /\ bus = "up"
      /\ UNCHANGED <<bus, tx_ring, tx_cur, accepted, opens>>
      /\ block' = IF IsDelimiter(cdc[1]) THEN <<>> ELSE Append(block, cdc[1])
      /\ IF ~IsDelimiter(cdc[1]) \/ block = <<>>
         THEN UNCHANGED <<decoded, received, torn>>
         ELSE IF Whole(block)
         THEN decoded' = block[1][1] /\ received' = received + 1 /\ UNCHANGED torn
         ELSE torn' = torn + 1 /\ UNCHANGED <<decoded, received>>
  BY <1>2 DEF HostRead
<1> QED BY <1>1, <1>2, <1>3, <1>4, Zenon

LEMMA AppendIs ==
  ASSUME NEW h \in Bytes, NEW s \in Seq(Bytes), Len(s) \in Nat
  PROVE  /\ Append(s, h) \in Seq(Bytes) /\ Append(s, h) # <<>>
         /\ Len(Append(s, h)) = Len(s) + 1
         /\ \A i \in 1 .. Len(s) : Append(s, h)[i] = s[i]
         /\ Append(s, h)[Len(s) + 1] = h
         /\ s # <<>> => Len(s) >= 1 /\ Append(s, h)[1] = s[1]
         /\ s = <<>> => Len(s) = 0 /\ Append(s, h)[1] = h
<1>1. s # <<>> => Len(s) >= 1
  BY EmptySeq
<1>2. s = <<>> => Len(s) = 0
  BY EmptySeq
<1> QED BY <1>1, <1>2, AppendProperties

LEMMA ReadTypeOK ==
  ASSUME IInv, HostRead
  PROVE  TypeOK'
<1>1. /\ block' \in Seq(Bytes) /\ decoded' \in Nat
  <2>1. <<>> \in Seq(Bytes) /\ (block # <<>> => block[1] \in Bytes)
    BY ReadIs, EmptySeq, HeadIs
  <2>2. block # <<>> => block[1][1] \in Nat
    BY <2>1, ByteIs
  <2>3. Append(block, cdc[1]) \in Seq(Bytes)
    BY ReadIs, AppendIs
  <2>4. block' \in Seq(Bytes)
    BY <2>1, <2>3, ReadIs DEF IInv, TypeOK
  <2>5. decoded' \in Nat
    BY <2>2, ReadIs DEF IInv, TypeOK
  <2> QED BY <2>4, <2>5
<1>2. received' \in Nat /\ torn' \in Nat
  <2>1. received \in Nat /\ torn \in Nat
    BY DEF IInv, TypeOK
  <2>2. /\ received' = received \/ received' = received + 1
        /\ torn' = torn \/ torn' = torn + 1
    BY ReadIs
  <2> QED BY <2>1, <2>2
<1> QED BY <1>1, <1>2, ReadIs DEF IInv, TypeOK

(* Of two bytes that are left, the earlier is of the earlier frame or goes *)
(* before in the same; so what has been decoded is behind both.            *)
LEMMA ReadOrdered ==
  ASSUME IInv, HostRead
  PROVE  Ordered'
<1> DEFINE h == cdc[1]
<1>1. /\ Len(cdc) \in Nat /\ Len(cdc) >= 1 /\ h \in Bytes
      /\ Len(cdc') = Len(cdc) - 1
      /\ \A i \in 1 .. Len(cdc) - 1 : cdc'[i] = cdc[i + 1]
      /\ cdc \in Seq(Bytes) /\ tx_cur' = tx_cur
      /\ block \in Seq(Bytes) /\ Len(block) \in Nat
      /\ tx_cur.n \in Nat /\ decoded \in Nat
  BY ReadIs DEF IInv, TypeOK
<1>2. Ordered
  BY DEF IInv
<1>3. \A i \in 1 .. Len(cdc) : cdc[i] \in Bytes /\ cdc[i][1] \in Nat
  BY <1>1, ElementOfSeq, ByteIs
<1>4. /\ decoded < h[1] /\ h[1] <= tx_cur.n /\ h[1] \in Nat
      /\ IsDelimiter(h) => Passed(h[1])
      /\ block # <<>> => /\ block[1][1] \in Nat
                         /\ decoded < block[1][1] /\ block[1][1] <= h[1]
  <2>1. block # <<>> => block[1][1] \in Nat
    BY <1>1, HeadIs, ByteIs
  <2> QED BY <1>1, <1>2, <1>3, <2>1 DEF Ordered
<1>5. \A i \in 1 .. Len(cdc) - 1 :
        h[1] < cdc'[i][1] \/ (h[1] = cdc'[i][1] /\ ~IsDelimiter(h))
  BY <1>1, <1>2 DEF Ordered
<1>6. \A i \in 1 .. Len(cdc) - 1 :
        /\ cdc'[i][1] \in Nat /\ cdc'[i][1] <= tx_cur.n
        /\ IsDelimiter(cdc'[i]) => Passed(cdc'[i][1])
  <2> TAKE i \in 1 .. Len(cdc) - 1
  <2>1. i + 1 \in 1 .. Len(cdc) /\ cdc'[i] = cdc[i + 1]
    BY <1>1
  <2> QED BY <1>2, <1>3, <2>1 DEF Ordered
<1>7. \A i, j \in 1 .. Len(cdc) - 1 : i < j =>
        cdc'[i][1] < cdc'[j][1] \/ (cdc'[i][1] = cdc'[j][1] /\ ~IsDelimiter(cdc'[i]))
  <2> SUFFICES ASSUME NEW i \in 1 .. Len(cdc) - 1, NEW j \in 1 .. Len(cdc) - 1, i < j
               PROVE  \/ cdc'[i][1] < cdc'[j][1]
                      \/ cdc'[i][1] = cdc'[j][1] /\ ~IsDelimiter(cdc'[i])
    OBVIOUS
  <2> DEFINE x == i + 1
             y == j + 1
  <2>1. /\ x \in 1 .. Len(cdc) /\ cdc'[i] = cdc[x]
        /\ y \in 1 .. Len(cdc) /\ cdc'[j] = cdc[y] /\ x < y
    BY <1>1
  <2> HIDE DEF x, y
  <2>2. cdc[x][1] < cdc[y][1] \/ (cdc[x][1] = cdc[y][1] /\ ~IsDelimiter(cdc[x]))
    BY <1>2, <2>1, Zenon DEF Ordered
  <2> QED BY <2>1, <2>2, Zenon
<1>8. CASE ~IsDelimiter(h)
  <2>1. block' = Append(block, h) /\ decoded' = decoded
    BY <1>8, ReadIs
  <2>2. block' # <<>> /\ block'[1] = IF block # <<>> THEN block[1] ELSE h
    BY <1>1, <2>1, AppendIs
  <2>3. /\ block'[1][1] \in Nat /\ block'[1][1] <= h[1]
        /\ decoded < block'[1][1] /\ block'[1][1] <= tx_cur.n
    BY <1>1, <1>4, <2>2
  <2>4. \A i \in 1 .. Len(cdc) - 1 :
          decoded < cdc'[i][1] /\ block'[1][1] <= cdc'[i][1]
    <3> TAKE i \in 1 .. Len(cdc) - 1
    <3>1. h[1] <= cdc'[i][1] /\ cdc'[i][1] \in Nat
      BY <1>4, <1>5, <1>6
    <3> HIDE DEF h
    <3> QED BY <1>1, <1>4, <2>3, <3>1
  <2>5. Passed(decoded)
    BY <1>2 DEF Ordered
  <2> HIDE DEF h
  <2> QED BY <1>1, <1>6, <1>7, <2>1, <2>3, <2>4, <2>5 DEF Ordered, Passed, CurDone
<1>9. CASE IsDelimiter(h)
  <2>1. /\ block' = <<>> /\ decoded' \in Nat /\ decoded' <= h[1]
    BY <1>1, <1>4, <1>9, ReadIs
  <2>2. \A i \in 1 .. Len(cdc) - 1 : decoded' < cdc'[i][1]
    BY <1>4, <1>5, <1>6, <1>9, <2>1
  <2>3. Passed(decoded')
    BY <1>1, <1>4, <1>9, <2>1 DEF Passed, CurDone
  <2> HIDE DEF h
  <2> QED BY <1>1, <1>6, <1>7, <2>1, <2>2, <2>3 DEF Ordered, Passed, CurDone
<1> QED BY <1>8, <1>9

(* The byte that is read joins the block that it follows.                  *)
LEMMA ReadContiguous ==
  ASSUME IInv, HostRead
  PROVE  Contiguous'
<1> DEFINE h == cdc[1]
           longer == Append(block, h)
<1>1. /\ Len(cdc) \in Nat /\ Len(cdc) >= 1 /\ h \in Bytes
      /\ cdc' \in Seq(Bytes) /\ Len(cdc') = Len(cdc) - 1
      /\ \A i \in 1 .. Len(cdc) - 1 : cdc'[i] = cdc[i + 1]
      /\ tx_cur' = tx_cur /\ bus = "up" /\ cdc # <<>>
      /\ block \in Seq(Bytes) /\ Len(block) \in Nat
  BY ReadIs, EmptySeq
<1>2. Contiguous
  BY DEF IInv
<1>3. Gapless(cdc')
  <2>1. \A i \in 1 .. Len(cdc) - 2 : Follows(cdc'[i], cdc'[i + 1])
    BY <1>1, <1>2 DEF Contiguous, Gapless
  <2> QED BY <1>1, <2>1 DEF Gapless
<1>4. IF cdc' # <<>> THEN Follows(h, cdc'[1]) ELSE Resumes(h)
  <2>1. CASE cdc' # <<>>
    <3>1. Len(cdc) - 1 >= 1
      BY <1>1, <2>1, EmptySeq
    <3>2. cdc'[1] = cdc[1 + 1] /\ Follows(cdc[1], cdc[1 + 1])
      BY <1>1, <1>2, <3>1 DEF Contiguous, Gapless
    <3> QED BY <2>1, <3>2
  <2>2. CASE cdc' = <<>>
    <3>1. Len(cdc) = 1
      BY <1>1, <2>2, EmptySeq
    <3> QED BY <1>1, <1>2, <2>2, <3>1 DEF Contiguous
  <2> QED BY <2>1, <2>2
<1>5. (cdc # <<>> => Resumes(cdc[Len(cdc)]))'
  <2>1. ASSUME cdc' # <<>> PROVE cdc'[Len(cdc) - 1] = cdc[Len(cdc)]
    <3>1. Len(cdc) - 1 >= 1
      BY <1>1, <2>1, EmptySeq
    <3>2. cdc'[Len(cdc) - 1] = cdc[(Len(cdc) - 1) + 1]
      BY <1>1, <3>1
    <3> QED BY <1>1, <3>2
  <2>2. Resumes(cdc[Len(cdc)])
    BY <1>1, <1>2 DEF Contiguous
  <2> QED BY <1>1, <2>1, <2>2 DEF Resumes
<1>6. CASE IsDelimiter(h)
  <2>1. block' = <<>> /\ Len(<<>>) = 0
    BY <1>6, ReadIs, EmptySeq
  <2>2. OneFrame(block')
    BY <2>1 DEF OneFrame
  <2> QED BY <1>3, <1>5, <2>1, <2>2, Zenon DEF Contiguous
<1>7. CASE ~IsDelimiter(h)
  <2>1. /\ longer # <<>> /\ Len(longer) = Len(block) + 1
        /\ \A i \in 1 .. Len(block) : longer[i] = block[i]
        /\ longer[Len(block) + 1] = h
        /\ block # <<>> => Len(block) >= 1 /\ longer[1] = block[1]
        /\ block = <<>> => Len(block) = 0 /\ longer[1] = h
    BY <1>1, AppendIs
  <2>2. block' = longer
    BY <1>7, ReadIs
  <2> HIDE DEF longer, h
  <2>3. h = <<longer[1][1], longer[1][2] + Len(block), longer[1][3]>>
    <3>1. CASE block = <<>>
      BY <1>1, <2>1, <3>1, ByteIs
    <3>2. CASE block # <<>>
      <4> DEFINE b == block[Len(block)]
      <4>1. Len(block) \in 1 .. Len(block) /\ block[1] \in Bytes
        BY <1>1, <2>1, <3>2, HeadIs
      <4>2. /\ b = <<block[1][1], block[1][2] + (Len(block) - 1), block[1][3]>>
            /\ ~IsDelimiter(b)
        BY <1>2, <4>1 DEF Contiguous, OneFrame
      <4>3. h = Successor(b)
        BY <1>1, <1>2, <3>2, <4>2 DEF Contiguous, Follows, h
      <4>4. block[1][2] \in Nat
        BY <4>1, ByteIs
      <4>5. b[1] = block[1][1] /\ b[2] + 1 = block[1][2] + Len(block)
            /\ b[3] = block[1][3]
        <5> HIDE DEF b
        <5>1. /\ b[1] = block[1][1] /\ b[2] = block[1][2] + (Len(block) - 1)
              /\ b[3] = block[1][3]
          BY <4>2
        <5>2. \A x, len \in Nat : (x + (len - 1)) + 1 = x + len
          OBVIOUS
        <5>3. (block[1][2] + (Len(block) - 1)) + 1 = block[1][2] + Len(block)
          BY <1>1, <4>4, <5>2, Zenon
        <5> QED BY <5>1, <5>3, Zenon
      <4> QED BY <2>1, <3>2, <4>3, <4>5 DEF Successor
    <3> QED BY <3>1, <3>2
  <2>4. OneFrame(longer)
    <3>1. ASSUME NEW i \in 1 .. Len(block) + 1
          PROVE  /\ longer[i] = <<longer[1][1], longer[1][2] + (i - 1), longer[1][3]>>
                 /\ ~IsDelimiter(longer[i])
      <4>1. CASE i \in 1 .. Len(block)
        <5>1. block # <<>>
          BY <2>1, <4>1
        <5> QED BY <1>2, <2>1, <4>1, <5>1 DEF Contiguous, OneFrame
      <4>2. CASE i = Len(block) + 1
        <5>1. i - 1 = Len(block) /\ longer[i] = h
          BY <1>1, <2>1, <4>2
        <5> QED BY <1>7, <2>3, <5>1
      <4> QED BY <1>1, <4>1, <4>2
    <3> QED BY <2>1, <3>1 DEF OneFrame
  <2>5. longer[Len(longer)] = h
    BY <1>1, <2>1
  <2>6. (IF cdc # <<>> THEN Follows(block[Len(block)], cdc[1])
                       ELSE Resumes(block[Len(block)]))'
    BY <1>1, <1>4, <2>2, <2>5 DEF Resumes
  <2> QED BY <1>3, <1>5, <2>2, <2>4, <2>6, Zenon DEF Contiguous
<1> QED BY <1>6, <1>7

(* A block that begins with its frame and is contiguous is whole when its  *)
(* delimiter is read; after a delimiter the next block begins with one.    *)
LEMMA ReadTearing ==
  ASSUME IInv, HostRead
  PROVE  Tearing'
<1> DEFINE h == cdc[1]
<1>1. /\ Len(cdc) \in Nat /\ Len(cdc) >= 1 /\ h \in Bytes
      /\ cdc' \in Seq(Bytes) /\ Len(cdc') = Len(cdc) - 1
      /\ \A i \in 1 .. Len(cdc) - 1 : cdc'[i] = cdc[i + 1]
      /\ tx_cur' = tx_cur /\ opens' = opens /\ bus = "up" /\ bus' = bus
      /\ block \in Seq(Bytes) /\ Len(block) \in Nat /\ cdc # <<>>
      /\ torn \in Nat /\ opens \in Nat
  BY ReadIs, EmptySeq DEF IInv, TypeOK
<1>2. Contiguous /\ Tearing
  BY DEF IInv
<1>3. CASE ~IsDelimiter(h)
  <2>1. block' = Append(block, h) /\ torn' = torn
    BY <1>3, ReadIs
  <2>2. block' # <<>> /\ block'[1] = IF block # <<>> THEN block[1] ELSE h
    BY <1>1, <2>1, AppendIs
  <2>3. Aligned => Aligned'
    BY <1>1, <2>2 DEF Aligned
  <2> QED BY <1>1, <1>2, <2>1, <2>3 DEF Tearing
<1>4. CASE IsDelimiter(h)
  <2>1. Aligned'
    <3>1. block' = <<>>
      BY <1>4, ReadIs
    <3>2. CASE cdc' # <<>>
      <4>1. Len(cdc) - 1 >= 1
        BY <1>1, <3>2, EmptySeq
      <4>2. cdc'[1] = cdc[1 + 1] /\ Follows(cdc[1], cdc[1 + 1])
        BY <1>1, <1>2, <4>1 DEF Contiguous, Gapless
      <4> QED BY <1>4, <3>1, <3>2, <4>2 DEF Aligned, Follows
    <3>3. CASE cdc' = <<>>
      <4>1. Len(cdc) = 1
        BY <1>1, <3>3, EmptySeq
      <4>2. Resumes(h)
        BY <1>1, <1>2, <4>1 DEF Contiguous
      <4> QED BY <1>1, <1>4, <3>1, <3>3, <4>2 DEF Aligned, Resumes
    <3> QED BY <3>2, <3>3
  <2>2. ASSUME block # <<>>, ~Whole(block) PROVE ~Aligned
    <3>1. SUFFICES ASSUME Aligned PROVE Whole(block)
      BY <2>2
    <3> DEFINE n == block[1][1]
               len == block[1][3]
    <3>2. Len(block) \in 1 .. Len(block) /\ block[1] \in Bytes
      BY <1>1, <2>2, HeadIs
    <3>3. block[1][2] = 1
      BY <2>2, <3>1 DEF Aligned
    <3>4. \A i \in 1 .. Len(block) : block[i] = <<n, i, len>> /\ ~IsDelimiter(block[i])
      BY <1>1, <1>2, <3>3 DEF Contiguous, OneFrame
    <3>5. h = Successor(block[Len(block)])
      BY <1>1, <1>2, <2>2, <3>2, <3>4 DEF Contiguous, Follows
    <3>6. block[Len(block)] = <<n, Len(block), len>>
      BY <3>2, <3>4
    <3>7. h = <<n, Len(block) + 1, len>>
      BY <3>5, <3>6 DEF Successor
    <3>8. Len(block) + 1 = len
      BY <1>4, <3>7 DEF IsDelimiter
    <3>9. Len(block) = len - 1
      BY <1>1, <3>8
    <3>10. block = [i \in 1 .. Len(block) |-> <<n, i, len>>]
      <4>1. DOMAIN block = 1 .. Len(block) /\ block \in [1 .. Len(block) -> Bytes]
        BY <1>1, LenProperties
      <4> QED BY <3>4, <4>1
    <3> QED BY <3>9, <3>10 DEF Whole
  <2>3. torn' = torn \/ (torn' = torn + 1 /\ torn < opens)
    <3>1. torn' = torn \/ (torn' = torn + 1 /\ block # <<>> /\ ~Whole(block))
      BY <1>4, ReadIs
    <3> QED BY <1>1, <1>2, <2>2, <3>1 DEF Tearing
  <2>4. torn' <= opens
    BY <1>1, <1>2, <2>3 DEF Tearing
  <2> QED BY <1>1, <2>1, <2>4 DEF Tearing
<1> QED BY <1>3, <1>4

LEMMA ReadIInv ==
  ASSUME IInv, HostRead
  PROVE  IInv'
<1>1. Queued'
  BY ReadIs DEF IInv, Queued
<1> QED BY <1>1, ReadTypeOK, ReadOrdered, ReadContiguous, ReadTearing DEF IInv
-----------------------------------------------------------------------------
(* The callback writes: f is the frame it writes of, the one in flight or  *)
(* the next of the ring, and k the number of bytes.                        *)
Sent(f, k) ==
  /\ f \in [n : Nat, len : Nat, off : Nat] /\ k \in Nat /\ f.off + k <= f.len
  /\ IF CurDone
     THEN /\ f.n = tx_cur.n + 1 /\ f.off = 0
          /\ tx_ring # <<>> /\ tx_ring' = Tail(tx_ring)
     ELSE f = tx_cur /\ tx_ring' = tx_ring
  /\ tx_cur' = [n |-> f.n, len |-> f.len, off |-> f.off + k]
  /\ cdc \in Seq(Bytes) /\ cdc' \in Seq(Bytes)
  /\ Len(cdc) \in Nat /\ Len(cdc') = Len(cdc) + k
  /\ \A i \in 1 .. Len(cdc) : cdc'[i] = cdc[i]
  /\ \A i \in 1 .. k : cdc'[Len(cdc) + i] = <<f.n, f.off + i, f.len>>
  /\ UNCHANGED <<bus, accepted, block, decoded, received, torn, opens>>

LEMMA SendIs ==
  ASSUME IInv, IrqSend
  PROVE  \E f, k : Sent(f, k)
<1> DEFINE f == IF CurDone
                THEN [n |-> Head(tx_ring).n, len |-> Head(tx_ring).len, off |-> 0]
                ELSE tx_cur
           k == Accepts(f.len - f.off)
           new == [i \in 1 .. k |-> <<f.n, f.off + i, f.len>>]
<1>1. /\ tx_cur' = [f EXCEPT !.off = @ + k]
      /\ cdc' = cdc \o new
      /\ tx_ring' = IF CurDone THEN Tail(tx_ring) ELSE tx_ring
      /\ Len(cdc) < CDC_SIZE
      /\ UNCHANGED <<bus, accepted, block, decoded, received, torn, opens>>
  BY DEF IrqSend, Filled, Fetched
<1>2. /\ f \in [n : Nat, len : Nat, off : Nat] /\ f.off <= f.len
      /\ IF CurDone THEN f.n = tx_cur.n + 1 /\ f.off = 0 /\ tx_ring # <<>>
                    ELSE f = tx_cur
  <2>1. CASE ~CurDone
    BY <2>1 DEF IInv, TypeOK
  <2>2. CASE CurDone
    <3>1. tx_ring # <<>> /\ tx_ring \in Seq(Frames)
      BY <2>2 DEF IrqSend, NothingToSend, IInv, TypeOK
    <3>2. /\ Head(tx_ring) = tx_ring[1] /\ tx_ring[1] \in Frames
          /\ 1 \in 1 .. Len(tx_ring)
      BY <3>1, HeadIs
    <3>3. tx_ring[1].n = tx_cur.n + 1
      BY <3>2 DEF IInv, Queued
    <3> QED BY <2>2, <3>1, <3>2, <3>3 DEF Frames
  <2> QED BY <2>1, <2>2
<1> HIDE DEF f
<1>3. cdc \in Seq(Bytes) /\ Len(cdc) \in Nat
  BY LenProperties DEF IInv, TypeOK
<1>4. k \in Nat /\ f.off + k <= f.len
  BY <1>1, <1>2, <1>3, ConstantTypes DEF Accepts
<1> HIDE DEF k
<1>5. new \in Seq(Bytes) /\ Len(new) = k
  <2>1. \A i \in 1 .. k : <<f.n, f.off + i, f.len>> \in Bytes
    <3> TAKE i \in 1 .. k
    <3>1. f.n \in Nat /\ f.off + i \in 1 .. f.len /\ f.len \in Nat
      BY <1>2, <1>4
    <3> QED BY <3>1 DEF Bytes
  <2>2. new \in [1 .. k -> Bytes]
    BY <2>1
  <2>3. new \in Seq(Bytes)
    BY <1>4, <2>2, SeqDef
  <2> QED BY <1>4, <2>3, LenProperties
<1>6. /\ cdc' \in Seq(Bytes) /\ Len(cdc') = Len(cdc) + k
      /\ \A i \in 1 .. Len(cdc) : cdc'[i] = cdc[i]
      /\ \A i \in 1 .. k : cdc'[Len(cdc) + i] = new[i]
  <2> HIDE DEF new
  <2>1. /\ cdc' \in Seq(Bytes) /\ Len(cdc') = Len(cdc) + k
        /\ \A i \in 1 .. Len(cdc) + k :
             cdc'[i] = IF i <= Len(cdc) THEN cdc[i] ELSE new[i - Len(cdc)]
    BY <1>1, <1>3, <1>5, ConcatProperties
  <2>2. \A i \in 1 .. Len(cdc) : cdc'[i] = cdc[i]
    BY <1>3, <1>4, <2>1
  <2>3. ASSUME NEW i \in 1 .. k PROVE cdc'[Len(cdc) + i] = new[i]
    <3> DEFINE j == Len(cdc) + i
    <3>1. j \in 1 .. Len(cdc) + k /\ ~(j <= Len(cdc)) /\ j - Len(cdc) = i
      BY <1>3, <1>4
    <3> HIDE DEF j
    <3>2. cdc'[j] = new[j - Len(cdc)]
      BY <2>1, <3>1
    <3> QED BY <3>1, <3>2 DEF j
  <2> QED BY <2>1, <2>2, <2>3
<1>7. tx_cur' = [n |-> f.n, len |-> f.len, off |-> f.off + k]
  BY <1>1, <1>2
<1>8. Sent(f, k)
  BY <1>1, <1>2, <1>3, <1>4, <1>6, <1>7 DEF Sent
<1> QED BY <1>8

(* What had passed is behind the frame that is written.                    *)
LEMMA SentIs ==
  ASSUME IInv, NEW f, NEW k, Sent(f, k)
  PROVE  /\ f.n \in Nat /\ f.len \in Nat /\ f.off \in Nat /\ k \in Nat
         /\ f.off + k <= f.len
         /\ tx_cur'.n = f.n /\ tx_cur'.len = f.len /\ tx_cur'.off = f.off + k
         /\ tx_cur.n \in Nat /\ tx_cur.n <= f.n
         /\ \A n \in Nat : Passed(n) => n < f.n
<1>1. tx_cur \in [n : Nat, len : Nat, off : Nat]
  BY DEF IInv, TypeOK
<1>2. /\ f \in [n : Nat, len : Nat, off : Nat] /\ k \in Nat /\ f.off + k <= f.len
      /\ IF CurDone THEN f.n = tx_cur.n + 1 ELSE f = tx_cur
      /\ tx_cur' = [n |-> f.n, len |-> f.len, off |-> f.off + k]
  BY DEF Sent
<1>3. tx_cur.n <= f.n /\ (CurDone => tx_cur.n < f.n)
  BY <1>1, <1>2
<1>4. \A n \in Nat : Passed(n) => n < f.n
  BY <1>1, <1>2, <1>3 DEF Passed
<1> QED BY <1>1, <1>2, <1>3, <1>4

LEMMA SendTypeOK ==
  ASSUME IInv, NEW f, NEW k, Sent(f, k)
  PROVE  TypeOK' /\ Queued'
<1>1. /\ f \in [n : Nat, len : Nat, off : Nat] /\ k \in Nat /\ f.off + k <= f.len
      /\ tx_cur' = [n |-> f.n, len |-> f.len, off |-> f.off + k]
  BY DEF Sent
<1>2. /\ tx_cur' \in [n : Nat, len : Nat, off : Nat] /\ tx_cur'.off <= tx_cur'.len
      /\ tx_cur'.n = f.n
  BY <1>1
<1>3. /\ tx_ring \in Seq(Frames) /\ Len(tx_ring) \in Nat /\ tx_cur.n \in Nat
      /\ accepted' = accepted /\ cdc' \in Seq(Bytes)
      /\ UNCHANGED <<bus, block, decoded, received, torn, opens>>
  BY LenProperties DEF IInv, TypeOK, Sent
<1>4. Queued
  BY DEF IInv
<1>5. CASE ~CurDone
  <2>1. tx_ring' = tx_ring /\ tx_cur'.n = tx_cur.n
    BY <1>2, <1>5 DEF Sent
  <2> QED BY <1>2, <1>3, <1>4, <2>1 DEF IInv, TypeOK, Queued
<1>6. CASE CurDone
  <2>1. tx_ring' = Tail(tx_ring) /\ tx_ring # <<>> /\ tx_cur'.n = tx_cur.n + 1
    BY <1>2, <1>6 DEF Sent
  <2>2. /\ tx_ring' \in Seq(Frames) /\ Len(tx_ring') = Len(tx_ring) - 1
        /\ \A i \in 1 .. Len(tx_ring) - 1 : tx_ring'[i] = tx_ring[i + 1]
    BY <1>3, <2>1, HeadIs
  <2>3. RingUsed(tx_ring') <= RING_SIZE
    <3>1. RingUsed(tx_ring) \in Nat /\ RingUsed(Tail(tx_ring)) \in Nat
      BY <1>3, <2>1, <2>2, RingUsedNat
    <3>2. /\ RingUsed(Tail(tx_ring)) <= RingUsed(tx_ring)
          /\ RingUsed(tx_ring) <= RING_SIZE
      BY <1>3, <1>4, <2>1, RingUsedTail DEF Queued
    <3>3. RingUsed(Tail(tx_ring)) <= RING_SIZE
      BY <3>1, <3>2, ConstantTypes
    <3> QED BY <2>1, <3>3
  <2>4. \A i \in 1 .. Len(tx_ring) - 1 : tx_ring'[i].n = (tx_cur.n + 1) + i
    <3> TAKE i \in 1 .. Len(tx_ring) - 1
    <3>1. tx_ring[i + 1].n = (tx_cur.n + 1) + i
      <4>1. i + 1 \in 1 .. Len(tx_ring) /\ i \in Nat
        BY <1>3
      <4>2. tx_ring[i + 1].n = tx_cur.n + (i + 1)
        BY <1>4, <4>1 DEF Queued
      <4>3. \A x \in Nat : x + (i + 1) = (x + 1) + i
        BY <4>1
      <4> QED BY <1>3, <4>2, <4>3, Zenon
    <3> QED BY <2>2, <3>1
  <2>5. (tx_cur.n + 1) + (Len(tx_ring) - 1) = accepted
    <3>1. \A x, y \in Nat : (x + 1) + (y - 1) = x + y
      OBVIOUS
    <3> QED BY <1>3, <1>4, <3>1, Zenon DEF Queued
  <2>6. Queued'
    BY <1>3, <2>1, <2>2, <2>3, <2>4, <2>5, Zenon DEF Queued
  <2> QED BY <1>2, <1>3, <2>2, <2>6 DEF IInv, TypeOK
<1> QED BY <1>5, <1>6

LEMMA SendOrdered ==
  ASSUME IInv, NEW f, NEW k, Sent(f, k)
  PROVE  Ordered'
<1>1. /\ f.n \in Nat /\ f.len \in Nat /\ f.off \in Nat /\ k \in Nat
      /\ f.off + k <= f.len
      /\ tx_cur'.n = f.n /\ tx_cur'.len = f.len /\ tx_cur'.off = f.off + k
      /\ tx_cur.n \in Nat /\ tx_cur.n <= f.n
      /\ \A n \in Nat : Passed(n) => n < f.n
  BY SentIs
<1>2. /\ Len(cdc) \in Nat /\ Len(cdc') = Len(cdc) + k
      /\ \A i \in 1 .. Len(cdc) : cdc'[i] = cdc[i]
      /\ \A i \in 1 .. k : cdc'[Len(cdc) + i] = <<f.n, f.off + i, f.len>>
      /\ cdc \in Seq(Bytes) /\ block \in Seq(Bytes) /\ decoded \in Nat
      /\ block' = block /\ decoded' = decoded
  BY DEF Sent, IInv, TypeOK
<1>3. Ordered
  BY DEF IInv
<1>4. decoded < f.n /\ Passed(decoded)
  BY <1>1, <1>2, <1>3 DEF Ordered
<1>5. block # <<>> => /\ block[1][1] \in Nat /\ decoded < block[1][1]
                      /\ block[1][1] <= f.n
  <2>1. block # <<>> => block[1][1] \in Nat
    BY <1>2, HeadIs, ByteIs
  <2> QED BY <1>1, <1>3, <2>1 DEF Ordered
<1>6. ASSUME NEW n \in Nat, n < f.n PROVE Passed(n)'
  BY <1>1, <1>6 DEF Passed
<1> DEFINE d == Len(cdc)
<1>7. ASSUME NEW i \in 1 .. d
      PROVE  /\ cdc'[i] = cdc[i] /\ cdc[i][1] \in Nat
             /\ decoded < cdc[i][1] /\ cdc[i][1] <= f.n
             /\ IsDelimiter(cdc[i]) => cdc[i][1] < f.n
             /\ block # <<>> => block[1][1] <= cdc[i][1]
  <2>1. cdc'[i] = cdc[i] /\ cdc[i][1] \in Nat
    BY <1>2, ElementOfSeq, ByteIs
  <2> QED BY <1>1, <1>3, <2>1 DEF Ordered
<1>8. ASSUME NEW i \in d + 1 .. d + k
      PROVE  /\ i - d \in 1 .. k
             /\ cdc'[i] = <<f.n, f.off + (i - d), f.len>>
             /\ IsDelimiter(cdc'[i]) => f.off + k = f.len /\ i = d + k
  <2>1. i - d \in 1 .. k /\ d + (i - d) = i
    <3>1. d \in Nat /\ k \in Nat
      BY <1>1, <1>2
    <3> HIDE DEF d
    <3> QED BY <3>1, <1>8
  <2>2. cdc'[i] = <<f.n, f.off + (i - d), f.len>>
    <3> DEFINE j == i - d
    <3>1. cdc'[d + j] = <<f.n, f.off + j, f.len>>
      <4>1. j \in 1 .. k
        BY <2>1
      <4> HIDE DEF j
      <4> QED BY <1>2, <4>1
    <3> QED BY <2>1, <3>1
  <2>3. f.off + (i - d) = f.len => f.off + k = f.len /\ i = d + k
    <3>1. /\ f.len \in Nat /\ f.off \in Nat /\ k \in Nat /\ f.off + k <= f.len
          /\ d \in Nat
      BY <1>1, <1>2
    <3> QED BY <3>1
  <2> QED BY <2>1, <2>2, <2>3 DEF IsDelimiter
<1>9. \A i \in 1 .. d + k : i \in 1 .. d \/ i \in d + 1 .. d + k
  BY <1>1, <1>2
<1>10. ASSUME NEW i \in 1 .. d + k
       PROVE  /\ decoded < cdc'[i][1] /\ cdc'[i][1] <= f.n
              /\ IsDelimiter(cdc'[i]) =>
                   \/ cdc'[i][1] < f.n
                   \/ cdc'[i][1] = f.n /\ f.off + k = f.len
              /\ block # <<>> => block[1][1] <= cdc'[i][1]
  <2>1. CASE i \in 1 .. d
    BY <1>7, <2>1
  <2>2. CASE i \in d + 1 .. d + k
    <3>1. /\ cdc'[i][1] = f.n
          /\ IsDelimiter(cdc'[i]) => f.off + k = f.len
      BY <1>8, <2>2
    <3>2. f.n <= f.n
      BY <1>1
    <3> QED BY <1>4, <1>5, <3>1, <3>2, Zenon
  <2> QED BY <1>9, <2>1, <2>2
<1>11. ASSUME NEW i \in 1 .. d + k, NEW j \in 1 .. d + k, i < j
       PROVE  \/ cdc'[i][1] < cdc'[j][1]
              \/ cdc'[i][1] = cdc'[j][1] /\ ~IsDelimiter(cdc'[i])
  <2>1. CASE i \in 1 .. d /\ j \in 1 .. d
    BY <1>3, <1>7, <1>11, <2>1 DEF Ordered
  <2>2. CASE i \in 1 .. d /\ j \in d + 1 .. d + k
    <3>1. cdc'[j][1] = f.n
      BY <1>8, <2>2
    <3>2. cdc'[i] = cdc[i] /\ cdc[i][1] \in Nat /\ cdc[i][1] <= f.n
          /\ (IsDelimiter(cdc[i]) => cdc[i][1] < f.n)
      BY <1>7, <2>2
    <3> QED BY <1>1, <3>1, <3>2
  <2>3. CASE i \in d + 1 .. d + k /\ j \in d + 1 .. d + k
    <3>1. cdc'[i][1] = f.n /\ cdc'[j][1] = f.n
      BY <1>8, <2>3
    <3>2. i # d + k
      BY <1>1, <1>2, <1>11
    <3> QED BY <1>8, <2>3, <3>1, <3>2
  <2>4. ~(i \in d + 1 .. d + k /\ j \in 1 .. d)
    BY <1>1, <1>2, <1>11
  <2> QED BY <1>9, <2>1, <2>2, <2>3, <2>4
<1>12. Passed(decoded)'
  <2>1. \A n \in Nat : n < f.n => Passed(n)'
    BY <1>6
  <2> QED BY <1>1, <1>2, <1>4 DEF Passed
<1>13. \A i \in 1 .. Len(cdc') :
         /\ decoded' < cdc'[i][1] /\ cdc'[i][1] <= tx_cur'.n
         /\ IsDelimiter(cdc'[i]) =>
              cdc'[i][1] < tx_cur'.n \/ (cdc'[i][1] = tx_cur'.n /\ CurDone')
         /\ block' # <<>> => block'[1][1] <= cdc'[i][1]
  <2>1. f.off + k = f.len => CurDone'
    BY <1>1 DEF CurDone
  <2> QED BY <1>1, <1>2, <1>10, <2>1, Zenon
<1>14. \A i, j \in 1 .. Len(cdc') : i < j =>
         \/ cdc'[i][1] < cdc'[j][1]
         \/ cdc'[i][1] = cdc'[j][1] /\ ~IsDelimiter(cdc'[i])
  BY <1>2, <1>11, Zenon
<1>15. block' # <<>> => decoded' < block'[1][1] /\ block'[1][1] <= tx_cur'.n
  BY <1>1, <1>2, <1>5, Zenon
<1> QED BY <1>12, <1>13, <1>14, <1>15 DEF Ordered, Passed, CurDone, IsDelimiter

(* What the frame in flight resumes it still does, or the bytes follow it. *)
LEMMA SendLink ==
  ASSUME IInv, NEW f, NEW k, Sent(f, k), NEW b \in Bytes, Resumes(b)
  PROVE  /\ k = 0 => Resumes(b)'
         /\ k > 0 => Follows(b, cdc'[Len(cdc) + 1])
<1>1. /\ f.n \in Nat /\ f.len \in Nat /\ f.off \in Nat /\ k \in Nat
      /\ f.off + k <= f.len
      /\ tx_cur' = [n |-> f.n, len |-> f.len, off |-> f.off + k]
      /\ Len(cdc) \in Nat
      /\ IF CurDone THEN f.off = 0 ELSE f = tx_cur
      /\ \A i \in 1 .. k : cdc'[Len(cdc) + i] = <<f.n, f.off + i, f.len>>
  BY SentIs DEF Sent
<1>2. k > 0 => cdc'[Len(cdc) + 1] = <<f.n, f.off + 1, f.len>> /\ f.off # f.len
  BY <1>1
<1>3. b = <<b[1], b[2], b[3]>> /\ b[2] \in Nat
  BY ByteIs
<1>4. CASE IsDelimiter(b)
  <2>1. k > 0 \/ k = 0 => f.off = 0 \/ (f = tx_cur /\ f.off \in {0, f.len})
    BY <1>1, <1>4 DEF Resumes
  <2>2. k > 0 => f.off = 0
    BY <1>1, <1>2, <2>1
  <2>3. k > 0 => Follows(b, cdc'[Len(cdc) + 1])
    BY <1>2, <1>4, <2>2 DEF Follows
  <2>4. k = 0 => tx_cur'.off \in {0, tx_cur'.len}
    <3>1. k = 0 => f.off + k = f.off
      BY <1>1
    <3>2. tx_cur'.off = f.off + k /\ tx_cur'.len = f.len
      BY <1>1
    <3> QED BY <2>1, <3>1, <3>2
  <2> QED BY <1>4, <2>3, <2>4 DEF Resumes
<1>5. CASE ~IsDelimiter(b)
  <2>1. tx_cur = [n |-> b[1], len |-> b[3], off |-> b[2]]
    BY <1>5 DEF Resumes
  <2>2. f = tx_cur
    BY <1>1, <1>5, <2>1 DEF CurDone, IsDelimiter
  <2>3. f.n = b[1] /\ f.len = b[3] /\ f.off = b[2]
    BY <2>1, <2>2
  <2>4. k > 0 => Follows(b, cdc'[Len(cdc) + 1])
    BY <1>2, <1>5, <2>3 DEF Follows, Successor
  <2>5. k = 0 => tx_cur' = tx_cur
    <3>1. k = 0 => f.off + k = f.off
      BY <1>1
    <3> QED BY <1>1, <2>1, <2>3, <3>1, Zenon
  <2> QED BY <1>5, <2>1, <2>4, <2>5 DEF Resumes
<1> QED BY <1>4, <1>5

LEMMA SendContiguous ==
  ASSUME IInv, NEW f, NEW k, Sent(f, k)
  PROVE  Contiguous'
<1> DEFINE d == Len(cdc)
<1>1. /\ f.n \in Nat /\ f.len \in Nat /\ f.off \in Nat /\ k \in Nat
      /\ f.off + k <= f.len
      /\ tx_cur' = [n |-> f.n, len |-> f.len, off |-> f.off + k]
      /\ cdc \in Seq(Bytes) /\ cdc' \in Seq(Bytes)
      /\ d \in Nat /\ Len(cdc') = d + k
      /\ \A i \in 1 .. d : cdc'[i] = cdc[i]
      /\ \A i \in 1 .. k : cdc'[d + i] = <<f.n, f.off + i, f.len>>
      /\ block' = block /\ bus' = bus
      /\ block \in Seq(Bytes)
  BY SentIs DEF Sent, IInv, TypeOK
<1>2. Contiguous
  BY DEF IInv
<1>3. /\ cdc # <<>> => d >= 1 /\ cdc[d] \in Bytes /\ Resumes(cdc[d])
      /\ cdc = <<>> => d = 0
  <2>1. cdc # <<>> => d >= 1 /\ d \in 1 .. d
    BY <1>1, HeadIs
  <2>2. cdc # <<>> => cdc[d] \in Bytes
    BY <1>1, <2>1, ElementOfSeq
  <2> QED BY <1>1, <1>2, <2>1, <2>2, EmptySeq DEF Contiguous
<1>4. Gapless(cdc')
  <2>1. ASSUME NEW i \in 1 .. (d + k) - 1
        PROVE  Follows(cdc'[i], cdc'[i + 1])
    <3>1. CASE i \in 1 .. d - 1
      <4>1. cdc'[i] = cdc[i] /\ cdc'[i + 1] = cdc[i + 1] /\ Follows(cdc[i], cdc[i + 1])
        BY <1>1, <1>2, <3>1 DEF Contiguous, Gapless
      <4> QED BY <4>1
    <3>2. CASE i = d
      <4>1. d >= 1 /\ k > 0
        BY <1>1, <3>2
      <4>2. cdc # <<>> /\ cdc'[i] = cdc[d]
        BY <1>1, <1>3, <3>2, <4>1
      <4>3. Follows(cdc[d], cdc'[d + 1])
        BY <1>3, <4>1, <4>2, SendLink
      <4> QED BY <3>2, <4>2, <4>3
    <3>3. CASE i \in d + 1 .. (d + k) - 1
      <4>1. PICK j \in 1 .. k - 1 : i = d + j
        <5>1. i - d \in 1 .. k - 1 /\ i = d + (i - d)
          BY <1>1, <3>3
        <5> QED BY <5>1
      <4>2. /\ cdc'[i] = <<f.n, f.off + j, f.len>>
            /\ cdc'[d + (j + 1)] = <<f.n, f.off + (j + 1), f.len>>
        <5>1. j \in 1 .. k /\ j + 1 \in 1 .. k
          <6>1. k \in Nat
            BY <1>1
          <6> QED BY <6>1
        <5> QED BY <1>1, <4>1, <5>1, Zenon
      <4>3. i + 1 = d + (j + 1) /\ f.off + (j + 1) = (f.off + j) + 1
            /\ f.off + j # f.len
        <5>1. \A x, y, z \in Nat :
                /\ (y + j) + 1 = y + (j + 1) /\ x + (j + 1) = (x + j) + 1
                /\ x + k <= z => x + j # z
          BY <1>1
        <5> QED BY <1>1, <4>1, <5>1, Zenon
      <4>4. cdc'[i + 1] = <<f.n, (f.off + j) + 1, f.len>>
        BY <4>2, <4>3
      <4> QED BY <4>2, <4>3, <4>4 DEF Follows, Successor, IsDelimiter
    <3>4. i \in 1 .. d - 1 \/ i = d \/ i \in d + 1 .. (d + k) - 1
      BY <1>1
    <3> QED BY <3>1, <3>2, <3>3, <3>4
  <2> QED BY <1>1, <2>1 DEF Gapless
<1>5. (cdc # <<>> => Resumes(cdc[Len(cdc)]))'
  <2>1. CASE k > 0
    <3>1. cdc'[d + k] = <<f.n, f.off + k, f.len>>
      BY <1>1, <2>1
    <3>2. tx_cur'.off = f.off + k /\ tx_cur'.len = f.len
      BY <1>1
    <3> QED BY <1>1, <3>1, <3>2 DEF Resumes, IsDelimiter
  <2>2. CASE k = 0
    <3>1. ASSUME cdc' # <<>> PROVE cdc # <<>> /\ cdc'[d] = cdc[d]
      <4>1. d # 0
        BY <1>1, <2>2, <3>1, EmptySeq
      <4> QED BY <1>1, <1>3, <4>1
    <3>2. ASSUME NEW b, cdc # <<>>, b = cdc[d] PROVE Resumes(b)'
      BY <1>3, <2>2, <3>2, SendLink
    <3>3. Len(cdc') = d
      BY <1>1, <2>2
    <3> QED BY <3>1, <3>2, <3>3 DEF Resumes
  <2> QED BY <1>1, <2>1, <2>2
<1>6. OneFrame(block')
  BY <1>1, <1>2 DEF Contiguous
<1>7. (bus # "reset" /\ block # <<>> =>
         IF cdc # <<>> THEN Follows(block[Len(block)], cdc[1])
                       ELSE Resumes(block[Len(block)]))'
  <2>1. SUFFICES ASSUME bus # "reset", block # <<>>
                 PROVE  (IF cdc # <<>> THEN Follows(block[Len(block)], cdc[1])
                                       ELSE Resumes(block[Len(block)]))'
    BY <1>1
  <2>2. PICK b \in Bytes : b = block[Len(block)]
    <3>1. Len(block) \in 1 .. Len(block)
      BY <1>1, <2>1, HeadIs
    <3> QED BY <1>1, <3>1, ElementOfSeq
  <2>3. CASE cdc # <<>>
    <3>1. cdc' # <<>> /\ cdc'[1] = cdc[1]
      BY <1>1, <1>3, <2>3, EmptySeq
    <3> QED BY <1>1, <1>2, <2>1, <2>3, <3>1 DEF Contiguous
  <2>4. CASE cdc = <<>>
    <3>1. Resumes(b) /\ d = 0
      BY <1>2, <1>3, <2>1, <2>2, <2>4 DEF Contiguous
    <3>2. /\ k = 0 => Resumes(b)'
          /\ k > 0 => Follows(b, cdc'[1])
      BY <3>1, SendLink
    <3>3. cdc' # <<>> <=> k > 0
      BY <1>1, <3>1, EmptySeq
    <3>4. block'[Len(block')] = b
      BY <1>1, <2>2
    <3> QED BY <1>1, <3>2, <3>3, <3>4 DEF Resumes
  <2> QED BY <2>3, <2>4
<1> QED BY <1>4, <1>5, <1>6, <1>7, Zenon DEF Contiguous

LEMMA SendTearing ==
  ASSUME IInv, NEW f, NEW k, Sent(f, k)
  PROVE  Tearing'
<1>1. /\ f.len \in Nat /\ f.off \in Nat /\ k \in Nat
      /\ f.off + k <= f.len
      /\ tx_cur'.len = f.len /\ tx_cur'.off = f.off + k
      /\ cdc \in Seq(Bytes) /\ cdc' \in Seq(Bytes)
      /\ Len(cdc) \in Nat /\ Len(cdc') = Len(cdc) + k
      /\ \A i \in 1 .. Len(cdc) : cdc'[i] = cdc[i]
      /\ \A i \in 1 .. k : cdc'[Len(cdc) + i] = <<f.n, f.off + i, f.len>>
      /\ UNCHANGED <<block, bus, torn, opens>>
      /\ IF CurDone THEN f.off = 0 ELSE f = tx_cur
  BY SentIs DEF Sent
<1>2. ASSUME Aligned PROVE Aligned'
  <2>1. CASE block # <<>>
    BY <1>1, <1>2, <2>1 DEF Aligned
  <2>2. CASE block = <<>> /\ cdc # <<>>
    <3>1. Len(cdc) >= 1
      BY <1>1, HeadIs, <2>2
    <3>2. cdc' # <<>> /\ cdc'[1] = cdc[1]
      BY <1>1, <3>1, EmptySeq
    <3> QED BY <1>1, <1>2, <2>2, <3>2 DEF Aligned
  <2>3. CASE block = <<>> /\ cdc = <<>>
    <3>1. /\ Len(cdc) = 0 /\ (cdc' # <<>> <=> k > 0)
          /\ f.off = 0 \/ (f = tx_cur /\ f.off = f.len)
      <4>1. Len(cdc) = 0
        BY <2>3, EmptySeq
      <4> QED BY <1>1, <1>2, <2>3, <4>1, EmptySeq DEF Aligned
    <3>2. k > 0 => f.off = 0
      BY <1>1, <3>1
    <3>3. k > 0 => cdc'[1] = <<f.n, 1, f.len>>
      <4>1. k > 0 => cdc'[0 + 1] = <<f.n, 0 + 1, f.len>>
        BY <1>1, <3>1, <3>2
      <4> QED BY <4>1
    <3>4. k = 0 => tx_cur'.off \in {0, tx_cur'.len}
      BY <1>1, <3>1
    <3> QED BY <1>1, <2>3, <3>1, <3>3, <3>4 DEF Aligned
  <2> QED BY <2>1, <2>2, <2>3
<1> QED BY <1>1, <1>2 DEF IInv, Tearing

LEMMA SendIInv ==
  ASSUME IInv, IrqSend
  PROVE  IInv'
<1>1. PICK f, k : Sent(f, k)
  BY SendIs
<1> QED BY <1>1, SendTypeOK, SendOrdered, SendContiguous, SendTearing DEF IInv

-----------------------------------------------------------------------------
LEMMA NextIInv == IInv /\ [Next]_vars => IInv'
<1> SUFFICES ASSUME IInv, [Next]_vars PROVE IInv'
  OBVIOUS
<1>1. ASSUME NEW p \in Producers, Check(p) PROVE IInv'
  BY <1>1, QuietIInv DEF Check, IInv, TypeOK
<1>2. ASSUME NEW p \in Producers, EnableTx(p) PROVE IInv'
  BY <1>2, QuietIInv DEF EnableTx, IInv, TypeOK
<1>3. CASE IrqIdle
  BY <1>3, QuietIInv DEF IrqIdle, IInv, TypeOK
<1>4. CASE BusSuspend
  BY <1>4, QuietIInv DEF BusSuspend
<1>5. CASE BusResume
  BY <1>5, QuietIInv DEF BusResume
<1>6. CASE UNCHANGED vars
  BY <1>6, QuietIInv DEF vars, IInv, TypeOK
<1> QED BY <1>1, <1>2, <1>3, <1>4, <1>5, <1>6, EnqueueIInv, SendIInv, ReadIInv,
           PortIInv DEF Next, Irq

LEMMA Invariance == Spec => []IInv
<1> QED BY InitIInv, NextIInv, PTL DEF Spec

(* The host cannot decode a block at most once for each port it opened,    *)
(* and the ring never holds more than its size: no frame is interleaved    *)
(* with another, cut, or overwritten.                                      *)
THEOREM WholeFramesHold == Spec => []WholeFrames
<1>1. IInv => WholeFrames
  BY DEF IInv, Tearing, Queued, WholeFrames
<1> QED BY <1>1, Invariance, PTL

(* The pipe implements the channel: the host receives accepted frames in   *)
(* the order they were accepted, and each at most once.                    *)
THEOREM PipeIsChannel == Spec => InOrderOnce
<1> USE DEF Channel!Init, Channel!Next, Channel!Accept, Channel!Arrive
<1>1. Init => Channel!Init
  BY DEF Init
<1>2. IInv /\ [Next]_vars => [Channel!Next]_<<accepted, decoded, received>>
  <2> SUFFICES ASSUME IInv, [Next]_vars
               PROVE  [Channel!Next]_<<accepted, decoded, received>>
    OBVIOUS
  <2>1. ASSUME NEW p \in Producers, Enqueue(p)
        PROVE  [Channel!Next]_<<accepted, decoded, received>>
    BY <2>1 DEF Enqueue
  <2>2. CASE HostRead
    <3>1. CASE decoded' = decoded /\ received' = received
      BY <2>2, <3>1 DEF HostRead
    <3>2. CASE /\ block # <<>>
               /\ decoded' = block[1][1] /\ received' = received + 1
      <4>1. block \in Seq(Bytes) /\ decoded \in Nat /\ accepted \in Nat
            /\ tx_cur.n \in Nat /\ tx_ring \in Seq(Frames)
        BY DEF IInv, TypeOK
      <4>2. block[1][1] \in Nat
        BY <3>2, <4>1, HeadIs, ByteIs
      <4>3. decoded < block[1][1] /\ block[1][1] <= tx_cur.n
        BY <3>2 DEF IInv, Ordered
      <4>4. tx_cur.n <= accepted
        <5>1. Len(tx_ring) \in Nat /\ tx_cur.n + Len(tx_ring) = accepted
          BY <4>1, LenProperties DEF IInv, Queued
        <5> QED BY <4>1, <5>1
      <4>5. block[1][1] \in decoded + 1 .. accepted
        BY <4>1, <4>2, <4>3, <4>4
      <4> QED BY <2>2, <3>2, <4>5 DEF HostRead
    <3> QED BY <2>2, <3>1, <3>2, ReadIs
  <2>3. CASE UNCHANGED vars
    BY <2>3 DEF vars
  <2>4. CASE \/ \E p \in Producers : Check(p) \/ EnableTx(p)
             \/ Irq \/ HostReopen \/ BusReset \/ BusConfigure \/ BusSuspend
             \/ BusResume
    BY <2>4 DEF Check, EnableTx, Irq, IrqIdle, IrqSend, HostReopen, BusReset,
                BusConfigure, BusSuspend, BusResume
  <2> QED BY <2>1, <2>2, <2>3, <2>4 DEF Next
<1> QED BY <1>1, <1>2, Invariance, PTL
        DEF Spec, InOrderOnce, Channel!Spec
=============================================================================
