---------------------------- MODULE ClientProofs ----------------------------
(***************************************************************************)
(* The safety of a session, for any number of trackers, any durations and  *)
(* any number of starts and faults: the callback of a handshake is never   *)
(* run after it, its verdict is about the dongle of the session, the list  *)
(* of trackers is true, stop() is prompt and silence is detected.          *)
(***************************************************************************)
EXTENDS Client, SequenceTheorems, WellFoundedInduction, TLAPS

Blocking == {"hello_read", "probe_read", "stream_read", "slice"}

\* Where the reader is between two sessions.
Apart == {"off", "loop", "search", "open", "backoff", "slice", "end"}

PCs == Apart \cup Blocking \cup {"probe", "hello", "stream", "close"}

Readers ==
  [pc : PCs, waited : BOOLEAN, elapsed : Nat, next_hello : Nat, sent : Nat,
   answered : BOOLEAN, ok : BOOLEAN, sweep : Nat, backoff : Nat]

Listings == [listed : BOOLEAN, orient_count : 0 .. COUNT_MAX, age : Nat]

TypeOK ==
  /\ app \in {"idle", "joining"}
  /\ quit_ \in BOOLEAN
  /\ state_ \in {"Closed", "Opening", "Handshaking", "Ready", "Lost", "Incompatible"}
  /\ target_ \in {"given", "search"}
  /\ reader \in Readers
  /\ transport_ \in {"closed", "open", "stale"}
  /\ on_hello_resp \in {"none", "live", "dangling"}
  /\ trackers_ \in [Ids -> Listings]
  /\ published \in SUBSET Ids
  /\ port \in [plugged : BOOLEAN, mute : BOOLEAN, compatible : BOOLEAN]
  /\ wire \in Seq(Frames)
  /\ silence \in Nat
  /\ peer \in BOOLEAN
  /\ swept \in BOOLEAN
  /\ patience \in Nat

(* The callback is in place for as long as its handshake goes on.          *)
Hooked ==
  /\ reader.pc \in {"hello", "hello_read"} => on_hello_resp = "live"
  /\ reader.pc \in {"stream", "stream_read"} => on_hello_resp = "none"

(* What a handshake can hear comes from the dongle that was there when the *)
(* port was opened: a port that is still open was not unplugged since.     *)
Session ==
  /\ transport_ = "open" => port.plugged
  /\ reader.pc \in {"hello", "hello_read"} =>
       /\ transport_ = "open" => (port.compatible <=> peer)
       /\ \A i \in 1 .. Len(wire) :
            wire[i].type = "HELLO_RESP" => (wire[i].compatible <=> peer)
       /\ reader.answered => (reader.ok <=> peer)
  /\ VerdictIsTrue

(* The age of a tracker exceeds its expiry by the time since the last sweep*)
(* at most, while the reader streams and sweeps in turn.                   *)
Sweeping ==
  /\ reader.pc \in {"stream", "stream_read"} => reader.sweep <= SWEEP_PERIOD
  /\ reader.pc = "stream" \/ (reader.pc = "stream_read" /\ ~reader.waited)
       => reader.sweep < SWEEP_PERIOD

Aged ==
  /\ \A id \in Ids : ~trackers_[id].listed => trackers_[id].age = 0
  /\ reader.pc \in {"hello", "hello_read"} => ~swept
  /\ swept /\ state_ = "Ready" =>
       \A id \in Ids : trackers_[id].age <= tracker_expiry_ms
         + (IF reader.pc \in {"stream", "stream_read"} THEN reader.sweep
                                                       ELSE SWEEP_PERIOD)

Listing == Sweeping /\ Aged /\ published \subseteq Visible(trackers_)

(* Who is where when stop() comes: a reader that is told to quit blocks no *)
(* more, unless it searches, and its search has a deadline.                *)
Stopping ==
  /\ app = "joining" => quit_
  /\ app = "idle" => patience = 0
  /\ quit_ /\ reader.pc # "off" => app = "joining"
  /\ state_ = "Ready" => \/ reader.pc \in {"stream", "stream_read", "close"}
                         \/ app = "joining" /\ reader.pc \in {"loop", "end", "off"}
  /\ (reader.pc \in Blocking \ {"probe_read"} /\ ~reader.waited) \/ reader.pc = "search"
       => patience = 0
  /\ reader.pc \in {"search", "probe", "probe_read"} => target_ = "search"
  /\ reader.pc \in {"probe", "probe_read"} =>
       patience <= reader.elapsed /\ reader.elapsed <= PROBE_DEADLINE
  /\ reader.pc = "probe_read" /\ ~reader.waited => reader.elapsed < PROBE_DEADLINE
  /\ StopPrompt

(* A frame that waits to be read has come since the last time the reader   *)
(* blocked; what the watchdog counts is no less than the silence.          *)
Waiting == reader.pc \in Blocking /\ reader.waited

Fresh ==
  /\ reader.pc \in Apart => transport_ = "closed"
  /\ wire # <<>> => transport_ # "closed"
  /\ wire # <<>> /\ reader.pc # "close" => silence <= IF Waiting THEN 1 ELSE 0
  /\ reader.pc = "hello" /\ reader.answered => silence <= 1
  /\ reader.pc = "hello_read" => ~reader.answered

Watched ==
  no_data_watchdog_ms > 0 /\ reader.pc \in {"stream", "stream_read"} =>
    /\ silence <= reader.elapsed + 1
    /\ reader.elapsed <= no_data_watchdog_ms + (IF Waiting THEN 1 ELSE 0)

IInv ==
  TypeOK /\ Hooked /\ Session /\ Listing /\ Stopping /\ Fresh /\ Watched
-----------------------------------------------------------------------------
LEMMA ConstantTypes ==
  /\ PROBE_DEADLINE \in Nat /\ PROBE_DEADLINE > 0
  /\ HELLO_DEADLINE \in Nat /\ HELLO_PERIOD \in Nat
  /\ SWEEP_PERIOD \in Nat /\ SWEEP_PERIOD > 0
  /\ no_data_watchdog_ms \in Nat /\ tracker_expiry_ms \in Nat
  /\ reconnect_ms \in Nat /\ reconnect_max_ms \in Nat
  /\ promote_after_orients \in Nat
  /\ COUNT_MAX \in Nat /\ COUNT_MAX >= promote_after_orients
  /\ STATUS_PERIOD \in Nat
BY ClientAssumption

LEMMA ReaderIs ==
  ASSUME TypeOK
  PROVE  /\ reader.pc \in PCs /\ reader.waited \in BOOLEAN
         /\ reader.elapsed \in Nat /\ reader.next_hello \in Nat /\ reader.sent \in Nat
         /\ reader.answered \in BOOLEAN /\ reader.ok \in BOOLEAN
         /\ reader.sweep \in Nat /\ reader.backoff \in Nat
BY DEF TypeOK, Readers

\* The reader begins something, with locals of its own.
Begins(pc) ==
  /\ reader' \in Readers /\ reader'.pc = pc /\ ~reader'.waited
  /\ reader'.elapsed = 0 /\ ~reader'.answered /\ ~reader'.ok /\ reader'.sweep = 0

LEMMA AtIs ==
  ASSUME TypeOK, NEW pc \in PCs, NEW b \in Nat,
         reader' = At(pc) \/ reader' = [At(pc) EXCEPT !.backoff = b]
  PROVE  Begins(pc)
<1> DEFINE r == At(pc)
           r2 == [At(pc) EXCEPT !.backoff = b]
<1>1. FALSE \in BOOLEAN /\ 0 \in Nat /\ reader.backoff \in Nat
  BY ReaderIs
<1>2. r \in Readers
  BY <1>1, Zenon DEF At, Readers
<1>3. /\ r.pc = pc /\ ~r.waited /\ r.elapsed = 0 /\ ~r.answered /\ ~r.ok /\ r.sweep = 0
  BY DEF At
<1> HIDE DEF r
<1>4. /\ r2 \in Readers
      /\ r2.pc = pc /\ ~r2.waited /\ r2.elapsed = 0 /\ ~r2.answered /\ ~r2.ok
      /\ r2.sweep = 0
  <2>1. r2 = [r EXCEPT !.backoff = b]
    BY DEF r
  <2> QED BY <1>2, <1>3, <2>1 DEF Readers
<1> QED BY <1>2, <1>3, <1>4 DEF Begins, r

\* The reader moves on, with what it has.
Moves(pc) ==
  /\ reader' \in Readers /\ reader'.pc = pc
  /\ reader'.elapsed = reader.elapsed /\ reader'.sweep = reader.sweep
  /\ reader'.answered <=> reader.answered
  /\ reader'.ok <=> reader.ok

LEMMA InitIInv == Init => IInv
<1> SUFFICES ASSUME Init PROVE IInv
  OBVIOUS
<1>1. /\ reader.pc = "off" /\ reader \in Readers
  <2>1. FALSE \in BOOLEAN /\ 0 \in Nat /\ reconnect_ms \in Nat /\ "off" \in PCs
    BY ConstantTypes DEF PCs, Apart
  <2>2. reader.pc = "off"
    BY DEF Init
  <2> QED BY <2>1, <2>2, Zenon DEF Init, Readers
<1>2. Unlisted \in Listings /\ ~Unlisted.listed /\ Unlisted.age = 0
  BY ConstantTypes DEF Unlisted, Listings
<1>3. trackers_ = [id \in Ids |-> Unlisted]
  BY DEF Init
<1>4. port \in [plugged : BOOLEAN, mute : BOOLEAN, compatible : BOOLEAN]
  BY DEF Init
<1>5. wire \in Seq(Frames) /\ wire = <<>>
  BY EmptySeq DEF Init
<1>6. TypeOK
  BY <1>1, <1>2, <1>3, <1>4, <1>5 DEF Init, TypeOK
<1>7. Hooked /\ Session /\ Fresh /\ Watched /\ Stopping
  BY <1>1, <1>5, ConstantTypes
  DEF Init, Hooked, Session, VerdictIsTrue, Fresh, Watched, Stopping, StopPrompt,
      Apart, Blocking
<1>8. Listing
  BY <1>1, <1>2, <1>3 DEF Init, Listing, Sweeping, Aged
<1> QED BY <1>6, <1>7, <1>8 DEF IInv

LEMMA MovesBy ==
  ASSUME TypeOK, NEW pc \in PCs, NEW b \in BOOLEAN,
         reader' = [reader EXCEPT !.pc = pc] \/ reader' = [reader EXCEPT !.pc = pc, !.waited = b]
  PROVE  /\ Moves(pc)
         /\ reader' = [reader EXCEPT !.pc = pc, !.waited = b] => (reader'.waited <=> b)
BY DEF TypeOK, Moves, Readers

LEMMA SentIs ==
  ASSUME TypeOK, NEW pc \in PCs, NEW next \in Nat,
         reader' = [reader EXCEPT !.pc = pc, !.waited = FALSE, !.next_hello = next,
                                  !.sent = @ + 1]
  PROVE  Moves(pc) /\ ~reader'.waited
<1> DEFINE r == [reader EXCEPT !.pc = pc, !.waited = FALSE]
           sent == reader.sent + 1
<1>1. FALSE \in BOOLEAN /\ sent \in Nat
  BY ReaderIs
<1>2. /\ r \in Readers /\ r.pc = pc /\ ~r.waited
      /\ r.elapsed = reader.elapsed /\ r.sweep = reader.sweep
      /\ (r.answered <=> reader.answered) /\ (r.ok <=> reader.ok)
  BY <1>1 DEF TypeOK, Readers
<1>3. reader' = [r EXCEPT !.next_hello = next, !.sent = sent]
  BY DEF TypeOK, Readers
<1> HIDE DEF r, sent
<1>4. /\ reader' \in Readers /\ reader'.pc = r.pc /\ (reader'.waited <=> r.waited)
      /\ reader'.elapsed = r.elapsed /\ reader'.sweep = r.sweep
      /\ (reader'.answered <=> r.answered) /\ (reader'.ok <=> r.ok)
  BY <1>1, <1>2, <1>3 DEF Readers
<1> QED BY <1>2, <1>4 DEF Moves

\* A failure leads to another attempt, or to the end of the run.
LEMMA AfterFailureIs ==
  ASSUME TypeOK, reader' = AfterFailure
  PROVE  Begins("backoff") \/ Begins("end")
<1>1. reader' = At("backoff") \/ reader' = At("end")
  BY DEF AfterFailure
<1> QED BY <1>1, AtIs, ReaderIs DEF PCs, Apart, Blocking

LEMMA AppIInv ==
  ASSUME IInv, Start \/ Stop \/ StopJoined
  PROVE  IInv'
<1> USE ConstantTypes
    DEF appVars, portVars, Begins, IInv, TypeOK, Hooked, Session, VerdictIsTrue,
        Listing, Sweeping, Aged, Visible, Stopping, StopPrompt, Fresh, Watched,
        Apart, Waiting, Blocking
<1>1. CASE Start
  <2>1. Begins("loop")
    BY <1>1, AtIs DEF Start, PCs
  <2>2. wire' = <<>> /\ wire' \in Seq(Frames)
    BY <1>1, EmptySeq DEF Start
  <2>3. TypeOK'
    BY <1>1, <2>1, <2>2 DEF Start
  <2>4. Hooked' /\ Session' /\ Fresh' /\ Watched'
    BY <1>1, <2>1, <2>2 DEF Start
  <2>5. Listing'
    BY <1>1, <2>1, <2>2 DEF Start
  <2>6. Stopping'
    BY <1>1, <2>1, <2>2 DEF Start
  <2> QED BY <2>3, <2>4, <2>5, <2>6
<1>2. CASE Stop
  BY <1>2 DEF Stop
<1>3. CASE StopJoined
  <2>1. wire' = <<>> /\ wire' \in Seq(Frames)
    BY <1>3, EmptySeq DEF StopJoined
  <2> QED BY <1>3, <2>1 DEF StopJoined
<1> QED BY <1>1, <1>2, <1>3

LEMMA AttemptIInv ==
  ASSUME IInv, Loop \/ OpenFail \/ Search \/ Probed \/ OpenOk
  PROVE  IInv'
<1> USE ConstantTypes
    DEF appVars, portVars, Begins, IInv, TypeOK, Hooked, Session, VerdictIsTrue,
        Listing, Sweeping, Aged, Visible, Stopping, StopPrompt, Fresh, Watched,
        Apart, Waiting, Blocking
<1>1. CASE Loop
  <2>1. \/ quit_ /\ Begins("end") /\ UNCHANGED state_
        \/ /\ ~quit_ /\ state_' = "Opening"
           /\ Begins("open") \/ (target_ = "search" /\ Begins("search"))
    BY <1>1, AtIs DEF Loop, PCs
  <2> QED BY <1>1, <2>1 DEF Loop
<1>2. CASE OpenFail
  <2>1. Begins("backoff") \/ Begins("end")
    BY <1>2, AfterFailureIs DEF OpenFail
  <2> QED BY <1>2, <2>1 DEF OpenFail
<1>3. CASE Search
  <2>1. Begins("probe")
    BY <1>3, AtIs DEF Search, PCs
  <2>2. wire' = <<>> /\ wire' \in Seq(Frames)
    BY <1>3, EmptySeq DEF Search
  <2> QED BY <1>3, <2>1, <2>2 DEF Search
<1>4. CASE Probed
  <2>1. \/ Begins("open") /\ UNCHANGED state_
        \/ (Begins("backoff") \/ Begins("end")) /\ state_' = "Lost"
    BY <1>4, AtIs, AfterFailureIs DEF Probed, PCs
  <2>2. wire' = <<>> /\ wire' \in Seq(Frames)
    BY <1>4, EmptySeq DEF Probed
  <2> QED BY <1>4, <2>1, <2>2 DEF Probed
<1>5. CASE OpenOk
  <2>1. Begins("hello")
    BY <1>5, AtIs DEF OpenOk, Handshake, PCs
  <2>2. wire' = <<>> /\ wire' \in Seq(Frames) /\ Len(wire') = 0
    BY <1>5, EmptySeq DEF OpenOk
  <2>3. TypeOK'
    BY <1>5, <2>1, <2>2 DEF OpenOk
  <2>4. Hooked' /\ Session' /\ Fresh' /\ Watched'
    BY <1>5, <2>1, <2>2 DEF OpenOk
  <2>5. Listing'
    BY <1>5, <2>1, <2>2 DEF OpenOk
  <2>6. Stopping'
    BY <1>5, <2>1, <2>2 DEF OpenOk
  <2> QED BY <2>3, <2>4, <2>5, <2>6
<1> QED BY <1>1, <1>2, <1>3, <1>4, <1>5

LEMMA PauseIInv ==
  ASSUME IInv, Slice \/ SliceOver \/ BackoffOver \/ End
  PROVE  IInv'
<1> USE ConstantTypes
    DEF appVars, portVars, Begins, IInv, TypeOK, Hooked, Session, VerdictIsTrue,
        Listing, Sweeping, Aged, Visible, Stopping, StopPrompt, Fresh, Watched,
        Apart, Waiting, Blocking
<1> USE DEF Moves
<1>1. CASE Slice
  <2>1. Moves("slice") /\ ~reader'.waited
    BY <1>1, MovesBy DEF Slice, PCs
  <2> QED BY <1>1, <2>1 DEF Slice, SleptEnough
<1>2. CASE SliceOver
  <2>1. Moves("backoff")
    BY <1>2, MovesBy DEF SliceOver, PCs
  <2> QED BY <1>2, <2>1 DEF SliceOver
<1>3. CASE BackoffOver
  <2>1. Begins("loop")
    <3> DEFINE b == IF 2 * reader.backoff < reconnect_max_ms
                    THEN 2 * reader.backoff ELSE reconnect_max_ms
    <3>1. reader' = [At("loop") EXCEPT !.backoff = b]
      BY <1>3, Zenon DEF BackoffOver
    <3>2. b \in Nat
      <4>1. reader.backoff \in Nat
        BY ReaderIs
      <4> QED BY <4>1
    <3> HIDE DEF b
    <3> QED BY <3>1, <3>2, AtIs DEF PCs
  <2> QED BY <1>3, <2>1 DEF BackoffOver
<1>4. CASE End
  <2>1. Begins("off")
    BY <1>4, AtIs DEF End, PCs
  <2> QED BY <1>4, <2>1 DEF End
<1> QED BY <1>1, <1>2, <1>3, <1>4

LEMMA AskIInv ==
  ASSUME IInv, SendHello \/ SkipHello \/ HelloTimeout \/ HelloError
               \/ HandshakeFailed \/ HandshakeDone
  PROVE  IInv'
<1> USE ConstantTypes
    DEF appVars, portVars, Begins, IInv, TypeOK, Hooked, Session, VerdictIsTrue,
        Listing, Sweeping, Aged, Visible, Stopping, StopPrompt, Fresh, Watched,
        Apart, Waiting, Blocking
<1> USE DEF Moves
<1>1. CASE SendHello
  <2>1. /\ \/ reader.pc = "hello" /\ ~HandshakeOver
           \/ reader.pc = "probe" /\ ~ProbeOver
        /\ reader'.pc = ReadNext /\ reader' \in Readers /\ ~reader'.waited
        /\ reader'.elapsed = reader.elapsed /\ reader'.sweep = reader.sweep
        /\ reader'.answered <=> reader.answered
        /\ reader'.ok <=> reader.ok
    <3>1. ReadNext \in PCs /\ reader.elapsed + HELLO_PERIOD \in Nat
      BY ReaderIs DEF ReadNext, PCs
    <3>2. reader' = [reader EXCEPT !.pc = ReadNext, !.waited = FALSE,
                       !.next_hello = reader.elapsed + HELLO_PERIOD,
                       !.sent = @ + 1]
      BY <1>1 DEF SendHello
    <3>3. Asking
      BY <1>1 DEF SendHello
    <3>4. /\ reader'.pc = ReadNext /\ reader' \in Readers /\ ~reader'.waited
          /\ reader'.elapsed = reader.elapsed /\ reader'.sweep = reader.sweep
          /\ reader'.answered <=> reader.answered
          /\ reader'.ok <=> reader.ok
      BY <3>1, <3>2, SentIs, ReaderIs
    <3>5. \/ reader.pc = "hello" /\ ~HandshakeOver
          \/ reader.pc = "probe" /\ ~ProbeOver
      BY <3>3 DEF Asking
    <3> QED BY <3>4, <3>5
  <2>3. TypeOK'
    BY <1>1, <2>1 DEF SendHello
  <2>4. Hooked' /\ Session' /\ Fresh' /\ Watched'
    BY <1>1, <2>1 DEF SendHello, ReadNext, HandshakeOver, ProbeOver
  <2>5. Listing'
    BY <1>1, <2>1 DEF SendHello, ReadNext
  <2>6. Stopping'
    <3>1. CASE reader.pc = "hello"
      <4>1. reader'.pc = "hello_read" /\ ~quit_
        BY <2>1, <3>1 DEF ReadNext, HandshakeOver
      <4> QED BY <1>1, <2>1, <3>1, <4>1, ReaderIs DEF SendHello
    <3>2. CASE reader.pc = "probe"
      <4>1. reader'.pc = "probe_read" /\ reader.elapsed < PROBE_DEADLINE
        BY <2>1, <3>2, ReaderIs DEF ReadNext, ProbeOver
      <4> QED BY <1>1, <2>1, <3>2, <4>1, ReaderIs DEF SendHello
    <3> QED BY <2>1, <3>1, <3>2
  <2> QED BY <2>3, <2>4, <2>5, <2>6
<1>2. CASE SkipHello
  <2>1. \/ Moves("hello_read") /\ ~reader'.waited /\ reader.pc = "hello"
        \/ Moves("probe_read") /\ ~reader'.waited /\ reader.pc = "probe"
    BY <1>2, MovesBy DEF SkipHello, ReadNext, Asking, PCs
  <2>3. TypeOK'
    BY <1>2, <2>1 DEF SkipHello, Asking
  <2>4. Hooked' /\ Session' /\ Fresh' /\ Watched'
    BY <1>2, <2>1 DEF SkipHello, Asking, HandshakeOver, ProbeOver
  <2>5. Listing'
    BY <1>2, <2>1 DEF SkipHello, Asking
  <2>6. Stopping'
    <3>1. CASE reader.pc = "hello"
      <4>1. reader'.pc = "hello_read" /\ ~reader'.waited /\ ~quit_
        BY <1>2, <2>1, <3>1 DEF SkipHello, Asking, HandshakeOver
      <4> QED BY <1>2, <2>1, <3>1, <4>1, ReaderIs DEF SkipHello
    <3>2. CASE reader.pc = "probe"
      <4>1. reader'.pc = "probe_read" /\ reader.elapsed < PROBE_DEADLINE
        <5>1. ~ProbeOver
          BY <1>2, <3>2, Zenon DEF SkipHello, Asking
        <5> QED BY <2>1, <3>2, <5>1, ReaderIs DEF ProbeOver
      <4> QED BY <1>2, <2>1, <3>2, <4>1, ReaderIs DEF SkipHello
    <3> QED BY <2>1, <3>1, <3>2
  <2> QED BY <2>3, <2>4, <2>5, <2>6
<1>3. CASE HelloTimeout
  <2>1. \/ Moves("hello") /\ reader.pc = "hello_read"
        \/ Moves("probe") /\ reader.pc = "probe_read"
    BY <1>3, MovesBy DEF HelloTimeout, PCs
  <2> QED BY <1>3, <2>1 DEF HelloTimeout
<1>4. CASE HelloError
  <2>1. Begins("backoff") \/ Begins("end")
    BY <1>4, AfterFailureIs DEF HelloError
  <2>2. wire' = <<>> /\ wire' \in Seq(Frames)
    BY <1>4, EmptySeq DEF HelloError
  <2> QED BY <1>4, <2>1, <2>2 DEF HelloError
<1>5. CASE HandshakeFailed
  <2>1. \/ reader.answered /\ ~reader.ok /\ state_' = "Incompatible" /\ Begins("end")
        \/ state_' = "Lost" /\ (Begins("backoff") \/ Begins("end"))
    BY <1>5, AtIs, AfterFailureIs DEF HandshakeFailed, PCs
  <2>2. wire' = <<>> /\ wire' \in Seq(Frames)
    BY <1>5, EmptySeq DEF HandshakeFailed
  <2> QED BY <1>5, <2>1, <2>2 DEF HandshakeFailed, Unhooked
<1>6. CASE HandshakeDone
  <2>1. Begins("stream")
    BY <1>6, AtIs DEF HandshakeDone, PCs
  <2> QED BY <1>6, <2>1 DEF HandshakeDone, Unhooked
<1> QED BY <1>1, <1>2, <1>3, <1>4, <1>5, <1>6
-----------------------------------------------------------------------------
(* What is read.                                                           *)

LEMMA FrameIs ==
  ASSUME NEW f \in Frames
  PROVE  /\ f.type \in {"ORIENT", "TRACKER_STAT"} => f.id \in Ids
         /\ f.type = "HELLO_RESP" => f.compatible \in BOOLEAN
BY DEF Frames

\* What frames do to the list: a tracker that is heard of is listed and new.
Grown(t, t2) ==
  /\ t2.orient_count >= t.orient_count
  /\ t.listed => t2.listed
  /\ \/ (t2.listed <=> t.listed) /\ t2.age = t.age
     \/ t2.listed /\ t2.age = 0

GrownList(ts, ts2) ==
  ts2 \in [Ids -> Listings] /\ \A id \in Ids : Grown(ts[id], ts2[id])

LEMMA SameIsGrown ==
  ASSUME NEW ts \in [Ids -> Listings]
  PROVE  GrownList(ts, ts)
<1>1. ASSUME NEW id \in Ids PROVE Grown(ts[id], ts[id])
  <2>1. ts[id].orient_count \in 0 .. COUNT_MAX
    BY DEF Listings
  <2>2. ts[id].orient_count >= ts[id].orient_count
    BY <2>1, ConstantTypes
  <2> QED BY <2>2, Zenon DEF Grown
<1> QED BY <1>1 DEF GrownList

LEMMA HeardIs ==
  ASSUME NEW ts, NEW ts2, NEW f \in Frames, GrownList(ts, ts2), ts \in [Ids -> Listings]
  PROVE  GrownList(ts, Heard(ts2, f))
<1>1. CASE f.type \notin {"ORIENT", "TRACKER_STAT"}
  BY <1>1 DEF Heard
<1>2. CASE f.type \in {"ORIENT", "TRACKER_STAT"}
  <2> DEFINE new == Noted(ts2[f.id], f)
             ts3 == [ts2 EXCEPT ![f.id] = new]
  <2>1. f.id \in Ids /\ ts2 \in [Ids -> Listings]
    BY <1>2, FrameIs DEF GrownList
  <2>2. /\ ts2[f.id].orient_count \in 0 .. COUNT_MAX
        /\ ts[f.id].orient_count \in 0 .. COUNT_MAX
        /\ ts2[f.id].orient_count >= ts[f.id].orient_count
    BY <2>1 DEF Listings, GrownList, Grown
  <2> DEFINE count == IF f.type = "ORIENT" THEN Counted(ts2[f.id].orient_count)
                                           ELSE COUNT_MAX
  <2>3. count \in 0 .. COUNT_MAX /\ count >= ts[f.id].orient_count
    BY <2>2, ConstantTypes DEF Counted
  <2>4. TRUE \in BOOLEAN /\ 0 \in Nat
    OBVIOUS
  <2>5. new = [listed |-> TRUE, age |-> 0, orient_count |-> count]
    BY DEF Noted
  <2> HIDE DEF new, count
  <2>6. new \in Listings
    BY <2>3, <2>4, <2>5, Zenon DEF Listings
  <2>7. new.listed /\ new.age = 0 /\ new.orient_count = count
    BY <2>5
  <2>8. Grown(ts[f.id], new)
    BY <2>3, <2>7 DEF Grown
  <2>9. ts3 \in [Ids -> Listings] /\ ts3[f.id] = new
        /\ \A id \in Ids : id # f.id => ts3[id] = ts2[id]
    BY <2>1, <2>6
  <2>10. GrownList(ts, ts3)
    BY <2>8, <2>9 DEF GrownList
  <2> QED BY <1>2, <2>10 DEF Heard, new
<1> QED BY <1>1, <1>2

\* A property of 0 that each number hands on to the next one.
LEMMA UpTo ==
  ASSUME NEW n \in Nat, NEW T, 0 \in T, \A i \in 0 .. n - 1 : i \in T => i + 1 \in T
  PROVE  \A i \in 0 .. n : i \in T
<1> DEFINE R == OpToRel(<, Nat)
           B == (0 .. n) \ T
<1>1. IsWellFoundedOn(R, Nat)
  BY NatLessThanWellFounded
<1>2. \A x, y \in Nat : y < x => <<y, x>> \in R
  BY DEF OpToRel
<1> HIDE DEF R
<1>3. SUFFICES ASSUME B # {} PROVE FALSE
  OBVIOUS
<1>4. PICK x \in B : \A y \in B : ~(<<y, x>> \in R)
  <2>1. B \subseteq Nat
    OBVIOUS
  <2> HIDE DEF B
  <2> QED BY <1>1, <1>3, <2>1, WFMin
<1>5. x \in 1 .. n /\ x - 1 \in 0 .. n - 1
  OBVIOUS
<1>6. x - 1 \notin B
  <2>1. x \in Nat /\ x - 1 \in Nat /\ x - 1 < x
    BY <1>5
  <2>2. <<x - 1, x>> \in R
    BY <1>2, <2>1
  <2> HIDE DEF B
  <2> QED BY <1>4, <2>2
<1> QED BY <1>4, <1>5, <1>6

Lists(chunk, u) ==
  u = [i \in 0 .. Len(chunk) |->
         IF i = 0 THEN trackers_ ELSE Heard(u[i - 1], chunk[i])]

LEMMA ListsExist ==
  ASSUME NEW chunk \in Seq(Frames)
  PROVE  \E u : Lists(chunk, u)
<1> DEFINE Upto(n, u) ==
             u = [i \in 0 .. n |-> IF i = 0 THEN trackers_ ELSE Heard(u[i - 1], chunk[i])]
           T == {n \in Nat : \E u : Upto(n, u)}
<1>1. Len(chunk) \in Nat
  BY LenProperties
<1>2. 0 \in T
  <2>1. Upto(0, [i \in 0 .. 0 |-> trackers_])
    OBVIOUS
  <2> QED BY <2>1
<1>3. ASSUME NEW n \in 0 .. Len(chunk) - 1, n \in T PROVE n + 1 \in T
  <2>1. PICK u : Upto(n, u)
    BY <1>3
  <2> DEFINE v == [i \in 0 .. n + 1 |->
                     IF i <= n THEN u[i] ELSE Heard(u[n], chunk[n + 1])]
  <2>2. ASSUME NEW i \in 0 .. n + 1
        PROVE  v[i] = IF i = 0 THEN trackers_ ELSE Heard(v[i - 1], chunk[i])
    <3>1. CASE i = 0
      BY <2>1, <3>1
    <3>2. CASE i \in 1 .. n
      <4>1. u[i] = Heard(u[i - 1], chunk[i])
        BY <2>1, <3>2
      <4> QED BY <3>2, <4>1
    <3>3. CASE i = n + 1
      BY <1>1, <3>3
    <3> QED BY <3>1, <3>2, <3>3
  <2>3. Upto(n + 1, v)
    BY <2>2, Zenon
  <2>4. n + 1 \in Nat
    BY <1>1
  <2> HIDE DEF v, Upto
  <2> QED BY <2>3, <2>4
<1> HIDE DEF T
<1>4. \A i \in 0 .. Len(chunk) : i \in T
  BY <1>1, <1>2, <1>3, UpTo
<1>5. Len(chunk) \in T
  BY <1>1, <1>4
<1> QED BY <1>5 DEF T, Lists

LEMMA FedIs ==
  ASSUME NEW chunk \in Seq(Frames), trackers_ \in [Ids -> Listings]
  PROVE  GrownList(trackers_, Fed(chunk))
<1>1. PICK u : Lists(chunk, u) /\ Fed(chunk) = u[Len(chunk)]
  <2> DEFINE w == CHOOSE u : Lists(chunk, u)
  <2>1. Lists(chunk, w)
    BY ListsExist
  <2>2. Fed(chunk) = w[Len(chunk)]
    BY DEF Fed, Lists
  <2> QED BY <2>1, <2>2
<1>2. Len(chunk) \in Nat
  BY LenProperties
<1>3. /\ u[0] = trackers_
      /\ \A i \in 1 .. Len(chunk) : u[i] = Heard(u[i - 1], chunk[i])
  BY <1>1, <1>2 DEF Lists
<1> DEFINE T == {i \in 0 .. Len(chunk) : GrownList(trackers_, u[i])}
<1>4. 0 \in T
  <2>1. GrownList(trackers_, trackers_)
    BY SameIsGrown
  <2> QED BY <1>2, <1>3, <2>1
<1>5. ASSUME NEW i \in 0 .. Len(chunk) - 1, i \in T PROVE i + 1 \in T
  <2>1. u[i + 1] = Heard(u[i], chunk[i + 1]) /\ i + 1 \in 0 .. Len(chunk)
    BY <1>2, <1>3
  <2>2. chunk[i + 1] \in Frames
    BY <1>2, ElementOfSeq
  <2> QED BY <1>5, <2>1, <2>2, HeardIs
<1> HIDE DEF T
<1>6. Len(chunk) \in T
  BY <1>2, <1>4, <1>5, UpTo
<1> QED BY <1>1, <1>6 DEF T

LEMMA MaxIs ==
  ASSUME NEW n \in Nat, NEW S, S \subseteq 1 .. n, S # {}
  PROVE  Max(S) \in S
<1> DEFINE R == OpToRel(<, Nat)
           B == {i \in Nat : \E x \in S : i = n - x}
<1>1. IsWellFoundedOn(R, Nat)
  BY NatLessThanWellFounded
<1>2. \A x, y \in Nat : y < x => <<y, x>> \in R
  BY DEF OpToRel
<1> HIDE DEF R
<1>3. B # {} /\ B \subseteq Nat
  <2>1. PICK x \in S : TRUE
    OBVIOUS
  <2>2. n - x \in B
    BY <2>1
  <2> QED BY <2>2
<1>4. PICK b \in B : \A y \in B : ~(<<y, b>> \in R)
  <2> HIDE DEF B
  <2> QED BY <1>1, <1>3, WFMin
<1>5. PICK m \in S : b = n - m
  BY <1>4
<1>6. \A x \in S : x <= m
  <2> TAKE x \in S
  <2>1. n - x \in B /\ n - x \in Nat /\ b \in Nat
    BY <1>4
  <2>2. ~(n - x < b)
    BY <1>2, <1>4, <2>1
  <2> QED BY <1>5, <2>1, <2>2
<1>7. \E m2 \in S : \A y \in S : m2 >= y
  BY <1>6
<1> QED BY <1>7 DEF Max

\* The answers in a chunk: what they say, and the reader that has heard them.
LEMMA AnsweredIs ==
  ASSUME TypeOK, NEW pc \in PCs, reader' = [Answered(wire) EXCEPT !.pc = pc]
  PROVE  /\ reader' \in Readers /\ reader'.pc = pc
         /\ reader'.elapsed = reader.elapsed /\ reader'.sweep = reader.sweep
         /\ \/ (reader'.answered <=> reader.answered) /\ (reader'.ok <=> reader.ok)
            \/ /\ reader'.answered
               /\ \E i \in 1 .. Len(wire) : /\ wire[i].type = "HELLO_RESP"
                                            /\ reader'.ok <=> wire[i].compatible
<1>1. CASE Resps(wire) = {}
  <2>1. reader' = [reader EXCEPT !.pc = pc]
    BY <1>1 DEF Answered
  <2> QED BY <2>1, MovesBy DEF Moves
<1>2. CASE Resps(wire) # {}
  <2> DEFINE i == Max(Resps(wire))
             yes == wire[i].compatible
             r == [reader EXCEPT !.pc = pc]
  <2>1. Len(wire) \in Nat /\ DOMAIN wire = 1 .. Len(wire)
    BY LenProperties DEF TypeOK
  <2>2. i \in Resps(wire)
    BY <1>2, <2>1, MaxIs DEF Resps
  <2>3. i \in 1 .. Len(wire) /\ wire[i].type = "HELLO_RESP"
    BY <2>1, <2>2 DEF Resps
  <2>4. yes \in BOOLEAN /\ TRUE \in BOOLEAN
    BY <2>3, ElementOfSeq, FrameIs DEF TypeOK
  <2>5. reader' = [r EXCEPT !.answered = TRUE, !.ok = yes]
    BY <1>2 DEF Answered, TypeOK, Readers
  <2>6. /\ r \in Readers /\ r.pc = pc
        /\ r.elapsed = reader.elapsed /\ r.sweep = reader.sweep
    BY DEF TypeOK, Readers
  <2> HIDE DEF r, yes
  <2>7. /\ reader' \in Readers /\ reader'.pc = r.pc /\ reader'.answered
        /\ reader'.elapsed = r.elapsed /\ reader'.sweep = r.sweep
        /\ (reader'.ok <=> yes)
    BY <2>4, <2>5, <2>6 DEF Readers
  <2> QED BY <2>3, <2>6, <2>7 DEF yes
<1> QED BY <1>1, <1>2

\* A list that has grown shows no less, and nothing in it is older.
LEMMA GrownIs ==
  ASSUME TypeOK, NEW ts, GrownList(trackers_, ts)
  PROVE  /\ ts \in [Ids -> Listings]
         /\ Visible(trackers_) \subseteq Visible(ts)
         /\ \A id \in Ids : /\ ts[id].age \in Nat
                            /\ ts[id].age <= trackers_[id].age
                            /\ ~ts[id].listed =>
                                 ~trackers_[id].listed /\ ts[id].age = trackers_[id].age
<1>1. trackers_ \in [Ids -> Listings] /\ ts \in [Ids -> Listings]
  BY DEF TypeOK, GrownList
<1>2. ASSUME NEW id \in Ids
      PROVE  /\ ts[id].age \in Nat
             /\ ts[id].age <= trackers_[id].age
             /\ ~ts[id].listed =>
                  ~trackers_[id].listed /\ ts[id].age = trackers_[id].age
             /\ id \in Visible(trackers_) => id \in Visible(ts)
  <2>1. Grown(trackers_[id], ts[id])
    BY DEF GrownList
  <2>2. trackers_[id] \in Listings /\ ts[id] \in Listings
    BY <1>1
  <2> QED BY <2>1, <2>2, ConstantTypes DEF Grown, Visible, Listings
<1>3. Visible(trackers_) \subseteq Visible(ts)
  BY <1>2 DEF Visible
<1> QED BY <1>1, <1>2, <1>3

LEMMA HearIInv ==
  ASSUME IInv, ProbeRead \/ HelloRead
  PROVE  IInv'
<1> USE ConstantTypes
    DEF appVars, portVars, Begins, IInv, TypeOK, Hooked, Session, VerdictIsTrue,
        Listing, Sweeping, Aged, Visible, Stopping, StopPrompt, Fresh, Watched,
        Apart, Waiting, Blocking
<1>1. wire' = <<>> /\ wire' \in Seq(Frames) /\ wire # <<>> /\ Len(wire') = 0
  BY EmptySeq DEF ProbeRead, HelloRead
<1>2. CASE ProbeRead
  <2>1. /\ reader' \in Readers /\ reader'.pc = "probe"
        /\ reader'.elapsed = reader.elapsed /\ reader'.sweep = reader.sweep
    BY <1>2, AnsweredIs DEF ProbeRead, PCs
  <2> QED BY <1>1, <1>2, <2>1 DEF ProbeRead
<1>3. CASE HelloRead
  <2>1. /\ reader' \in Readers /\ reader'.pc = "hello"
        /\ reader'.elapsed = reader.elapsed /\ reader'.sweep = reader.sweep
        /\ \/ (reader'.answered <=> reader.answered) /\ (reader'.ok <=> reader.ok)
           \/ /\ reader'.answered
              /\ \E i \in 1 .. Len(wire) : /\ wire[i].type = "HELLO_RESP"
                                           /\ reader'.ok <=> wire[i].compatible
    BY <1>3, AnsweredIs DEF HelloRead, PCs
  <2>2. GrownList(trackers_, trackers_')
    BY <1>3, FedIs DEF HelloRead
  <2>3. TypeOK'
    BY <1>1, <1>3, <2>1, <2>2, GrownIs DEF HelloRead
  <2>4. Hooked' /\ Session' /\ Fresh' /\ Watched'
    BY <1>1, <1>3, <2>1 DEF HelloRead
  <2>5. Listing'
    BY <1>3, <2>1, <2>2, GrownIs DEF HelloRead
  <2>6. Stopping'
    BY <1>3, <2>1 DEF HelloRead
  <2> QED BY <2>3, <2>4, <2>5, <2>6
<1> QED BY <1>2, <1>3

\* The list that a sweep leaves.
Kept(ts) == [id \in Ids |-> IF Expired(ts[id]) THEN Unlisted ELSE ts[id]]

LEMMA KeptIs ==
  ASSUME NEW ts \in [Ids -> Listings]
  PROVE  /\ Kept(ts) \in [Ids -> Listings]
         /\ \A id \in Ids :
              /\ Kept(ts)[id].age <= ts[id].age
              /\ Kept(ts)[id].listed => Kept(ts)[id].age <= tracker_expiry_ms
              /\ ~Kept(ts)[id].listed /\ (ts[id].listed \/ ts[id].age = 0)
                   => Kept(ts)[id].age = 0
<1>1. Unlisted \in Listings /\ ~Unlisted.listed /\ Unlisted.age = 0
  BY ConstantTypes DEF Unlisted, Listings
<1>2. ASSUME NEW id \in Ids
      PROVE  /\ Kept(ts)[id] \in Listings
             /\ Kept(ts)[id].age <= ts[id].age
             /\ Kept(ts)[id].listed => Kept(ts)[id].age <= tracker_expiry_ms
             /\ ~Kept(ts)[id].listed /\ (ts[id].listed \/ ts[id].age = 0)
                  => Kept(ts)[id].age = 0
  <2>1. Kept(ts)[id] = IF Expired(ts[id]) THEN Unlisted ELSE ts[id]
    BY DEF Kept
  <2>2. ts[id] \in Listings /\ ts[id].age \in Nat
    BY DEF Listings
  <2>3. CASE Expired(ts[id])
    BY <1>1, <2>1, <2>2, <2>3
  <2>4. CASE ~Expired(ts[id])
    BY <2>1, <2>2, <2>4, ConstantTypes DEF Expired
  <2> QED BY <2>3, <2>4
<1>3. Kept(ts) \in [Ids -> Listings]
  BY <1>2 DEF Kept
<1> QED BY <1>2, <1>3

\* What a read leaves, whether it is the turn of the sweep or not.
LEMMA AfterReadIs ==
  ASSUME TypeOK, NEW ts, NEW e \in Nat, AfterRead(ts, e)
  PROVE  /\ reader' \in Readers /\ reader'.pc = "stream" /\ reader'.elapsed = e
         /\ \/ /\ reader.sweep >= SWEEP_PERIOD /\ reader'.sweep = 0
               /\ trackers_' = Kept(ts) /\ published' = Visible(trackers_') /\ swept'
            \/ /\ reader.sweep < SWEEP_PERIOD /\ reader'.sweep = reader.sweep
               /\ trackers_' = ts /\ UNCHANGED <<published, swept>>
<1> DEFINE r == [reader EXCEPT !.pc = "stream", !.elapsed = e]
           s == IF SweepDue THEN 0 ELSE reader.sweep
<1>1. r \in Readers /\ r.pc = "stream" /\ r.elapsed = e /\ s \in Nat
  BY DEF TypeOK, Readers, PCs
<1>2. reader' = [r EXCEPT !.sweep = s]
  BY DEF AfterRead, TypeOK, Readers
<1>3. /\ SweepDue => reader.sweep >= SWEEP_PERIOD /\ s = 0
      /\ ~SweepDue => reader.sweep < SWEEP_PERIOD /\ s = reader.sweep
  BY ReaderIs, ConstantTypes DEF SweepDue
<1> HIDE DEF r, s
<1>4. reader' \in Readers /\ reader'.pc = "stream" /\ reader'.elapsed = e /\ reader'.sweep = s
  BY <1>1, <1>2 DEF Readers
<1>5. CASE SweepDue
  <2>1. trackers_' = Kept(ts) /\ published' = Visible(Kept(ts)) /\ swept'
    BY <1>5 DEF AfterRead, Sweep, Kept
  <2> QED BY <1>3, <1>4, <1>5, <2>1
<1>6. CASE ~SweepDue
  <2>1. trackers_' = ts /\ UNCHANGED <<published, swept>>
    BY <1>6 DEF AfterRead
  <2> QED BY <1>3, <1>4, <1>6, <2>1
<1> QED BY <1>5, <1>6

\* The list is true after a read while Ready, given the list it started from.
LEMMA ReadIsTrue ==
  ASSUME IInv, NEW ts, NEW e \in Nat, AfterRead(ts, e), GrownList(trackers_, ts),
         reader.pc = "stream_read", UNCHANGED state_
  PROVE  /\ trackers_' \in [Ids -> Listings] /\ published' \in SUBSET Ids /\ swept' \in BOOLEAN
         /\ Listing'
<1>1. /\ reader' \in Readers /\ reader'.pc = "stream"
      /\ \/ /\ reader.sweep >= SWEEP_PERIOD /\ reader'.sweep = 0
            /\ trackers_' = Kept(ts) /\ published' = Visible(trackers_') /\ swept'
         \/ /\ reader.sweep < SWEEP_PERIOD /\ reader'.sweep = reader.sweep
            /\ trackers_' = ts /\ UNCHANGED <<published, swept>>
  BY AfterReadIs DEF IInv
<1>2. /\ ts \in [Ids -> Listings]
      /\ Visible(trackers_) \subseteq Visible(ts)
      /\ \A id \in Ids : /\ ts[id].age \in Nat
                         /\ ts[id].age <= trackers_[id].age
                         /\ ~ts[id].listed => ts[id].age = 0
  BY GrownIs DEF IInv, Listing, Aged
<1>3. CASE reader.sweep < SWEEP_PERIOD
  <2>1. \A id \in Ids : trackers_[id].age \in Nat
    BY DEF IInv, TypeOK, Listings
  <2>2. /\ reader'.sweep = reader.sweep /\ trackers_' = ts
        /\ UNCHANGED <<published, swept>>
    BY <1>1, <1>3, ReaderIs, ConstantTypes DEF IInv
  <2>3. Sweeping'
    BY <1>1, <1>3, <2>2, ReaderIs, ConstantTypes DEF IInv, Sweeping
  <2>4. Aged'
    <3>1. swept /\ state_ = "Ready" =>
            \A id \in Ids : trackers_[id].age <= tracker_expiry_ms + reader.sweep
      BY DEF IInv, Listing, Aged
    <3>2. swept /\ state_ = "Ready" =>
            \A id \in Ids : ts[id].age <= tracker_expiry_ms + reader.sweep
      BY <1>2, <2>1, <3>1, ReaderIs, ConstantTypes DEF IInv
    <3>3. swept' /\ state_' = "Ready" =>
            \A id \in Ids : trackers_'[id].age <= tracker_expiry_ms + reader'.sweep
      BY <2>2, <3>2
    <3> QED BY <1>1, <1>2, <2>2, <3>3 DEF Aged
  <2> QED
    BY <1>1, <1>2, <2>2, <2>3, <2>4 DEF IInv, TypeOK, Listing
<1>4. CASE reader.sweep >= SWEEP_PERIOD
  <2> DEFINE kept == Kept(ts)
  <2>1. /\ kept \in [Ids -> Listings]
        /\ \A id \in Ids : /\ ~kept[id].listed => kept[id].age = 0
                           /\ kept[id].age \in Nat
                           /\ kept[id].age <= tracker_expiry_ms
    <3>1. /\ kept \in [Ids -> Listings]
          /\ \A id \in Ids :
               /\ kept[id].listed => kept[id].age <= tracker_expiry_ms
               /\ ~kept[id].listed /\ (ts[id].listed \/ ts[id].age = 0)
                    => kept[id].age = 0
      BY <1>2, KeptIs
    <3>2. \A id \in Ids : kept[id].age \in Nat
      BY <3>1 DEF Listings
    <3> HIDE DEF kept
    <3> QED BY <1>2, <3>1, <3>2, ConstantTypes
  <2>2. trackers_' = kept /\ published' = Visible(trackers_') /\ swept' /\ reader'.sweep = 0
    BY <1>1, <1>4, ReaderIs, ConstantTypes DEF IInv
  <2> HIDE DEF kept
  <2>3. Sweeping'
    BY <1>1, <2>2, ConstantTypes DEF Sweeping
  <2>4. Aged'
    BY <1>1, <2>1, <2>2, ConstantTypes DEF Aged
  <2>5. published' \subseteq Visible(trackers_') /\ published' \in SUBSET Ids
    BY <2>2 DEF Visible
  <2> QED BY <2>1, <2>2, <2>3, <2>4, <2>5 DEF Listing
<1> QED BY <1>3, <1>4, ReaderIs, ConstantTypes DEF IInv

\* While the reader streams, no age exceeds the bound of a session swept once.
LEMMA AgedIs ==
  ASSUME IInv, reader.pc \in {"stream", "stream_read"}, swept, state_ = "Ready", NEW id \in Ids
  PROVE  trackers_[id].age <= tracker_expiry_ms + SWEEP_PERIOD
<1>1. trackers_[id].age \in Nat /\ reader.sweep \in Nat
  BY ReaderIs DEF IInv, TypeOK, Listings
<1>2. trackers_[id].age <= tracker_expiry_ms + reader.sweep /\ reader.sweep <= SWEEP_PERIOD
  BY DEF IInv, Listing, Aged, Sweeping
<1> QED BY <1>1, <1>2, ConstantTypes

LEMMA StreamIInv ==
  ASSUME IInv, StreamHead \/ StreamRead \/ StreamTimeout \/ StreamError \/ StreamClose
  PROVE  IInv'
<1> USE ConstantTypes
    DEF appVars, portVars, Begins, IInv, TypeOK, Hooked, Session, VerdictIsTrue,
        Listing, Sweeping, Aged, Visible, Stopping, StopPrompt, Fresh, Watched,
        Apart, Waiting, Blocking
<1> USE DEF Moves
<1>1. CASE StreamHead
  <2>1. \/ quit_ /\ Moves("close") /\ ~reader'.waited
        \/ ~quit_ /\ Moves("stream_read") /\ ~reader'.waited
    BY <1>1, MovesBy DEF StreamHead, PCs
  <2>3. TypeOK'
    BY <1>1, <2>1 DEF StreamHead
  <2>4. Hooked' /\ Session' /\ Fresh' /\ Watched'
    <3>1. Hooked' /\ Session' /\ Watched'
      BY <1>1, <2>1, ReaderIs DEF StreamHead
    <3>2. Fresh'
      BY <1>1, <2>1, ReaderIs DEF StreamHead
    <3> QED BY <3>1, <3>2
  <2>5. Listing'
    BY <1>1, <2>1, ReaderIs, AgedIs DEF StreamHead
  <2>6. Stopping'
    BY <1>1, <2>1 DEF StreamHead
  <2> QED BY <2>3, <2>4, <2>5, <2>6
<1>2. CASE StreamRead
  <2>1. wire' = <<>> /\ wire' \in Seq(Frames) /\ wire # <<>>
    BY <1>2, EmptySeq DEF StreamRead
  <2>2. /\ reader' \in Readers /\ reader'.pc = "stream" /\ reader'.elapsed = 0
    BY <1>2, AfterReadIs DEF StreamRead
  <2>3. /\ trackers_' \in [Ids -> Listings] /\ published' \in SUBSET Ids
        /\ swept' \in BOOLEAN /\ Listing'
    <3> USE DEF StreamRead
    <3>1. GrownList(trackers_, Fed(wire))
      BY FedIs
    <3> QED BY <1>2, <3>1, ReadIsTrue
  <2>4. TypeOK'
    BY <1>2, <2>1, <2>2, <2>3 DEF StreamRead
  <2>5. Hooked' /\ Session' /\ Fresh' /\ Watched'
    BY <1>2, <2>1, <2>2, ReaderIs DEF StreamRead
  <2>6. Stopping'
    BY <1>2, <2>1, <2>2 DEF StreamRead
  <2> QED BY <2>3, <2>4, <2>5, <2>6
<1>3. CASE StreamTimeout
  <2>1. CASE Watchdog
    <3>1. Moves("close")
      BY <1>3, <2>1, MovesBy DEF StreamTimeout, PCs
    <3>2. TypeOK'
      BY <1>3, <2>1, <3>1 DEF StreamTimeout
    <3>3. Hooked' /\ Session' /\ Fresh' /\ Watched'
      BY <1>3, <2>1, <3>1, ReaderIs DEF StreamTimeout
    <3>4. Listing'
      BY <1>3, <2>1, <3>1, ReaderIs, AgedIs DEF StreamTimeout
    <3>5. Stopping'
      BY <1>3, <2>1, <3>1 DEF StreamTimeout
    <3> QED BY <3>2, <3>3, <3>4, <3>5
  <2>2. CASE ~Watchdog
    <3>1. AfterRead(trackers_, reader.elapsed)
      BY <1>3, <2>2 DEF StreamTimeout
    <3>2. /\ reader' \in Readers /\ reader'.pc = "stream" /\ reader'.elapsed = reader.elapsed
      BY <3>1, ReaderIs, AfterReadIs
    <3>3. GrownList(trackers_, trackers_)
      BY SameIsGrown
    <3>4. /\ trackers_' \in [Ids -> Listings] /\ published' \in SUBSET Ids
          /\ swept' \in BOOLEAN /\ Listing'
      BY <1>3, <3>1, <3>3, ReaderIs, ReadIsTrue DEF StreamTimeout
    <3>5. TypeOK'
      BY <1>3, <3>2, <3>4 DEF StreamTimeout
    <3>6. Hooked' /\ Session' /\ Fresh' /\ Watched'
      <4>1. UNCHANGED <<appVars, portVars, state_, transport_, on_hello_resp, wire,
                        peer, patience>> /\ wire = <<>> /\ reader.pc = "stream_read"
        BY <1>3, Zenon DEF StreamTimeout
      <4>2. Hooked' /\ Session' /\ Fresh'
        BY <3>2, <4>1
      <4>3. no_data_watchdog_ms > 0 => reader.elapsed <= no_data_watchdog_ms
        BY <2>2, ReaderIs DEF Watchdog
      <4>4. Watched'
        BY <3>2, <4>1, <4>3
      <4> QED BY <4>2, <4>4
    <3>7. Stopping'
      BY <1>3, <3>2 DEF StreamTimeout
    <3> QED BY <3>4, <3>5, <3>6, <3>7
  <2> QED BY <2>1, <2>2
<1>4. CASE StreamError
  <2>1. Moves("close")
    BY <1>4, MovesBy DEF StreamError, PCs
  <2>2. TypeOK'
    BY <1>4, <2>1 DEF StreamError
  <2>3. Hooked' /\ Session' /\ Fresh' /\ Watched'
    BY <1>4, <2>1, ReaderIs DEF StreamError
  <2>4. Listing'
    BY <1>4, <2>1, ReaderIs, AgedIs DEF StreamError
  <2>5. Stopping'
    BY <1>4, <2>1 DEF StreamError
  <2> QED BY <2>2, <2>3, <2>4, <2>5
<1>5. CASE StreamClose
  <2>1. \/ (quit_ \/ auto_reconnect) /\ Begins("loop")
        \/ ~quit_ /\ Begins("end")
    BY <1>5, AtIs DEF StreamClose, PCs
  <2>2. wire' = <<>> /\ wire' \in Seq(Frames)
    BY <1>5, EmptySeq DEF StreamClose
  <2> QED BY <1>5, <2>1, <2>2 DEF StreamClose
<1> QED BY <1>1, <1>2, <1>3, <1>4, <1>5
-----------------------------------------------------------------------------
(* The dongle, its port, and time.                                         *)

LEMMA SendIInv ==
  ASSUME IInv, NEW f \in Frames, Send(f),
         f.type = "HELLO_RESP" => (f.compatible <=> port.compatible)
  PROVE  IInv'
<1> DEFINE w == Append(wire, f)
           n == Len(wire)
<1>1. n \in Nat /\ w \in Seq(Frames) /\ Len(w) = n + 1 /\ w # <<>>
      /\ w[n + 1] = f /\ \A i \in 1 .. n : w[i] = wire[i]
  BY AppendProperties, LenProperties, EmptySeq DEF IInv, TypeOK
<1>2. \/ transport_ = "open" /\ wire' = w
      \/ UNCHANGED wire
  BY DEF Send, Arriving
<1>3. wire' \in Seq(Frames)
  BY <1>1, <1>2 DEF IInv, TypeOK
<1>4. UNCHANGED <<appVars, port, state_, reader, transport_, on_hello_resp,
                  trackers_, published, peer, swept, patience>> /\ silence' = 0
  BY DEF Send
<1>5. reader.pc \in {"hello", "hello_read"} =>
        \A i \in 1 .. Len(wire') : wire'[i].type = "HELLO_RESP" => (wire'[i].compatible <=> peer)
  <2>1. CASE UNCHANGED wire
    BY <2>1 DEF IInv, Session
  <2>2. CASE transport_ = "open" /\ wire' = w
    <3>1. SUFFICES ASSUME reader.pc \in {"hello", "hello_read"},
                          NEW i \in 1 .. n + 1, w[i].type = "HELLO_RESP"
                   PROVE  w[i].compatible <=> peer
      BY <1>1, <2>2
    <3> HIDE DEF w
    <3>2. CASE i \in 1 .. n
      <4>1. w[i] = wire[i]
        BY <1>1, <3>2
      <4> QED BY <3>1, <3>2, <4>1 DEF IInv, Session
    <3>3. CASE i = n + 1
      <4>1. w[i] = f /\ (port.compatible <=> peer)
        BY <1>1, <2>2, <3>1, <3>3 DEF IInv, Session
      <4> QED BY <3>1, <4>1
    <3> QED BY <1>1, <3>2, <3>3
  <2> QED BY <1>2, <2>1, <2>2
<1> HIDE DEF w, n
<1> USE ConstantTypes
    DEF appVars, IInv, TypeOK, Hooked, Session, VerdictIsTrue,
        Listing, Sweeping, Aged, Visible, Stopping, StopPrompt, Fresh, Watched,
        Apart, Waiting, Blocking
<1>6. TypeOK'
  BY <1>3, <1>4
<1>7. Hooked' /\ Session'
  BY <1>4, <1>5
<1>8. Fresh'
  BY <1>1, <1>2, <1>4
<1>9. Watched'
  BY <1>4, ReaderIs
<1>10. Listing'
  BY <1>4
<1>11. Stopping'
  BY <1>4
<1> QED BY <1>6, <1>7, <1>8, <1>9, <1>10, <1>11

LEMMA DongleIInv ==
  ASSUME IInv, Report \/ Stream \/ Answer \/ Unplug \/ Plug \/ Mute
  PROVE  IInv'
<1>1. CASE Report
  <2>1. [type |-> "STATUS"] \in Frames
    BY DEF Frames
  <2> QED BY <1>1, <2>1, SendIInv DEF Report
<1>2. CASE Stream
  <2>1. PICK f \in [type : {"ORIENT", "TRACKER_STAT"}, id : Ids] : Send(f)
    BY <1>2 DEF Stream
  <2>2. f \in Frames /\ f.type # "HELLO_RESP"
    BY DEF Frames
  <2> QED BY <2>1, <2>2, SendIInv
<1>3. CASE Answer
  <2> DEFINE f == [type |-> "HELLO_RESP", compatible |-> port.compatible]
  <2>1. port.compatible \in BOOLEAN
    BY DEF IInv, TypeOK
  <2>2. f \in Frames /\ f.compatible = port.compatible
    BY <2>1, Zenon DEF Frames
  <2>3. Send(f)
    BY <1>3 DEF Answer
  <2> HIDE DEF f
  <2> QED BY <2>2, <2>3, SendIInv
<1> USE ConstantTypes
    DEF appVars, portVars, IInv, TypeOK, Hooked, Session, VerdictIsTrue,
        Listing, Sweeping, Aged, Visible, Stopping, StopPrompt, Fresh, Watched,
        Apart, Waiting, Blocking
<1>4. CASE Unplug
  <2>1. wire' \in Seq(Frames) /\ (wire' = wire \/ wire' = <<>>) /\ Len(<<>>) = 0
    BY <1>4, EmptySeq DEF Unplug
  <2>2. /\ port' \in [plugged : BOOLEAN, mute : BOOLEAN, compatible : BOOLEAN]
        /\ transport_' # "open" /\ transport_' \in {"closed", "stale"}
        /\ transport_ = "closed" <=> transport_' = "closed"
    BY <1>4 DEF Unplug
  <2>3. UNCHANGED <<appVars, silence, state_, reader, on_hello_resp, trackers_,
                    published, peer, swept, patience>>
    BY <1>4 DEF Unplug
  <2> QED BY <2>1, <2>2, <2>3
<1>5. CASE Plug
  <2>1. port' \in [plugged : BOOLEAN, mute : BOOLEAN, compatible : BOOLEAN]
    BY <1>5 DEF Plug
  <2>2. transport_ # "open"
    BY <1>5 DEF Plug
  <2>3. UNCHANGED <<appVars, silence, state_, reader, transport_, on_hello_resp,
                    trackers_, published, wire, peer, swept, patience>>
    BY <1>5 DEF Plug
  <2> QED BY <2>1, <2>2, <2>3
<1>6. CASE Mute
  <2>1. /\ port' \in [plugged : BOOLEAN, mute : BOOLEAN, compatible : BOOLEAN]
        /\ port'.plugged <=> port.plugged
        /\ port'.compatible <=> port.compatible
    BY <1>6 DEF Mute
  <2>2. UNCHANGED <<appVars, silence, state_, reader, transport_, on_hello_resp,
                    trackers_, published, wire, peer, swept, patience>>
    BY <1>6 DEF Mute
  <2> QED BY <2>1, <2>2
<1> QED BY <1>1, <1>2, <1>3, <1>4, <1>5, <1>6

LEMMA LaterIs ==
  ASSUME NEW n \in Nat, NEW cap \in Nat
  PROVE  /\ Later(n, cap) \in Nat /\ Later(n, cap) <= n + 1
         /\ n < cap => Later(n, cap) = n + 1
BY DEF Later

LEMMA TickIInv ==
  ASSUME IInv, Tick
  PROVE  IInv'
<1>1. /\ ElapsedCap \in Nat /\ SilenceCap \in Nat /\ AgeCap \in Nat /\ PatienceCap \in Nat
      /\ ElapsedCap > PROBE_DEADLINE + no_data_watchdog_ms
  BY ConstantTypes DEF ElapsedCap, SilenceCap, AgeCap, PatienceCap
<1>2. \/ reader.pc = "off" /\ app = "idle" /\ reader' = reader
      \/ /\ reader.pc \in Blocking /\ ~reader.waited
         /\ reader' = [reader EXCEPT !.waited = TRUE,
                                     !.elapsed = Later(@, ElapsedCap),
                                     !.sweep = Later(@, SWEEP_PERIOD)]
  BY DEF Tick, Blocked, Blocking
<1>3. /\ reader' \in Readers /\ reader'.pc = reader.pc
      /\ (reader'.answered <=> reader.answered) /\ (reader'.ok <=> reader.ok)
      /\ \/ reader.pc = "off" /\ app = "idle" /\ reader' = reader
         \/ /\ reader.pc \in Blocking /\ ~reader.waited /\ reader'.waited
            /\ reader'.elapsed <= reader.elapsed + 1
            /\ reader.elapsed < ElapsedCap => reader'.elapsed = reader.elapsed + 1
            /\ reader'.sweep <= reader.sweep + 1
            /\ reader.sweep < SWEEP_PERIOD => reader'.sweep = reader.sweep + 1
  <2> DEFINE e == Later(reader.elapsed, ElapsedCap)
             s == Later(reader.sweep, SWEEP_PERIOD)
             r == [reader EXCEPT !.waited = TRUE]
  <2>1. /\ e \in Nat /\ e <= reader.elapsed + 1
        /\ reader.elapsed < ElapsedCap => e = reader.elapsed + 1
        /\ s \in Nat /\ s <= reader.sweep + 1
        /\ reader.sweep < SWEEP_PERIOD => s = reader.sweep + 1
    BY <1>1, ReaderIs, ConstantTypes, LaterIs DEF IInv
  <2>2. /\ r \in Readers /\ r.pc = reader.pc /\ r.waited
        /\ (r.answered <=> reader.answered) /\ (r.ok <=> reader.ok)
    BY DEF IInv, TypeOK, Readers
  <2>3. CASE reader' = reader
    BY <1>2, <2>3 DEF IInv, TypeOK, Readers, Blocking
  <2>4. CASE /\ reader.pc \in Blocking /\ ~reader.waited
             /\ reader' = [reader EXCEPT !.waited = TRUE,
                                     !.elapsed = Later(@, ElapsedCap),
                                     !.sweep = Later(@, SWEEP_PERIOD)]
    <3>1. reader' = [r EXCEPT !.elapsed = e, !.sweep = s]
      BY <2>4 DEF IInv, TypeOK, Readers
    <3> HIDE DEF r, e, s
    <3>2. /\ reader' \in Readers /\ reader'.pc = r.pc /\ (reader'.waited <=> r.waited)
          /\ (reader'.answered <=> r.answered) /\ (reader'.ok <=> r.ok)
          /\ reader'.elapsed = e /\ reader'.sweep = s
      BY <2>1, <2>2, <3>1 DEF Readers
    <3> QED BY <2>1, <2>2, <2>4, <3>2
  <2> QED BY <1>2, <2>3, <2>4
<1>4. silence' \in Nat /\ silence' <= silence + 1
  BY <1>1, LaterIs DEF Tick, IInv, TypeOK
<1>5. /\ patience' \in Nat
      /\ app # "joining" => patience' = patience
      /\ patience' <= patience + 1
  BY <1>1, LaterIs DEF Tick, IInv, TypeOK
<1>6. /\ trackers_' \in [Ids -> Listings]
      /\ \A id \in Ids :
           /\ trackers_'[id].listed <=> trackers_[id].listed
           /\ trackers_'[id].listed => trackers_'[id].orient_count = trackers_[id].orient_count
           /\ trackers_'[id].age <= trackers_[id].age + 1
           /\ ~trackers_'[id].listed => trackers_'[id].age = 0
  <2>1. Unlisted \in Listings /\ ~Unlisted.listed /\ Unlisted.age = 0
    BY ConstantTypes DEF Unlisted, Listings
  <2>2. ASSUME NEW id \in Ids
        PROVE  /\ trackers_'[id] \in Listings
               /\ trackers_'[id].listed <=> trackers_[id].listed
               /\ trackers_'[id].listed =>
                    trackers_'[id].orient_count = trackers_[id].orient_count
               /\ trackers_'[id].age <= trackers_[id].age + 1
               /\ ~trackers_'[id].listed => trackers_'[id].age = 0
    <3> DEFINE t == trackers_[id]
               a == Later(t.age, AgeCap)
    <3>1. t \in Listings
      BY DEF IInv, TypeOK
    <3>2. t.age \in Nat /\ a \in Nat /\ a <= t.age + 1
      BY <1>1, <3>1, LaterIs DEF Listings
    <3>3. trackers_'[id] = IF t.listed THEN [t EXCEPT !.age = a] ELSE Unlisted
      BY <3>1 DEF Tick, Listings
    <3> HIDE DEF t, a
    <3>4. CASE t.listed
      BY <3>1, <3>2, <3>3, <3>4 DEF t, Listings
    <3>5. CASE ~t.listed
      BY <2>1, <3>2, <3>3, <3>5 DEF t
    <3> QED BY <3>4, <3>5
  <2>3. trackers_' \in [Ids -> Listings]
    BY <2>2 DEF Tick
  <2> QED BY <2>2, <2>3
<1>7. UNCHANGED <<appVars, port, state_, transport_, on_hello_resp, published,
                  wire, peer, swept>>
  BY DEF Tick
<1> USE ConstantTypes
    DEF appVars, IInv, TypeOK, Hooked, Session, VerdictIsTrue,
        Stopping, StopPrompt, Fresh, Watched, Apart, Waiting, Blocking
<1>8. TypeOK'
  BY <1>3, <1>4, <1>5, <1>6, <1>7
<1>9. Hooked' /\ Session'
  BY <1>3, <1>7
<1>10. Fresh'
  BY <1>3, <1>4, <1>7
<1>11. Watched'
  <2> SUFFICES ASSUME no_data_watchdog_ms > 0, reader'.pc \in {"stream", "stream_read"}
               PROVE  /\ silence' <= reader'.elapsed + 1
                      /\ reader'.elapsed <= no_data_watchdog_ms + (IF Waiting' THEN 1 ELSE 0)
    OBVIOUS
  <2>1. /\ reader.pc = "stream_read" /\ ~reader.waited /\ reader'.waited
        /\ reader'.pc = "stream_read"
    BY <1>3
  <2>2. silence <= reader.elapsed + 1 /\ reader.elapsed <= no_data_watchdog_ms
    BY <2>1
  <2>3. reader'.elapsed = reader.elapsed + 1 /\ reader.elapsed \in Nat
    BY <1>1, <1>3, <2>1, <2>2, ReaderIs
  <2> QED BY <1>4, <2>1, <2>2, <2>3
<1>12. Stopping'
  <2>1. CASE reader.pc = "off"
    BY <1>3, <1>5, <1>7, <2>1
  <2>2. CASE reader.pc = "probe_read"
    <3>1. /\ patience <= reader.elapsed /\ reader.elapsed < PROBE_DEADLINE
          /\ reader'.waited /\ target_ = "search" /\ patience \in Nat
      BY <1>3, <2>2
    <3>2. reader'.elapsed = reader.elapsed + 1 /\ reader.elapsed \in Nat
      BY <1>1, <1>3, <2>2, <3>1, ReaderIs
    <3>3. patience' <= reader'.elapsed /\ reader'.elapsed <= PROBE_DEADLINE
      BY <1>5, <3>1, <3>2
    <3> QED BY <1>3, <1>5, <1>7, <2>2, <3>1, <3>2, <3>3
  <2>3. CASE reader.pc \in Blocking \ {"probe_read"}
    <3>1. patience = 0 /\ reader'.waited /\ patience' \in 0 .. 1
      BY <1>3, <1>5, <2>3
    <3> QED BY <1>3, <1>5, <1>7, <2>3, <3>1
  <2> QED BY <1>3, <2>1, <2>2, <2>3
<1>13. Sweeping'
  BY <1>3, <1>7, ReaderIs DEF Listing, Sweeping
<1>14. Aged'
  <2>1. ASSUME swept', state_' = "Ready", NEW id \in Ids
        PROVE  trackers_'[id].age <= tracker_expiry_ms
         + (IF reader'.pc \in {"stream", "stream_read"} THEN reader'.sweep
                                                       ELSE SWEEP_PERIOD)
    <3>1. reader.pc = "stream_read" /\ ~reader.waited /\ reader'.pc = "stream_read"
      BY <1>3, <1>7, <2>1
    <3>2. reader'.sweep = reader.sweep + 1
      BY <1>3, <3>1, ReaderIs DEF Listing, Sweeping
    <3>3. trackers_[id].age <= tracker_expiry_ms + reader.sweep
      BY <1>7, <2>1, <3>1 DEF Listing, Aged
    <3>4. trackers_[id].age \in Nat /\ trackers_'[id].age \in Nat /\ reader.sweep \in Nat
      BY <1>6, ReaderIs DEF Listings
    <3>5. trackers_'[id].age <= trackers_[id].age + 1
      BY <1>6
    <3>6. trackers_'[id].age <= tracker_expiry_ms + reader'.sweep
      BY <3>2, <3>3, <3>4, <3>5
    <3> QED BY <3>1, <3>6
  <2> QED BY <1>3, <1>6, <1>7, <2>1 DEF Listing, Aged
<1>15. Visible(trackers_) \subseteq Visible(trackers_')
  BY <1>6 DEF Visible
<1> QED BY <1>7, <1>8, <1>9, <1>10, <1>11, <1>12, <1>13, <1>14, <1>15 DEF Listing

LEMMA NextIInv == IInv /\ [Next]_vars => IInv'
<1> SUFFICES ASSUME IInv, [Next]_vars PROVE IInv'
  OBVIOUS
<1>1. CASE UNCHANGED vars
  BY <1>1
  DEF vars, appVars, portVars, IInv, TypeOK, Hooked, Session, VerdictIsTrue,
      Listing, Sweeping, Aged, Visible, Stopping, StopPrompt, Fresh, Watched,
      Waiting
<1>2. CASE Next
  BY <1>2, AppIInv, AttemptIInv, PauseIInv, AskIInv, HearIInv, StreamIInv,
     DongleIInv, TickIInv
  DEF Next, Reader
<1> QED BY <1>1, <1>2

LEMMA Invariance == Spec => []IInv
BY InitIInv, NextIInv, PTL DEF Spec

(* The parser never runs into the callback of a handshake that is over:    *)
(* the early returns of handshake() that leave it in place close the port  *)
(* at once, and the next handshake puts its own in its place               *)
(* (client.cpp:256, 272, 281).                                             *)
THEOREM HelloCallbackIsLive == Spec => []HelloCallbackLive
<1>1. IInv => HelloCallbackLive
  BY DEF IInv, Hooked, HelloCallbackLive
<1> QED BY <1>1, Invariance, PTL

(* The verdict of a handshake is about the dongle of the session: what was *)
(* asked of another one is flushed with the port, or dies with it.         *)
THEOREM VerdictHolds == Spec => []VerdictIsTrue
<1>1. IInv => VerdictIsTrue
  BY DEF IInv, Session
<1> QED BY <1>1, Invariance, PTL

(* The two views of the tracker list agree, and no tracker outstays its    *)
(* expiry by more than a sweep period and a read (client.cpp:96-98).       *)
THEOREM ListHolds == Spec => []ListIsTrue
<1>1. IInv => ListIsTrue
  <2> SUFFICES ASSUME IInv PROVE ListIsTrue
    OBVIOUS
  <2>1. ASSUME swept, state_ = "Ready", NEW id \in Ids
        PROVE  trackers_[id].age <= tracker_expiry_ms + SWEEP_PERIOD + 1
    <3>1. trackers_[id].age \in Nat /\ reader.sweep \in Nat
      BY ReaderIs DEF IInv, TypeOK, Listings
    <3>2. CASE reader.pc \in {"stream", "stream_read"}
      BY <2>1, <3>1, <3>2, AgedIs, ConstantTypes
    <3>3. CASE reader.pc \notin {"stream", "stream_read"}
      <4>1. trackers_[id].age <= tracker_expiry_ms + SWEEP_PERIOD
        BY <2>1, <3>3 DEF IInv, Listing, Aged
      <4> QED BY <3>1, <4>1, ConstantTypes
    <3> QED BY <3>2, <3>3
  <2> QED BY <2>1 DEF IInv, Listing, ListIsTrue
<1> QED BY <1>1, Invariance, PTL

(* stop() waits for one read timeout or one slice of a sleep at most, and  *)
(* for a search for the dongle no longer than a probe lasts.               *)
THEOREM StopIsPrompt == Spec => []StopPrompt
<1>1. IInv => StopPrompt
  BY DEF IInv, Stopping
<1> QED BY <1>1, Invariance, PTL

(* A client whose watchdog is on (client.cpp:399) gives up a dongle that   *)
(* fell silent once the watchdog has run out and a read has timed out.     *)
THEOREM SilenceIsDetected ==
  ASSUME no_data_watchdog_ms > 0
  PROVE  Spec => []SilenceDetected
<1>1. IInv => SilenceDetected
  BY ReaderIs, ConstantTypes DEF IInv, TypeOK, Watched, Waiting, SilenceDetected
<1> QED BY <1>1, Invariance, PTL
=============================================================================
