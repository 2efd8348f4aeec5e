------------------------------- MODULE Client -------------------------------
(***************************************************************************)
(* A host's session with a dongle: htk::Client of                          *)
(* host/libheadtracker/src/client.cpp, its reader thread and the thread of *)
(* the application that starts and stops it.                               *)
(*                                                                         *)
(* A step of the reader is what it does between two points where it blocks *)
(* or tests quit_.  The unit of time is the longest it blocks at once, a   *)
(* read timeout or a slice of a sleep; time passes (Tick) only while it    *)
(* blocks or does not run, and at most once before it moves on.  The dongle*)
(* answers HELLO and sends STATUS in time while it is plugged and awake.   *)
(* An unplug shows as a read error or only as silence, as the OS likes.    *)
(* A write never blocks for good.  A search for the dongle finds one port  *)
(* to probe.                                                               *)
(***************************************************************************)
EXTENDS Integers, Sequences, FiniteSetsExt

CONSTANTS
  Ids,                    \* ids of the trackers
  HELLO_PERIOD,           \* 100 ms between two HELLOs
  HELLO_MAX,              \* 3
  HELLO_DEADLINE,         \* 500 ms
  PROBE_DEADLINE,         \* 300 ms, of a port that may be the dongle's
  SWEEP_PERIOD,           \* 1 s
  STATUS_PERIOD,          \* 1 s, at which the dongle sends STATUS
  no_data_watchdog_ms,    \* ClientOptions, 2 s
  reconnect_ms,           \* 1 s
  reconnect_max_ms,       \* 5 s
  tracker_expiry_ms,      \* 30 s
  promote_after_orients,  \* 3
  COUNT_MAX,              \* 2^32 - 1, where orient_count saturates
  MaxWire,                \* bound on the frames not yet read
  MaxStarts,              \* bound on start()
  MaxFaults               \* bound on unplugs, mute spells and failed opens

ASSUME ClientAssumption ==
  /\ HELLO_PERIOD \in Nat \ {0}
  /\ HELLO_MAX \in Nat \ {0}
  /\ HELLO_DEADLINE \in Nat \ {0}
  /\ PROBE_DEADLINE \in Nat \ {0}
  /\ SWEEP_PERIOD \in Nat \ {0}
  /\ STATUS_PERIOD \in Nat \ {0}
  /\ no_data_watchdog_ms \in Nat
  /\ reconnect_ms \in Nat \ {0}
  /\ reconnect_max_ms \in Nat /\ reconnect_max_ms >= reconnect_ms
  /\ tracker_expiry_ms \in Nat
  /\ promote_after_orients \in Nat
  /\ COUNT_MAX \in Nat /\ COUNT_MAX >= promote_after_orients
  /\ MaxWire \in Nat \ {0}
  /\ MaxStarts \in Nat
  /\ MaxFaults \in Nat

VARIABLES
  app,             \* the application: "idle", or in stop(), "joining"
  quit_,
  running_,
  state_,
  auto_reconnect,  \* of the options of the latest start()
  target_,         \* its port: "given", or to be found by a "search"
  reader,          \* the reader thread: where it is, and its locals
  transport_,      \* "closed", "open", or "stale": its dongle was unplugged
  on_hello_resp,   \* the parser's callback: "none", "live", or "dangling"
  trackers_,
  published,       \* what on_trackers was last given
  port,            \* the dongle: plugged, mute, of a compatible version
  wire,            \* frames on their way to the reader
  asked,           \* a HELLO the dongle has not answered yet
  silence,         \* since the dongle last sent a frame
  peer,            \* history: was the dongle of this session compatible?
  swept,           \* history: has the list been swept in this session?
  patience,        \* history: how long stop() has been waiting
  starts,
  faults

appVars  == <<app, quit_, running_, auto_reconnect, target_, starts>>
portVars == <<port, asked, silence, faults>>
vars == <<appVars, portVars, state_, reader, transport_, on_hello_resp,
          trackers_, published, wire, peer, swept, patience>>

Frames == [type : {"STATUS"}]
          \cup [type : {"ORIENT", "TRACKER_STAT"}, id : Ids]
          \cup [type : {"HELLO_RESP"}, compatible : BOOLEAN]

Unlisted == [listed |-> FALSE, orient_count |-> 0, age |-> 0]

\* The locals of handshake() and of the streaming loop, as each begins.
At(pc) ==
  [pc |-> pc, waited |-> FALSE, elapsed |-> 0, next_hello |-> 0, sent |-> 0,
   answered |-> FALSE, ok |-> FALSE, sweep |-> 0, backoff |-> reader.backoff]

Init ==
  /\ app = "idle"
  /\ quit_ = FALSE
  /\ running_ = FALSE
  /\ state_ = "Closed"
  /\ auto_reconnect = TRUE
  /\ target_ = "given"
  /\ reader = [pc |-> "off", waited |-> FALSE, elapsed |-> 0, next_hello |-> 0,
               sent |-> 0, answered |-> FALSE, ok |-> FALSE, sweep |-> 0,
               backoff |-> reconnect_ms]
  /\ transport_ = "closed"
  /\ on_hello_resp = "none"
  /\ trackers_ = [id \in Ids |-> Unlisted]
  /\ published = {}
  /\ port \in [plugged : BOOLEAN, mute : {FALSE}, compatible : BOOLEAN]
  /\ wire = <<>>
  /\ asked = FALSE
  /\ silence = 0
  /\ peer = FALSE
  /\ swept = FALSE
  /\ patience = 0
  /\ starts = 0
  /\ faults = 0

-----------------------------------------------------------------------------
(* The application.                                                        *)

\* start(): a reader that has finished is joined first.
Start ==
  /\ app = "idle" /\ ~running_ /\ reader.pc = "off"
  /\ starts < MaxStarts
  /\ starts' = starts + 1
  /\ quit_' = FALSE
  /\ running_' = TRUE
  /\ auto_reconnect' \in BOOLEAN
  /\ target_' \in {"given", "search"}
  /\ reader' = [At("loop") EXCEPT !.backoff = reconnect_ms]
  /\ transport_' = "closed"
  /\ wire' = <<>>
  /\ UNCHANGED <<portVars, app, state_, on_hello_resp, trackers_, published,
                 peer, swept, patience>>

Stop ==
  /\ app = "idle" /\ state_ # "Closed"
  /\ app' = "joining"
  /\ quit_' = TRUE
  /\ patience' = 0
  /\ UNCHANGED <<portVars, running_, auto_reconnect, target_, starts, state_,
                 reader, transport_, on_hello_resp, trackers_, published,
                 wire, peer, swept>>

\* The rest of stop(), once the reader has been joined.
StopJoined ==
  /\ app = "joining" /\ reader.pc = "off"
  /\ app' = "idle"
  /\ running_' = FALSE
  /\ transport_' = "closed"
  /\ wire' = <<>>
  /\ state_' = "Closed"
  /\ patience' = 0
  /\ UNCHANGED <<portVars, quit_, auto_reconnect, target_, starts, reader,
                 on_hello_resp, trackers_, published, peer, swept>>

-----------------------------------------------------------------------------
(* What the parser's callbacks do with the frames of one read.             *)

Counted(n) == IF n < COUNT_MAX THEN n + 1 ELSE n

\* note_orient_id(), note_tracker_stat()
Noted(t, f) ==
  [listed |-> TRUE, age |-> 0,
   orient_count |-> IF f.type = "ORIENT" THEN Counted(t.orient_count)
                                         ELSE COUNT_MAX]

\* The callbacks that run() gives the parser.
Heard(ts, f) ==
  IF f.type \in {"ORIENT", "TRACKER_STAT"}
  THEN [ts EXCEPT ![f.id] = Noted(@, f)] ELSE ts

\* Parser::feed(): the frames in order, whatever they lead to.
Fed(chunk) ==
  LET fed[i \in 0 .. Len(chunk)] ==
        IF i = 0 THEN trackers_ ELSE Heard(fed[i - 1], chunk[i])
  IN fed[Len(chunk)]

\* The HELLO_RESP callback: the last answer in a chunk decides.
Resps(chunk) == {i \in DOMAIN chunk : chunk[i].type = "HELLO_RESP"}

Answered(chunk) ==
  IF Resps(chunk) = {} THEN reader
  ELSE [reader EXCEPT !.answered = TRUE,
                      !.ok = chunk[Max(Resps(chunk))].compatible]

-----------------------------------------------------------------------------
(* The reader: run(), open_once().                                         *)

Loop ==
  /\ reader.pc = "loop"
  /\ IF quit_
     THEN reader' = At("end") /\ UNCHANGED state_
     ELSE reader' = At(IF target_ = "search" THEN "search" ELSE "open")
          /\ state_' = "Opening"
  /\ UNCHANGED <<appVars, portVars, transport_, on_hello_resp, trackers_,
                 published, wire, peer, swept, patience>>

\* Mutant: a port that cannot be opened, or does not answer, ends the run.
AfterFailureEnd == At("end")

AfterFailure == IF auto_reconnect THEN At("backoff") ELSE At("end")

OpenFail ==
  /\ reader.pc \in {"search", "open"}
  /\ \/ ~port.plugged /\ UNCHANGED faults
     \/ port.plugged /\ faults < MaxFaults /\ faults' = faults + 1
  /\ state_' = "Lost"
  /\ reader' = AfterFailure
  /\ UNCHANGED <<appVars, port, asked, silence, transport_, on_hello_resp,
                 trackers_, published, wire, peer, swept, patience>>

\* Mutant: a dongle found compatible once is not asked again.
HandshakeStale == [At("hello") EXCEPT !.answered = peer, !.ok = peer]

Handshake == At("hello")

\* What had arrived before is flushed; the parser starts anew.
OpenOk ==
  /\ reader.pc = "open" /\ port.plugged
  /\ transport_' = "open"
  /\ wire' = <<>>
  /\ state_' = "Handshaking"
  /\ reader' = Handshake
  /\ on_hello_resp' = "live"
  /\ peer' = port.compatible
  /\ swept' = FALSE
  /\ UNCHANGED <<appVars, portVars, trackers_, published, patience>>

\* find_dongle() and probe_port(), of one port: a transport of its own, which
\* has the port to itself, and a parser of its own.
Search ==
  /\ reader.pc = "search" /\ port.plugged
  /\ transport_' = "open"
  /\ wire' = <<>>
  /\ reader' = At("probe")
  /\ UNCHANGED <<appVars, portVars, state_, on_hello_resp, trackers_,
                 published, peer, swept, patience>>

\* The answer decides; quit_ is not looked at.
ProbeRead ==
  /\ reader.pc = "probe_read" /\ wire # <<>>
  /\ reader' = [Answered(wire) EXCEPT !.pc = "probe"]
  /\ wire' = <<>>
  /\ UNCHANGED <<appVars, portVars, state_, transport_, on_hello_resp,
                 trackers_, published, peer, swept, patience>>

ProbeOver == reader.answered \/ reader.elapsed >= PROBE_DEADLINE

\* A dongle that is not compatible is no dongle.
Probed ==
  /\ \/ reader.pc = "probe" /\ ProbeOver
     \/ reader.pc \in {"probe", "probe_read"} /\ transport_ = "stale"
  /\ transport_' = "closed"
  /\ wire' = <<>>
  /\ \/ reader.pc = "probe" /\ reader.ok
        /\ reader' = At("open") /\ UNCHANGED state_
     \/ ~(reader.pc = "probe" /\ reader.ok)
        /\ reader' = AfterFailure /\ state_' = "Lost"
  /\ UNCHANGED <<appVars, portVars, on_hello_resp, trackers_, published, peer,
                 swept, patience>>

\* Mutant: the sleep between two attempts is not cut short.
SleptEnoughWhole == reader.elapsed >= reader.backoff

SleptEnough == reader.elapsed >= reader.backoff \/ quit_

Slice ==
  /\ reader.pc = "backoff" /\ ~SleptEnough
  /\ reader' = [reader EXCEPT !.pc = "slice", !.waited = FALSE]
  /\ UNCHANGED <<appVars, portVars, state_, transport_, on_hello_resp,
                 trackers_, published, wire, peer, swept, patience>>

SliceOver ==
  /\ reader.pc = "slice" /\ reader.waited
  /\ reader' = [reader EXCEPT !.pc = "backoff"]
  /\ UNCHANGED <<appVars, portVars, state_, transport_, on_hello_resp,
                 trackers_, published, wire, peer, swept, patience>>

BackoffOver ==
  /\ reader.pc = "backoff" /\ SleptEnough
  /\ reader' = [At("loop") EXCEPT
                  !.backoff = IF 2 * reader.backoff < reconnect_max_ms
                              THEN 2 * reader.backoff ELSE reconnect_max_ms]
  /\ UNCHANGED <<appVars, portVars, state_, transport_, on_hello_resp,
                 trackers_, published, wire, peer, swept, patience>>

-----------------------------------------------------------------------------
(* The reader: handshake().                                                *)

HandshakeOver ==
  reader.answered \/ quit_ \/ reader.elapsed >= HELLO_DEADLINE

HelloDue == reader.elapsed >= reader.next_hello /\ reader.sent < HELLO_MAX

\* The HELLOs of handshake() and those of probe_port() are alike.
Asking ==
  \/ reader.pc = "hello" /\ ~HandshakeOver
  \/ reader.pc = "probe" /\ ~ProbeOver

ReadNext == IF reader.pc = "hello" THEN "hello_read" ELSE "probe_read"

\* The write may succeed although nobody hears it.
SendHello ==
  /\ Asking /\ HelloDue
  /\ asked' = (transport_ = "open" /\ ~port.mute)
  /\ reader' = [reader EXCEPT !.pc = ReadNext, !.waited = FALSE,
                              !.next_hello = reader.elapsed + HELLO_PERIOD,
                              !.sent = @ + 1]
  /\ UNCHANGED <<appVars, port, silence, faults, state_, transport_,
                 on_hello_resp, trackers_, published, wire, peer, swept,
                 patience>>

SkipHello ==
  /\ Asking /\ ~HelloDue
  /\ reader' = [reader EXCEPT !.pc = ReadNext, !.waited = FALSE]
  /\ UNCHANGED <<appVars, portVars, state_, transport_, on_hello_resp,
                 trackers_, published, wire, peer, swept, patience>>

HelloRead ==
  /\ reader.pc = "hello_read" /\ wire # <<>>
  /\ trackers_' = Fed(wire)
  /\ reader' = [Answered(wire) EXCEPT !.pc = "hello"]
  /\ wire' = <<>>
  /\ UNCHANGED <<appVars, portVars, state_, transport_, on_hello_resp,
                 published, peer, swept, patience>>

HelloTimeout ==
  /\ reader.pc \in {"hello_read", "probe_read"}
  /\ wire = <<>> /\ reader.waited
  /\ reader' = [reader EXCEPT !.pc = IF @ = "hello_read" THEN "hello"
                                                         ELSE "probe"]
  /\ UNCHANGED <<appVars, portVars, state_, transport_, on_hello_resp,
                 trackers_, published, wire, peer, swept, patience>>

\* The write or the read failed: handshake() returns, leaving its callback.
HelloError ==
  /\ transport_ = "stale"
  /\ \/ reader.pc = "hello" /\ ~HandshakeOver /\ HelloDue
     \/ reader.pc = "hello_read"
  /\ on_hello_resp' = "dangling"
  /\ transport_' = "closed"
  /\ wire' = <<>>
  /\ state_' = "Lost"
  /\ reader' = AfterFailure
  /\ UNCHANGED <<appVars, portVars, trackers_, published, peer, swept,
                 patience>>

\* Mutant: the callback is left in place.
UnhookedNot == "dangling"

Unhooked == "none"

HandshakeFailed ==
  /\ reader.pc = "hello" /\ HandshakeOver /\ ~(reader.answered /\ reader.ok)
  /\ on_hello_resp' = Unhooked
  /\ transport_' = "closed"
  /\ wire' = <<>>
  /\ IF reader.answered
     THEN state_' = "Incompatible" /\ reader' = At("end")
     ELSE state_' = "Lost" /\ reader' = AfterFailure
  /\ UNCHANGED <<appVars, portVars, trackers_, published, peer, swept,
                 patience>>

HandshakeDone ==
  /\ reader.pc = "hello" /\ reader.answered /\ reader.ok
  /\ on_hello_resp' = Unhooked
  /\ state_' = "Ready"
  /\ reader' = [At("stream") EXCEPT !.backoff = reconnect_ms]
  /\ UNCHANGED <<appVars, portVars, transport_, trackers_, published, wire,
                 peer, swept, patience>>

-----------------------------------------------------------------------------
(* The reader: the streaming loop.  elapsed is the time since last_data.   *)

\* Mutant: a tracker never expires.
ExpiredNever(t) == FALSE

Expired(t) == t.listed /\ t.age > tracker_expiry_ms

Visible(ts) ==
  {id \in Ids : ts[id].listed /\ ts[id].orient_count >= promote_after_orients}

SweepDue == reader.sweep >= SWEEP_PERIOD

\* expire_and_publish(true), on the list as the read has left it.
Sweep(ts) ==
  LET kept == [id \in Ids |-> IF Expired(ts[id]) THEN Unlisted ELSE ts[id]]
  IN /\ trackers_' = kept
     /\ published' = Visible(kept)
     /\ swept' = TRUE

\* A read is over: last_data, and the sweep when its turn has come.
AfterRead(ts, elapsed) ==
  /\ reader' = [reader EXCEPT !.pc = "stream", !.elapsed = elapsed,
                              !.sweep = IF SweepDue THEN 0 ELSE @]
  /\ IF SweepDue
     THEN Sweep(ts)
     ELSE trackers_' = ts /\ UNCHANGED <<published, swept>>

StreamHead ==
  /\ reader.pc = "stream"
  /\ reader' = [reader EXCEPT !.pc = IF quit_ THEN "close" ELSE "stream_read",
                              !.waited = FALSE]
  /\ UNCHANGED <<appVars, portVars, state_, transport_, on_hello_resp,
                 trackers_, published, wire, peer, swept, patience>>

StreamRead ==
  /\ reader.pc = "stream_read" /\ wire # <<>>
  /\ AfterRead(Fed(wire), 0)
  /\ wire' = <<>>
  /\ UNCHANGED <<appVars, portVars, state_, transport_, on_hello_resp, peer,
                 patience>>

\* Mutant: a read that timed out counts as data.
WatchdogReset == FALSE

Watchdog == no_data_watchdog_ms > 0 /\ reader.elapsed > no_data_watchdog_ms

StreamTimeout ==
  /\ reader.pc = "stream_read" /\ wire = <<>> /\ reader.waited
  /\ IF Watchdog
     THEN /\ reader' = [reader EXCEPT !.pc = "close"]
          /\ UNCHANGED <<trackers_, published, swept>>
     ELSE AfterRead(trackers_, reader.elapsed)
  /\ UNCHANGED <<appVars, portVars, state_, transport_, on_hello_resp, wire,
                 peer, patience>>

StreamError ==
  /\ reader.pc = "stream_read" /\ transport_ = "stale"
  /\ reader' = [reader EXCEPT !.pc = "close"]
  /\ UNCHANGED <<appVars, portVars, state_, transport_, on_hello_resp,
                 trackers_, published, wire, peer, swept, patience>>

StreamClose ==
  /\ reader.pc = "close"
  /\ transport_' = "closed"
  /\ wire' = <<>>
  /\ state_' = IF quit_ THEN state_ ELSE "Lost"
  /\ reader' = IF quit_ \/ auto_reconnect
               THEN [At("loop") EXCEPT !.backoff = reconnect_ms] ELSE At("end")
  /\ UNCHANGED <<appVars, portVars, on_hello_resp, trackers_, published, peer,
                 swept, patience>>

End ==
  /\ reader.pc = "end"
  /\ running_' = FALSE
  /\ reader' = At("off")
  /\ UNCHANGED <<app, quit_, auto_reconnect, target_, starts, portVars,
                 state_, transport_, on_hello_resp, trackers_, published,
                 wire, peer, swept, patience>>

-----------------------------------------------------------------------------
(* The dongle and its port.                                                *)

Live == port.plugged /\ ~port.mute

\* Only an open port receives, and only what its buffer has room for.
Arriving(f) ==
  IF transport_ = "open" /\ Len(wire) < MaxWire THEN Append(wire, f) ELSE wire

Send(f) ==
  /\ Live
  /\ transport_ = "open" => Len(wire) < MaxWire
  /\ wire' = Arriving(f)
  /\ silence' = 0
  /\ UNCHANGED <<appVars, port, faults, state_, reader, transport_,
                 on_hello_resp, trackers_, published, peer, swept, patience>>

\* Besides answers, at most one frame in a unit of time.
Report == silence > 0 /\ Send([type |-> "STATUS"]) /\ UNCHANGED asked

Stream ==
  /\ silence > 0
  /\ \E f \in [type : {"ORIENT", "TRACKER_STAT"}, id : Ids] : Send(f)
  /\ UNCHANGED asked

Answer ==
  /\ asked /\ asked' = FALSE
  /\ Send([type |-> "HELLO_RESP", compatible |-> port.compatible])

\* What had arrived may be lost, and the open port is dead for good.
Unplug ==
  /\ port.plugged /\ faults < MaxFaults
  /\ faults' = faults + 1
  /\ port' = [port EXCEPT !.plugged = FALSE, !.mute = FALSE]
  /\ asked' = FALSE
  /\ wire' \in {wire, <<>>}
  /\ transport_' = IF transport_ = "open" THEN "stale" ELSE transport_
  /\ UNCHANGED <<appVars, silence, state_, reader, on_hello_resp, trackers_,
                 published, peer, swept, patience>>

\* A dongle, maybe another one.
Plug ==
  /\ ~port.plugged
  /\ \E c \in BOOLEAN :
       port' = [plugged |-> TRUE, mute |-> FALSE, compatible |-> c]
  /\ UNCHANGED <<appVars, asked, silence, faults, state_, reader, transport_,
                 on_hello_resp, trackers_, published, wire, peer, swept,
                 patience>>

\* Plugged but not talking: the bus is suspended, or the firmware is stuck.
Mute ==
  /\ port.plugged
  /\ IF port.mute THEN UNCHANGED faults
     ELSE faults < MaxFaults /\ faults' = faults + 1
  /\ port' = [port EXCEPT !.mute = ~@]
  /\ asked' = FALSE
  /\ UNCHANGED <<appVars, silence, state_, reader, transport_, on_hello_resp,
                 trackers_, published, wire, peer, swept, patience>>

-----------------------------------------------------------------------------
(* Time.                                                                   *)

Blocked ==
  \/ reader.pc = "off" /\ app = "idle"
  \/ /\ reader.pc \in {"hello_read", "probe_read", "stream_read", "slice"}
     /\ ~reader.waited

Later(n, cap) == IF n < cap THEN n + 1 ELSE cap

\* Where the counters saturate, beyond what anything compares them with.
PatienceCap == PROBE_DEADLINE + reconnect_max_ms
ElapsedCap ==
  HELLO_DEADLINE + PROBE_DEADLINE + no_data_watchdog_ms + reconnect_max_ms + 2
SilenceCap == no_data_watchdog_ms + STATUS_PERIOD + 3
AgeCap     == tracker_expiry_ms + SWEEP_PERIOD + 3

Tick ==
  /\ Blocked
  /\ Live => ~asked /\ silence < STATUS_PERIOD
  /\ reader' = IF reader.pc = "off" THEN reader
               ELSE [reader EXCEPT !.waited = TRUE,
                                   !.elapsed = Later(@, ElapsedCap),
                                   !.sweep = Later(@, SWEEP_PERIOD)]
  /\ trackers_' = [id \in Ids |->
                     IF trackers_[id].listed
                     THEN [trackers_[id] EXCEPT !.age = Later(@, AgeCap)]
                     ELSE Unlisted]
  /\ silence' = Later(silence, SilenceCap)
  /\ patience' = IF app = "joining" THEN Later(patience, PatienceCap)
                                    ELSE patience
  /\ UNCHANGED <<appVars, port, asked, faults, state_, transport_,
                 on_hello_resp, published, wire, peer, swept>>

Reader ==
  \/ Loop \/ OpenFail \/ Search \/ ProbeRead \/ Probed \/ OpenOk
  \/ Slice \/ SliceOver \/ BackoffOver
  \/ SendHello \/ SkipHello \/ HelloRead \/ HelloTimeout \/ HelloError
  \/ HandshakeFailed \/ HandshakeDone
  \/ StreamHead \/ StreamRead \/ StreamTimeout \/ StreamError \/ StreamClose
  \/ End

Next ==
  \/ Start \/ Stop \/ StopJoined
  \/ Reader
  \/ Report \/ Stream \/ Answer \/ Unplug \/ Plug \/ Mute
  \/ Tick

Spec == Init /\ [][Next]_vars

\* Threads run, time passes, and a live dongle reports and answers.
FairSpec ==
  /\ Spec
  /\ WF_vars(Reader) /\ WF_vars(StopJoined) /\ WF_vars(Tick)
  /\ WF_vars(Report) /\ SF_vars(Answer)

-----------------------------------------------------------------------------
(* Properties.                                                             *)

(* The parser never runs into the HELLO_RESP callback of a handshake whose *)
(* frame is gone: it captures locals of handshake() by reference, and two  *)
(* early returns leave it in place (client.cpp:256, 272, 281).             *)
HelloCallbackLive ==
  reader.pc \in {"hello_read", "stream_read"} => on_hello_resp # "dangling"

(* The verdict of a handshake is about the dongle of this very session,   *)
(* whatever was plugged before it and however late an earlier HELLO was    *)
(* answered.                                                               *)
VerdictIsTrue ==
  /\ state_ = "Ready" => peer
  /\ state_ = "Incompatible" => ~peer

(* The two views of the tracker list agree (client.cpp:96-98): a published *)
(* tracker stays listed and corroborated until the sweep that publishes its*)
(* absence; and once a session has been swept, none stays listed for longer*)
(* than its expiry and one sweep period, read timeouts included.           *)
ListIsTrue ==
  /\ published \subseteq Visible(trackers_)
  /\ swept /\ state_ = "Ready" =>
       \A id \in Ids : trackers_[id].age <= tracker_expiry_ms + SWEEP_PERIOD + 1

(* stop() waits for one read timeout or one slice of a sleep at most,      *)
(* wherever it meets the reader (client.cpp:347), except for a search for  *)
(* the dongle (client.cpp:230), which it waits out.                        *)
StopPrompt ==
  patience <= IF target_ = "search" THEN PROBE_DEADLINE ELSE 1

(* A dongle that fell silent, whether the OS tells or not, is given up once*)
(* the watchdog has run out and one more read has timed out.               *)
SilenceDetected ==
  reader.pc \in {"stream", "stream_read"} => silence <= no_data_watchdog_ms + 2

(* A client that reconnects and is not stopped ends up Ready, and stays so,*)
(* once a compatible dongle is there and talks: it always finds its way    *)
(* back, and raises no false alarm.  An incompatible one ends its run.     *)
Reconnects ==
  <>[](Live /\ port.compatible /\ starts > 0 /\ ~quit_ /\ auto_reconnect)
    => <>[](state_ \in {"Ready", "Incompatible"})
=============================================================================
