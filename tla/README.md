# Headtracker: a TLA+ model

The system sends the orientation of listeners' heads to a host. Head units
(nRF52840, an IMU and a fusion filter) broadcast samples by radio (ESB); a
dongle receives all of them, keeps a table of the trackers it hears and passes
everything on over USB CDC; a host library finds the dongle, parses the stream,
keeps the list of trackers and stabilizes each one's reference frame. Commands
travel the other way, host to dongle to head, on the beacons of the dongle.

This directory models the control of that system: what its threads,
interrupts, timers and messages do to its state, in every order they can
happen. Of the numerics only what decides something is kept: where a bias comes
from and how it may move, how long something has been at rest, whether a rate
is high. Quaternions and filters are not computed.

## 1. Inventory

### Components, their state and their operations

| component | code | state | operations | model |
|---|---|---|---|---|
| tracker table of the dongle | `firmware/app_dongle/src/trackers.c` | slots with id, last_seen, last_seq, seq_lost, counts; total of the second | `trackers_on_sample`, `trackers_on_tstatus`, `trackers_tick_1hz`, `trackers_emit_stats` | `Trackers` |
| radio of the dongle | `app_dongle/src/radio.c` | `rx_msgq`, pending command and its repeats, beacon timer | ESB event handler, rx thread, beacon work | `Trackers` (reception), `Fabric` (beacons) |
| control loop of a head | `app_head/src/main.c` | run state, time of the last beacon, settings | sleep, listen window, drain of `beacon_q`, commands, ACTIVE/STANDBY | `Fabric` |
| radio of a head | `app_head/src/radio.c` | `radio_lock`, `in_ptx`, ESB mode, FIFO, `beacon_q` | `htk_radio_send`, `htk_radio_listen`, `esb_configure`, `esb_handler` | `HeadRadio` (both threads), `Fabric` (queue) |
| fusion thread of a head | `app_head/src/main.c` | `imu_msgq`, `seq`, `decim`, the ODR window, `tap_until_ms` | IMU handler, measurement, detection, decimation, packets | `SampleLoop`, `HeadRadio` (packets and radio) |
| fusion filter | `common/fusion/htk_fusion.cpp`, `vqf/vqf.cpp` | bias, its certainty, coarse offset, slew clamp, rest gate, saved bias | update, reset, suspend, resume, change of rate | `FusionFilter` |
| tap detector | `common/imu/htk_tapdet.c` | state, `t_mark`, warm-up | `htk_tapdet_feed` | `SampleLoop` |
| LEDs of a head | `app_head/src/leds.c` | counter of identify and tap | `leds_identify`, `leds_tap`, tick | `SampleLoop` |
| USB transport of the dongle | `app_dongle/src/usb_io.c` | `tx_ring`, frame in flight, `usb_configured`, `rx_ring`, `rx_block` | `usb_io_send_payload`, CDC callback, status callback, receive work | `UsbPipe` (transmit), `CommandPath` (receive), `Fabric` (hand-over of a command) |
| start-up, stats work, simulator | `app_dongle/src/main.c`, `sim.c` | timers | 1 Hz work | `Trackers` |
| frame codec | `firmware/common/protocol` | none | COBS, CRC-16, framing | `Codec` |
| stream parser of the host | `libheadtracker/src/parser.cpp` | block, oversize flag, callbacks | `feed`, `process_block`, `reset` | `UsbPipe` (blocks), `Client` (dispatch) |
| client of the host | `libheadtracker/src/client.cpp` | connection state, tracker list, `quit_`, `running_`, transport | reader thread, `start`, `stop`, `trackers`, commands | `Client`, `CommandPath` (commands) |
| stabilizer of the host | `libheadtracker/src/stabilizer.cpp` | tap edge, wear state, deferred recenter, requests, snapshot | `update`, `request_*`, `status` | `Stabilizer` |
| orientation numerics | `libheadtracker/src/orientation.cpp` | reference quaternions | recenter, boresight, tilt | not modelled |
| commands, serial transport | `commands.cpp`, `transport.cpp` | `fd_` | encoders, open/configure/write/close, search for the dongle | `Codec`, `CommandPath`, `Client` (search) |
| tools | `host/tools` | none | command lines | not modelled |

### How they interact

* Head to dongle: samples and self-reports, unacknowledged; loss shows as gaps
  of a 16-bit `seq`. The dongle's receive thread fills the tracker table while
  its workqueue folds and emits it at 1 Hz; each reads the clock *before* it
  takes the table's lock.
* Dongle to head: a beacon each 100 ms. It tells the head that somebody
  listens, and carries the one pending command for 30 beacons. A head hears
  beacons in windows of 110 ms, each second when ACTIVE and each five seconds
  in STANDBY; while it listens its radio cannot send, and its fusion thread and
  main thread share that radio through a mutex and a flag.
* Inside a head: the IMU's handler queues samples, the fusion thread takes them,
  feeds the detector and the filter and sends every n-th result, which the radio
  refuses while it listens. The main thread has the higher priority and holds no
  lock while it resets the filter, takes the rate down, lights an identify or
  powers the IMU down and up.
* Dongle to host: two threads write frames into a ring that the CDC callback
  empties; the bus may be reset, suspended or resumed in between, and the host
  may reopen the port in the middle of a frame.
* Host to dongle: commands of any thread go through a mutex, the tty and a ring
  of the dongle that may overflow; the reader thread opens and closes the port
  without that mutex.
* Host: the client's reader thread opens, greets, streams and reconnects; the
  application starts and stops it, polls and gets callbacks. The stabilizer
  runs on the reader thread; other threads post requests and read a snapshot.

### What is hard, and what makes each component correct

* Table: stamps older than the table, a slot that changes hands, counters that
  saturate, `seq` that wraps. Correct if losses are counted exactly, no live
  tracker is displaced, no id has two rows, the rows never exceed the total,
  and the silent disappear.
* Fabric: two free-running clocks, lost beacons, failed windows, power cycles.
  Correct if a head in STANDBY has no dongle, one beside a dongle stays or
  becomes ACTIVE, and commands arrive once issued long enough, in order.
* Radio of a head: main preempts the fusion thread anywhere; every
  reconfiguration may fail. Correct if nothing is written to a radio turned
  round, the mutex is never lost, and the stream always resumes.
* Fusion thread: the main thread between any two of its steps, samples lost,
  standbys of any length, windows in which nothing is sent. Correct if the filter
  runs at the sensor's rate, a stream keeps its rate, each tap is two spikes and
  one edge, a reset forgets, rest is earned, and the clamp on the bias holds.
* Commands: ports that vanish, rings that overflow, lines not yet raw. Correct if
  what the dongle executes was sent, in that order, at most once, and nothing
  that went unharmed is missed.
* USB: producers, callback and bus interleave. Correct if frames arrive whole,
  in order, at most once, and none waits in the ring for ever.
* Client: failures at every step, late answers, a dongle exchanged for another,
  unplugs that only show as silence, `stop()` at any moment. Correct if its
  verdict is about the present dongle, `stop()` is prompt, silence is noticed,
  the list is consistent and it always finds its way back.
* Stabilizer: gaps, lost samples, clock wraps, requests during an update.
  Correct if taps act for a settled wearer only, what they ask for happens,
  resting units do not teach it a tilt, and no request is lost.

`PROJECT.json` lists each of these hazards at its line, with the property that
covers it, or a note where none does.

## 2. Modules

`Trackers`, `Fabric`, `HeadRadio`, `SampleLoop`, `FusionFilter`, `UsbPipe`,
`CommandPath`, `Client` and `Stabilizer` are state machines, each with its
environment. They meet at narrow interfaces: a head's `seq` (sent in
`HeadRadio`, counted in `Trackers`), a window (turned in `HeadRadio`, used in
`Fabric`), a sample (timed and sent in `SampleLoop`, filtered in
`FusionFilter`), a frame (sent in `UsbPipe`, read in `Client`; sent in
`CommandPath`, handed to the radio in `Fabric`), a TAP level (raised in
`SampleLoop`, read in `Stabilizer`). `Codec` is pure operators, which
`CommandPath` extends. `FrameChannel` is the abstract specification of a pipe
that may lose frames but neither reorders, repeats nor invents any; `UsbPipe`
and `CommandPath` implement it, one in each direction. `MCx` gives constants to
`x` and checks that they satisfy what a theorem assumes beside the assumptions of
`x`; `xProofs` holds the theorems about `x` and their proofs. `CommandPathProofs`
is also about `Codec`, and `HeadProofs` about both `FusionFilter` and `HeadRadio`,
the two halves of what the fusion thread of a head does with a sample (the
specification of `HeadRadio` is called `RadioSpec`, since the proofs extend both).
In every module an operator whose comment begins with "Mutant:" is not part of the
specification: it is a plausible mistake in the definition after it, kept to show
that a property notices it.

**Trackers.** `table` is the array of `trackers.c`, `total` the counter of the
second. The receive
thread takes a packet of a head, of those sent since the last one that got
through (`RxTake`: `TakeSample`, `TakeTstatus`), stamps it, and accounts for it
(`RxAccount`: `claim`, the modular step of `seq`, saturation). The workqueue's
fold (`TickStamp`, `TickFold`) and emission (`EmitStamp`, `EmitSnapshot`) are
two steps each, because the clock is read outside the lock. Loss on the air,
overrun of `rx_msgq` and the time the radio is turned for a beacon are one
loss. Its history of a tracker (what was lost on the way) begins anew with each
claim of a slot, as the row does.

**Fabric.** `dongle[d]` has a beacon timer, the pending command and its
repeats; `head[h]` its place in the loop of `main()`, the timer of a sleep or a
window, the silence since the last beacon and the queue. `BeaconWork` is the
whole work item, which spends a repeat even if the radio fails; a head's
`Iterate` drains the queue, executes commands and then decides between ACTIVE
and STANDBY, in the order of the code.

**HeadRadio.** The fusion thread is cut at each point where main may wake up;
main has the higher priority and is only cut where it blocks. `radio` says what
ESB is really set up for and what `in_ptx` believes.

**SampleLoop.** `Drdy` is the IMU's handler, `DrdyFails` its early returns, which
lose the sample; `Take` what the fusion thread does with a sample before it gives
it to the filter (measurement, detector, tap); `TapLook` and `TapBlip` the two
halves of `leds_tap()`; `Send` the rest of the turn. A timestamp is its distance
from the one before, and an evicted sample leaves its distance to the next. Time
is that of the sensor; a standby takes a time out of `Gaps`. The main thread goes
from its sleep (`Listen`, after `LISTEN_PERIOD`) to a window (`WindowOver`: after
`WINDOW` at the latest, earlier when the radio could not be set up) to what it
does with what it heard: commands, a standby, its end (`Sleep`). In which windows
there is a command or a beacon is `Fabric`'s; here any may have them. While main
listens `htk_radio_send()` refuses every packet, and in RAW mode no packet has
flags (`Signals`). `misled`, `lull` and `level` are history: what the window
really held, when the last shock really ended, and what a receiver of the stream
has seen of TAP: `level` is `due` from a tap to the first packet that shows it,
and `off` while no stream carries flags.

**FusionFilter.** An update is `Sample`, `Coarse`, `Filter`, `Judge`, `Latch` or
`Clamp`, and `Gate`; `local` is what it has read and not yet used, and each step
takes what it has read or what is there now, as a compiler may. A bias is a
number and the epoch (count of resets) that it was learnt in, the oldest where
two are mixed. Of the coarse offset it is kept how many samples it is the sum of,
their epoch, and that of the offset in use (`applied`), which a reset leaves. VQF
is four facts: the bias, how certain it is, how long it has seen no motion, and
that it learns from the bias it has. `torn` records which calls of the main
thread have cut an update short, until a reset comes that does not (`Heals`), and
the properties say what they allow for that; a reset or a resume in the middle of
an update does lose its effect in part (see the disagreements).

**UsbPipe.** `Check`, `Enqueue` and `EnableTx` are the three parts of
`usb_io_send_payload`; `IrqSend` and `IrqIdle` a pass of the CDC callback; a
byte is the pair of its frame and its position, so that the host's parser can
tell a whole frame, which stands for COBS and the CRC (`Codec` checks that the
real ones do).

**Codec.** `htk_cobs_encode`, `htk_cobs_decode`, `htk_crc16`,
`htk_frame_encode`, `htk_frame_decode` as folds over the bytes, and the frames
of the commands. The longest block of COBS is a constant, since the boundary
matters and 254 bytes are too many to enumerate.

**CommandPath.** `Call`, `Lock`, `Write` and `Return` are a thread in
`write_frame()`; `Open`, `Configure` (or `OpenFails`) and `Close` the reader on
the same port; `Isr` and `Work` the callback and the work item of the dongle.
Bytes are real ones, each marked with the number of its frame, so that a run can
tell what a frame was cut by. A port that is open and not yet configured is
`cooked`: the tty rewrites a line feed.

**Client.** A step of the reader is what lies between two points where it
blocks or tests `quit_`. `reader` holds the locals of `handshake()` and of the
streaming loop. `on_hello_resp` says whether the callback installed in the
parser still refers to a live stack frame. A client that is given no port
searches for the dongle (`Search`, the HELLOs it shares with the handshake,
`ProbeRead`, `Probed`). A write never blocks for good.

**Stabilizer.** `Begin` is `update()` up to the exchange of the requests,
`Finish` the rest of it. Real motion is a variable of the environment; the rate
the code computes from it (`Rate`) is not always that. The averages of gravity
are a choice of each sample, as far as the code permits: a step of more than
20 degrees counts as alive, the first timed sample as still.

## 3. Runs

All runs are exhaustive over their bounds.

| run | what it shows | bounds |
|---|---|---|
| `trackers` | `TypeOK`, `UniqueIds`, `LossExact`, `RatesCovered`, `SilentDropped`, `NoLiveDisplaced` | 3 heads for 2 slots, 5 units of time, stamps up to 1 late, 3 packets, 1 reboot, `seq` modulo 8 starting just before its wrap |
| `fabric` | `StandbyMeansAlone`, `CommandDelivered`, `InOrder`, `PresenceDecides` | 1 head, 1 dongle, 2 commands, 2 faults, 2 power cycles |
| `head_radio` | `FlagTruthful`, `WriteFindsUplink`, `ListensForever`, `StreamResumes` | FIFO of 2, `seq` modulo 3, 3 failed reconfigurations |
| `sample_loop` | `RateTrueUnlessGap`, `SendsOnTime`, `TapPairs` | rate windows of 2 samples, two sensors (nominal and fast), a queue of 1, two rates, 1 each of standby and command (IDENTIFY, SET_RATE, SET_MODE), 1 sample lost in each turn of the fusion thread; windows and the hold of a tap, which these three do not depend on, of no length |
| `tap_signal` | `TapsSignalled` | a listen window of 1 sample each 14, a hold of 14, a refractory time of 29; queue, rates, commands and losses as above |
| `fusion` | `ResetForgets`, `RestEarned`, `ClampHolds` | coarse offset, VQF's rest, gate and bad run of 2 samples each, biases of 0 to 2, 1 reset, 1 standby |
| `usb_pipe` | `WholeFrames`, `InOrderOnce` (the refinement of `FrameChannel`), `AllDelivered` | 2 producers, frames of 2 and 3 bytes, a ring of 7, a driver buffer of 2, 4 frames, 1 drop, 2 bus events |
| `command_path` | `CodecExact`, `DamageDetected`, `CommandsInOrder` (the refinement of `FrameChannel`), `Dispatched` | 1 thread beside the reader, 2 calls out of an accepted and a refused command, blocks of 3 bytes, a ring of 4, 1 event (overflow, lost port, unplug); the codec on payloads up to 5 of the bytes 0, 1, 255 |
| `client` | `HelloCallbackLive`, `VerdictIsTrue`, `ListIsTrue`, `StopPrompt`, `SilenceDetected`, `Reconnects` | 1 tracker, 1 start, a port given or searched for, 2 frames unread, 2 faults, counts up to 3 |
| `stabilizer` | `RequestsKept`, `TapsSpaced`, `NeedsWearer`, `TapRecenters` | a gap of 2 units, times of 1 to 3, `t_us` modulo 4 |

Why the bounds are enough. Each keeps the order of the constants that the code
compares, and is large enough for the case that is hard: three heads, so that one
finds the table full and another is displaced; a late stamp that crosses every
window; a wrap of `seq` with losses on both sides; a command overwritten while it
is repeated; two bus events, so that a frame is cut and the port then reopened;
two faults for the client, so that a dongle is lost, and its successor too; a gap
that aliases to a short one when `t_us` wraps; a window of the rate that begins
before a standby and ends after it; a listen window within the hold of a tap; a
bias that is saved, reset and restored, and a reset that makes good what a resume
has cut; a payload longer than the longest block and a block that ends
with it; a ring shorter than a frame. Counters that only grow are saturated
beyond what anything compares them with (each such cap is a named definition or
constant), or bounded by a guard of an environment action; no constraint cuts
behaviours.

Only `trackers` checks a type invariant, because it says more than types: an age
is never negative. The other proofs have theirs as a part of the inductive
invariant; that of `HeadRadio`, whose FIFO is never overrun, is a theorem.

`CHECK_DEADLOCK FALSE` is set where a bounded environment can be used up or the
system may rest: `trackers` (time ends), `fabric`, `usb_pipe` and `command_path`
(everything delivered), `client` (stopped), `sample_loop`, `tap_signal` and
`fusion` (an IMU that stays off when the head wakes up, its standbys used up,
delivers nothing). `head_radio` and `stabilizer` may never stop and are
checked for deadlock.

### Disagreements between the code and its documents

| run | what happens |
|---|---|
| `odr_spans_standby` | The measurement of the sensor's rate goes on over a standby, whose length it takes for sampling time. The one-time correction (main.c:285-287, "true sample interval" in htk_fusion.h:65-67) then sets the filter to a rate that no sensor has, until the head restarts. A window that lost samples to a full queue does it less. |
| `up_means_configured` | After a suspend and a resume the dongle discards every frame until it is enumerated again; PROTOCOL.md:302 promises STATUS at 1 Hz. |

Others were met while modelling. Most can be seen in the models, at the definitions
named, but no run is spent on them:

* `leds_tap()` looks at the counter (leds.c:119) and then writes it; an IDENTIFY
  that the main thread executes in between is cut to the length of a blip,
  although "an in-progress identify is not cut short by a tap" (leds.c:117-118).
  In `SampleLoop`: `TapLook`, `Identify`, `TapBlip`.
* A tracker that was silent for 30 s comes back to a slot that `claim()` has zeroed
  (trackers.c:73): `seq_lost`, "cumulative since dongle boot" (trackers.c:31,
  PROTOCOL.md:152), runs backwards, and what was lost during the silence is never
  counted. `LossExact` therefore counts from the claim.
* `htk_fusion_reset()`, a "full re-initialization" (htk_fusion.h:37-38), looks for a
  coarse offset anew, and goes on subtracting the old one (htk_fusion.cpp:242) until
  it has found a quiet second. `Reset` leaves `g_coarse.applied`, and
  `ResetForgets` speaks of the offset only once it has been found.
* RESET_FUSION may preempt an update that has judged the bias and not yet latched
  it: the update then latches what it had read, the convergence does not start over
  (htk_fusion.cpp:467), and the clamp holds the new bias to the old (`Judge`,
  `Reset`, `Latch`). A reset or a resume that cuts an update short at another point
  loses other parts of its effect: the bias that is written back, the sum of the
  offset, the rest gate. After a resume the clamp is still latched although VQF
  starts with the uncertainty saved (htk_fusion.cpp:500).
* One sample in which VQF sees motion makes `getRestDetected()` false for 1.5 s
  (vqf.cpp:88), and three bad samples drop the gate, so that "isolated spike
  samples" do drop it, against htk_fusion.cpp:55-56. Only spikes below VQF's
  threshold of 2 deg/s are tolerated.
* The dongle keeps one pending command for all heads (radio.c:313);
  PROTOCOL.md:455-456 promises one per target, so that a command is lost to a later
  one for another head. `CommandDelivered` exempts what was displaced (`Displaced`).
* Samples that arrive before the HELLO_RESP of an incompatible dongle reach the
  application (`HelloRead`); test_client.cpp:161-163 says that nothing is
  dispatched.
* With two dongles the repeats of the older of two commands can outlive those of
  the newer (PROTOCOL.md:232).
* A sample that meets a listen window takes a number and is not sent;
  PROTOCOL.md:472 says that `seq` counts transmitted samples.
* A sample without a `dt` reads as that of a head at rest, so a deferred recenter
  may be captured mid-swing (stabilizer.cpp:214-215); a gap does not seed the tap
  edge anew (PROTOCOL.md:122-124).
* `find_dongle()` does not look at `quit_`: `stop()` waits for it, 300 ms a port.
  A writer that spins on EAGAIN at a dongle that hangs holds `write_mu_`, for
  which the reader's HELLO waits, and `stop()` for the reader.
* The recording transport truncates its file at each reconnection
  (transport.cpp:334).

### Fairness

* `fabric`: weak fairness of everything that is due (`Step`): timers expire and
  loops go round; power switches are free.
* `head_radio`: a mutex that is released while main waits is handed to main;
  main sleeps a second between windows, in which the fusion thread, which comes
  round every few milliseconds, completes any of its steps and the radio sends.
  Hence strong fairness of the fusion thread's steps *while main sleeps*.
* `sample_loop`, `tap_signal`, `fusion`: safety only.
* `command_path`: threads finish a call whose write has ended, the reader
  configures a port it has opened or gives up, and closes one whose dongle is
  gone, the callback runs, and the work item takes what is in the ring. Nobody
  is promised the lock: calls are finite, and `Dispatched` begins with a writer
  that has it.
* `usb_pipe`: producers finish a call, the driver calls back while there is
  room, the host reads, and somebody brings a bus that went down up again.
* `client`: the reader thread and `stop()` run, time passes, a live dongle
  reports (weak) and answers (strong, since a full buffer or a closed port may
  come between).
* `stabilizer`: time passes, and the stream does not stop for good (strong
  fairness of `Begin`: samples may be lost for any finite time).

Safety properties use no fairness, and nothing assumes that a radio packet, a
beacon or a USB transfer succeeds other than through the bounds on faults.

## 4. Proofs

TLAPS checks these for every value of the constants that the modules' named
assumptions allow: any number of trackers, slots, heads, dongles, producers,
frames and commands, any durations, and any number of losses, reboots, power
cycles, standbys, resets and bus events. `FrameRoundTrip` is about operators and
`RadioTypeCorrect` about types; every other theorem is one of the properties of
section 3. Few of them are inductive as they stand: for each module `IInv`
(`FilterInv` and `RadioInv` in `HeadProofs`) is an inductive invariant, and what it
adds to the properties is named below.

| module | theorem | property | beside the assumptions |
|---|---|---|---|
| `TrackersProofs` | `TypeCorrect`, `IdsUnique`, `LiveNeverDisplaced`, `RatesAreCovered` | `TypeOK`, `UniqueIds`, `NoLiveDisplaced`, `RatesCovered` | |
| | `SilentAreDropped` | `SilentDropped` | `Punctual` |
| | `LossIsExact` | `LossExact` | `Punctual`, `SeqSpace` |
| `FabricProofs` | `CommandsInOrder`, `StandbyIsAlone` | `InOrder`, `StandbyMeansAlone` | |
| | `DeliveryInTime` | `CommandDelivered` | `Room`, `Margin` |
| `HeadProofs` | `RadioTypeCorrect`, `FlagAlwaysTruthful`, `WriteAlwaysFindsUplink` | `TypeOK` (which no run checks), `FlagTruthful`, `WriteFindsUplink` of `HeadRadio` | |
| | `ResetLeavesNothing`, `RestIsEarned`, `ClampIsKept` | `ResetForgets`, `RestEarned`, `ClampHolds` of `FusionFilter` | |
| `SampleLoopProofs` | `RateIsTrue`, `SendsInTime`, `TapsArePairs` | `RateTrueUnlessGap`, `SendsOnTime`, `TapPairs` | |
| | `TapsAreSignalled` | `TapsSignalled` | `Prompt` |
| `UsbPipeProofs` | `WholeFramesHold`, `PipeIsChannel` | `WholeFrames`, `InOrderOnce` (`UsbPipe` implements `FrameChannel`) | |
| `CommandPathProofs` | `FrameRoundTrip`, `CodecIsExact` | `CodecExact`; the first says it of every payload of any bytes | |
| | `CommandsAreInOrder` | `CommandsInOrder` (`CommandPath` implements `FrameChannel`) | `DamageDetected` |
| `ClientProofs` | `HelloCallbackIsLive`, `VerdictHolds`, `ListHolds`, `StopIsPrompt` | `HelloCallbackLive`, `VerdictIsTrue`, `ListIsTrue`, `StopPrompt` | |
| | `SilenceIsDetected` | `SilenceDetected` | `no_data_watchdog_ms > 0` |
| `StabilizerProofs` | `RequestsAreKept`, `TapsAreSpaced`, `WearerIsNeeded` | `RequestsKept`, `TapsSpaced`, `NeedsWearer` | |

### What is assumed

The modules' assumptions give the constants their types and the order in which
the code needs them (a window longer than a beacon period, a minimal gap of taps
below the maximal one, `COUNT_MAX` no less than the count of a promotion,
`GAP_MAX` below the width of `t_us`, `MAX_FRAME` room for the longest frame that
COBS can make: 59 + 2 bytes, one code more and the delimiter, in 64). Two say a
little more. `Stabilizer`:
`worn_hold_s > GAP_MAX` (3 s against 0.1 s), or one sample after a gap could
make a wearer, and `off_hold_s > 0`. `SampleLoop`: the rates divide the sampling
rate, and a standby (`Gaps`) outlasts the refractory time of the detector.

The hypotheses of single theorems are formulas of the module, and an `ASSUME` of
its `MC` module has TLC check that the run satisfies them:

* `Punctual`: no context of the dongle is held up for as long as an eviction
  takes (30 s). `SeqSpace`: a head heard of since cannot send half of the 65536
  sequence numbers before it is evicted (at 416 Hz it sends 12480); otherwise a
  gap would be read as a stale packet.
* `Room`: a window hears each dongle at most twice, and the queue of a head holds
  that. `Margin`: the repeats of a command (29 periods of 100 ms) outlast two
  iterations of the active loop (2.2 s).
* `Prompt`: the flag of a tap is held for longer than it may take until a packet
  that shows it is taken by the radio, and the detector is deaf until another one
  has shown the flag low. A packet comes after `Lag`: the queue (4 samples), those
  lost before it is taken, and for each of the 8 turns of the slowest rate the
  sample taken and those lost to that turn (`MaxLost`). In the worst case a window
  (46 samples) begins just before it, so that the wait is `2 * Lag + WINDOW`; a
  second window does not fall into it, as the sleep between them is longer. With
  one sample lost in every turn, for ever, the firmware has `Lag` = 4 + 1 + 8 * 2 =
  21 and a wait of 88 samples, below the hold (104) and the sleep (416); and the
  detector, which goes by the stamps of samples up to `Stale` = 20 old, is deaf
  for 416, where 104 + 20 + 88 are needed. With two lost in every turn the wait
  would be 106, and a flag could be missed. What the air loses is left out, and
  windows after which the radio cannot be set up again (`head_radio` has them).
* `DamageDetected`: no cut, merged or rewritten frame passes for a command that
  nobody wrote. It is no consequence of the other assumptions, since a checksum of
  16 bits can be fooled: with unfortunate commands the beginning of one frame and
  the rest of another may agree with the CRC they end with. TLC checks it for the
  commands of the run, and `CommandsAreInOrder` says that nothing else is needed:
  whatever the lock, the port and the ring do, only a frame that deceives the
  decoder can put a command out of order, repeat or invent it.
* A watchdog of 0 ms is off (client.cpp:399).

### The arguments

* `Trackers`. `Stamped`: a stamp of the receive thread is never ahead of the
  clock; a claim that works with an old one only underestimates a silence, so no
  live tracker is displaced. `Aging`: whoever is in the table was heard of in
  time for the last tick, or the work of that tick is still to come, or a fold
  has read the clock that will evict it; with the delays of the contexts this
  bounds the age of a row, and the gap of a head that returns. `Tracked`: the
  sample that the receive thread holds is at most as many samples later as its
  head was silent, so the modular step of `seq` is the true one and the loss
  exact. The rates are sums over the slots, which a step changes in one slot.
* `Fabric`. `Latest` and `Sorted`: a dongle repeats its last command, and each
  queue holds the commands of a dongle in order, behind what was executed.
  `Awaited`: a listening head has heard each dongle, or will within this window,
  or the dongle has come on in it; this bounds the time of a standby next to a
  dongle. For delivery `JInv` measures, for each command that is still awaited,
  how long its head may yet take (the rest of a window, an iteration, another
  one if a fault is still to come), and shows that its repeats last longer.
* `HeadRadio`. Who holds the mutex at which point of both threads (`MutexHeld`),
  what the radio is at each point of a turn (`MainProgress`), and that a fusion
  thread past its check still sees the radio it checked (`CheckHolds`).
* `SampleLoop`. A window that is not blemished sums exactly its own samples
  (`Measured`); the count of samples is below the slowest divider whatever the
  divider becomes (`Paced`); the detector's clock runs with the time since the
  last shock ended (`Marking`). For taps: any but the first sample of a queue
  covers no more than its own period and those lost before it (`Dense`, `Close`);
  `Behind` is how far the next packet may be behind the sensor, and `Held` how long
  a packet has been waited for at most, which a window that refuses one prolongs by
  its own length; a tap not yet shown has been held for no longer than that
  (`Owed`), and until the flag is seen low the detector is refractory
  (`Refractory`).
* `FusionFilter`. What the fusion thread holds in its locals agrees with the state
  that it was read from, and is of this epoch, unless a call of the main thread
  has fallen in between (`Earned`, `OfEpoch`, `Clamped`); a resume finds the bias
  of its standby, or a reset has taken it (`Resumable`). The offset in use is not
  in it: only one found since a reset is known to be of after it.
* `UsbPipe`. The bytes in the driver and in the parser's block are one contiguous
  piece of what the dongle wrote, and the frame in flight goes on where they end
  (`Ordered`, `Contiguous`, `Aligned`); only the loss of a port leaves a gap, and
  at most one until the next is opened (`Tearing`). `PipeIsChannel` maps each step
  to an accept, a loss, a delivery or a stutter.
* `Codec`. A run of a fold is a function of its states (`FoldRun`), and what
  holds along it is shown with the least step at which it would fail. Of the
  encoder: the bytes it has settled, those before its open code, are kept, and
  what it appends never changes them (`RunExtends`, `Settled`). Of the decoder:
  given those bytes it has restored what the encoder had read before its open
  block (`BlockOpen`), and it takes a block that is closed as a whole
  (`BlockTaken`), so at the end it has restored everything (`CobsRoundTrip`).
  That a frame fits into `MAX_FRAME` counts the codes against the bytes they
  stand for (`EncodedGrows`).
* `CommandPath`. The numbers of the frames only grow from the parser's block over
  the ring to the wire, and a delimiter is followed by none of its own frame
  (`Sorted`, `Ordered`), all of them are newer than the last command executed
  (`Fresh`), and the frame that the holder of the lock is still writing has not been
  ended (`Unended`). The command that a delimiter makes the dongle execute has a
  byte in the block, so it is newer than the last one and older than all that
  comes after it.
* `Client`. The callback is in the parser while its handshake goes on and no
  longer (`Hooked`); all that a handshake can hear was sent by the dongle that was
  there when the port was opened (`Session`); a tracker's age exceeds its expiry
  by no more than the time since the last sweep (`Sweeping`, `Aged`); where the
  reader is when `stop()` comes (`Stopping`); the watchdog counts no less than
  the silence (`Watched`).
* `Stabilizer`. The refractory time left covers what is missing of it in real
  time (`Refraction`). The times of wear and stillness say no more than the time,
  counted by the same `dt` of the samples, since the unit was last seen picked up,
  put down or alive (`Wearing`): a sample without `dt` counts for neither, so this
  is about the order of what the samples showed and not about a real clock.
  Requests are either posted or taken (`Requested`).

Some operators are defined by recursive functions or `CHOOSE` (the bytes used in
the ring, `Total`, `Elapsed`, the least rate, `Max`). The lemmas about them argue
with the least counterexample, which well-foundedness of the naturals
(`WFMin`) provides where the library's induction cannot be instantiated.

### Only model-checked

* Liveness, which needs fairness and ENABLED: `PresenceDecides`, `ListensForever`,
  `StreamResumes`, `AllDelivered`, `Dispatched`, `Reconnects`, `TapRecenters`.
* `DamageDetected`, for the reason given above: it depends on the commands.

`Dispatched` is about every frame that nothing has disturbed. A HELLO is none of
them: it is the first frame on a line that may hold the rest of another, with
which the dongle may take it for one block.

## 5. Not modelled

* Floating point: VQF's estimates, quaternions, the yaw-hold servo, the averages
  of the stabilizer; auto-centering, which is off by default. A model could only
  choose their results freely, as it does where a decision depends on them.
* The seqlock of the stabilizer's snapshot, whose hazard is the order of memory
  accesses in hardware; the models are sequentially consistent.
* `t_us` that aliases over a standby of 71.6 minutes or a multiple of it, in the
  tap detector and the measurement of the rate.
* In `CommandPath`, the repeats of a HELLO (up to three, client.cpp:268-276; the
  answer to the first ends them, and `Client` has them) and what a tty that is not
  yet raw echoes to the dongle: a session has one HELLO.
* The file, memory and recording transports, the Windows port, the enumeration of
  ports; a search with more than one candidate.
* The simulator's samples (to the ring they are frames of another producer), the
  self-report's contents, wording, logs, colours, statistics that nothing reads.
* The tools, which are command lines over the library.
* Preemption of the CDC callback by producers: it is taken to run on a
  cooperative work queue of the USB stack, so that it finds the ring empty and
  disables itself (usb_io.c:185-187) in one step, `IrqIdle`.
* The dongle is started with its bus configured, and a bus that resumes is not
  configured again, as the USB stack does it.

## 6. Plan

What is left, in this order:

1. A composition of `HeadRadio` and `Trackers` over `seq`: what a listen window
   costs in loss as the host sees it; one of `CommandPath` and `Fabric`: a
   command from the application to the head.
2. A search for the dongle over several ports, and the recording transport.
