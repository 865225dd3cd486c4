# TLA+ models of the AirPlay and Bluetooth receiver firmware

This directory models the control logic of the ESP32 receiver in this
repository: what its tasks share, in which order they touch it, and what can
go wrong between two of them. Every module names the C file it is read from;
`PROJECT.json` maps each definition to its lines, lists the components, and
the hazards of the code at the lines where they bite. TLC checks the
properties on small instances; TLAPS proves some of them for every size.

Contents: 1 the system, 2 the modules, 3 the runs, 4 fairness, 5 proofs,
6 divergences found, 7 what is left out, 8 plan.

Definitions commented as a *mutant* are wrong on purpose: each is a plausible
bug in the definition that follows it, and putting it in that definition's
place makes a property fail. They show that the property can fail.

## 1. The system

An ESP32-S3 plays audio from AirPlay 1 and 2 senders over Wi-Fi or Ethernet,
and from Bluetooth phones. Everything runs as FreeRTOS tasks on two cores,
mostly without locks: one spinlock protects the frame pool, mutexes protect
the registers of an amplifier, the LCD, the DACP session and the log, and
flags in global structures, polled by the tasks, do the rest.

| component | state it keeps | operations | hard part | what makes it correct |
|---|---|---|---|---|
| frame pool (`audio_buffer.c`) | `sorted[]`, `free_stack[]`, counting semaphore `data_ready` | queue, take, return, flush | the semaphore is used outside the lock; overflow; 32-bit timestamps wrap | no slot lost or doubled, frames in play order, nobody sleeps beside a frame |
| receiver and timing (`audio_receiver.c`, `audio_timing.c`, `audio_stream.c`) | gates (`discard_*`), anchor, pending frame, playout state | anchor, seek flush, deferred flush, pause, read | three tasks share the fields with no lock; a seek is *guessed* from numbers | no old frame after a seek, no new frame lost, no frame twice |
| realtime stream (`audio_stream_realtime.c`) | last sequence number, mask of 64 missing ones | receive, request again, retry; start, stop | UDP; 16-bit wrap; retry and backoff | nothing decoded twice, only missing packets asked for, holes filled |
| buffered stream (`audio_stream_buffered.c`) | the TCP connection, back-pressure | accept, read, start, stop | stop that gives up while the task lives | one task feeds the decoder |
| audio output (`audio_output*.c`) | I2S channel, playback task and its flags | init, start, stop, flush, rate | stopped and started from other tasks | one writer at a time |
| RTSP server (`rtsp_server.c`, `rtsp_conn.c`) | two client slots, `is_old`, `should_stop`, grace period; a request buffer per client | accept, takeover, cleanup, stop; read and split requests | the cleanup of one client beside the set-up of the next; bytes in pieces | a slot has one task; a session is not torn down by its predecessor; each request is dispatched once, in order |
| RTSP handlers (`rtsp_handlers.c`) | per connection: stream type, ports, event task | SETUP, RECORD, FLUSH, TEARDOWN, SETRATEANCHORTIME | order of requests beside the stream tasks | what was promised to the sender is so |
| HAP pairing and channel (`hap/*`, `rtsp_crypto.c`) | pairing step, keys, nonces; the identity in NVS | pairing messages, encrypted blocks | both ends change keys at one message | requests arrive whole and in order, and what is answered can be read; the identity survives a power cut |
| PTP and NTP clocks (`network/ptp_clock.c`, `ntp_clock.c`) | offset filter, lock, master | start, stop, clear, message | outliers, loss of master, a message applied late | a locked clock tells the time of the current sender |
| DACP client (`dacp_client.c`) | session, port, command queue | probe, command, discover | discovery against a change of session | tokens go to their sender |
| playback control (`playback_control.c`) | source, mute flag, saved volume | button actions | volume changed by two tasks | a muted DAC is silent |
| Bluetooth sink (`a2dp_sink.c`) | connection, writer task, ring buffer, queue of `bt_app`, AVRCP registrations | stack events, data callback | handlers of seconds in one queue; buffers freed while in use | hand-over of the output; sound on every connection; notifications renewed |
| start-up and arbitration (`main.c`) | `s_airplay_started`, active source | start and stop services, network monitor | three tasks start the same services | one source has the output; AirPlay comes back |
| network (`network/wifi.c`, `ethernet.c`) | link flags, retry counter and timer, access point | events, retries, AP fallback, scans | events against stop and start; five callers of one station | the station reconnects; the box can be configured |
| settings, web server, OTA (`settings.c`, `web_server.c`, `ota.c`) | NVS, RAM copies, boot slot | store, restart, update | power cuts and failed writes between two stores | it restarts with what was asked for |
| log stream (`log_stream.c`) | ring, table of sockets | write, broadcast, register | sockets closed and re-used under the sender | the newest lines, each once |
| amplifiers and boards (`dac_tas58xx.c`, `dac_tas57xx.c`, `boards/*`) | registers, power mode, fault and jack flags | power, volume, equaliser, interrupts | read-modify-write by five callers; interrupts while a task waits | the chip follows what was ordered |
| LEDs, display (`led.c`, `display*.c`) | mode, timer; texts, position, `dirty` | events, timer callback, redraw | shared with no lock | what blinks goes on blinking; the panel shows the latest |
| buttons (`buttons.c`, `rl_buttons.c`, `rl_app.c`) | contacts, timers, press counts | edges or polls, callbacks | click, double click, hold and chords in any order | no click lost; power off only on purpose |
| stereo pairing (`rl_tws.c`) | role, timers | beacons, acknowledgements | both elect at once, packets lost | not two slaves |
| codecs, FairPlay, RSA, plists | none between calls | - | - | - |

How they interact:

    sender --RTSP--> client task --calls--> receiver (anchor, flush, pause)
       |                |  \--start/stop--> PTP, NTP, DACP, event port task
       |                \--events---------> listeners (LED, display, board)
       \--RTP/TCP--> stream task --gates, decode--> frame pool
                                                      |
                          playback task <--timing-----/ --> I2S
    phone --BT stack--> bt_app task --on_bt_state_changed--> main.c stops and
                                          starts the services; writer task --> I2S
    link events --> is_connected flags <--polled-- network monitor --> main.c
    buttons --queue--> action task --> playback control --> DAC, DACP or AVRCP
    web page --> settings, equaliser, OTA, restart

## 2. The modules

### Audio path

`AudioBuffer` - the pool. Each lock region is one action; each call on the
semaphore, which is outside the lock, is another (`QueueChunk`, `GiveToken`;
`TakeToken`, `TakeOldest`; `FlushSlots`, then `DrainToken` token by token). The
overflow path, which takes a token inside the lock, is part of `QueueChunk`.
`sorted_insert_pos` is defined by what it returns. Several producers stand for
a stream task and one that a timed-out stop left running; flushers are the
RTSP tasks; the playback task flushes too when a deferred flush fires.

`InsertPos` - the binary search itself, one loop iteration per step, shown to
return what `AudioBuffer` uses.

`Playback` - from the sender to what is heard. The RTSP requests are split at
the stores other tasks can see: `SeekFlush`, `SeekReset`, `SeekArm` for
`audio_receiver_seek_flush`; `AnchorArm`, `AnchorOpen`, `AnchorOldest`,
`AnchorSet` for `audio_receiver_set_anchor_time`. The stream task reads the
gates in `ReceiveFrame` and queues in `QueueFrame`, so that a frame can be in
the decoder across a seek. `audio_timing_read` is `ReadBegin`, `ReadFetch` and
one of the outcomes. The pool is here the set of its frames: order, capacity
and slots are `AudioBuffer`'s business. A unit of RTP time and of the clock is
one frame.

`ResendWindow` - the sequence numbers of the realtime stream. The 64-bit mask
is the set of its bit numbers. Any packet that was sent may arrive at any time,
twice or never. A request and its retry may follow each other within one
packet, as in `realtime_receive_packet`, and each may fail, be lost, or be
answered. Time since the last request and the last error are ages, cut off
where they no longer matter.

`Session` - the requests of one connection beside the stream tasks and the
task of the event port. A request puts the steps of its handler into `todo`;
each step (`SetupStream`, `StartStream`, `WaitForTask`, `Format`, ...) is an
action, so that a stream task can run, block in the network or decode between
any two. A stop that waits one second gives up only on a task that is blocked
in a call. `Feeder` is the abstract specification it implements: at most one
of the two streams has a socket open, and a task takes audio only from an open
one, alone; this is what lets the streams share decoder and buffers unlocked.
The mapping takes a stream for open while it has a port, and a task for
feeding while it decodes.

### Connections

`RtspServer` - the server task (`Accept`, the wait for a slot, the two stores
of `signal_old_client_stop`, `Launch`, `Launched`), and a client task with each
step of its cleanup, which is where it meets its successor: audio, NTP, the
grace period with its two phases, DACP, PTP, the event port task, the
connection. The receiver and the clocks are reduced to who started them last.

`RtspChannel` - the bytes of one connection: the read loop and its growing
buffer, the encrypted blocks read one `recv` at a time, the pairing handlers
that turn encryption on, and the client's end. A script, chosen in `Init`, says
what the client sends. Keys are terms: which exchange made them. The client is
not part of the program. It pairs as the protocol has it: it waits for M4, reads
it in the clear, and turns encryption on with it (`ReadAnswer`, `IsM4`). The
receiver does so at a pair-setup, but answers a pair-verify already encrypted;
the client that cannot read that answer gives up (`broken`). Otherwise what is
assumed of the client is `Orderly`: the second message
of a pairing follows its first, nothing is paired once the channel is encrypted,
and a request too large for the buffer is the last. Beyond it the properties do
not hold (a pair-setup M5 after encryption, for one, resets the counters of the
blocks, see `PairSetup`).

`PtpClock`, `NtpClock` and `Clocks` - the two clocks, and the sessions that
start, stop and steer them. A PTP message is filtered by its master in one step
(`Measure`) and changes the estimate in a later one (`update_offset`), with
whatever the RTSP task does in between.

`DacpClient` and `PlaybackControl` - a press of a button, by the source, to the
DAC or to the DACP queue; the worker of that queue; the RTSP task that sets the
volume and the DACP session at the same time. A new session is stored under the
mutex (`dacp_set_session`) and its discovery queued afterwards (`ConnectPosts`),
with presses, the worker and other tasks in between.

`SourceSwitch` - the hand-over between AirPlay and Bluetooth.
`start_airplay_services` is one action per call it makes, since `app_main`, the
network monitor and `bt_app` all run it; `stop_airplay_services` and the two
callbacks of `main.c` likewise. Link events change the flags that the monitor
samples. The output has one transmit channel, and a second initialisation is
refused. What that does is up to the build, and `Checks` is the set of builds
considered: a `"stop"` aborts at a failed `ESP_ERROR_CHECK`, as every
configuration in this repository does; a `"pass"` is one whose option for
assertions leaves the test out. The run and the theorems take both.

`BtRing`, `Avrcp` - the PCM ring of a Bluetooth source with the callback, the
writer and the task that frees both; the notifications and volume of AVRCP,
through the bounded queue of `bt_app`.

`Network` - the station with its retries and back-off timer, the set-up access
point, the scans, the choice at boot and the monitor. The driver and the
access points are the environment. `wifi_init_apsta` starts the driver
(`StartDriver`) or, if it runs, gives it its configurations again
(`ConfigureAgain`); the driver refuses those of a station that is connecting.
That is under `ESP_ERROR_CHECK` too, so the monitor either goes on (`Poll`) or
the program starts again (`PollAborts`): both are steps.

### The box

`Tas58xx`, `SqueezeAmp` - the two amplifiers: register sequences under a mutex
or not, the tasks of their interrupts, and the power modes ordered by RTSP
events. The events of the Esparagus board come from any of a set of `Emitters`
(client tasks at a takeover, the event port's task, the buttons'), each of which
restores the equaliser itself. `Storage` - NVS writes one at a time, with power cuts and full flash
between, the identity key pair, the web requests and the firmware update.
`LogStream` - the log ring and the walk over the table of sockets. `Led`,
`Display`, `Buttons`, `Speaker` - what the listener sees and presses; timers
are counters, a timer's command is a message in the daemon's queue. The polls of
`Speaker` are in time or late (`PollIsLate`), since callbacks run in the task
that polls. `Tws` -
two speakers over a channel that loses and delays.

### Composition

`Session` uses `Feeder`; `Clocks` composes the two clocks with the sessions;
`PlaybackControl` extends `DacpClient`, which its commands go to. `MCLinks`,
`MCControls` and `MCDevice` check several parts that share no state in one run:
a variable `part`, chosen in `Init`, says whose behaviour it is, and the other
parts stay in their initial states. Nothing is claimed of the product.

`Playback`, `RtspServer` and `Session` take a set `Scenarios`: a record, chosen
in `Init` and never changed, of what the environment may do and how often. One
run then covers several situations that together would be too large. The `MC`
modules define the scenarios.

The theorems are in modules of their own, which extend the module they are
about: `AudioPath_proofs` (of `AudioBuffer` and `Playback`), `ResendWindow_proofs`,
`Session_proofs`, `SourceSwitch_proofs`, `Clocks_proofs`, and, for the parts
that one run checks together, `Device_proofs` (of `MCDevice`, `InsertPos` among
them), `Controls_proofs` (of `MCControls`) and `Links_proofs` (of `MCLinks`, and
of `RtspServer`).

## 3. The runs

| run | module | shows | bounds and why they are enough |
|---|---|---|---|
| `audio_buffer` | `MCAudioBuffer` | `SlotPartition`, `PlayOrder`, `TokenPerFrame`, `BufferedFrameIsPlayed` | 3 slots: empty, full, and full with one slot held all occur, with two producers, one flusher and the flush of the playback task; timestamps 15 and 0 of a clock of 16, so that the index wraps and holds equal keys; packets of up to 2 chunks. `TokenPerFrame` needs more slots than producers, as the code has (a thousand to two) |
| `playback` | `MCPlayback` | `PlaybackInv` (no stale frame passes), `NothingHeardAgain`, `TrackKept` (neither the gates nor an anchor lose a frame of the new track) | two frames per track, two in the socket; a seek is 20 units and the thresholds of 5 and 10 s are 3 and 5, so all three sides of each test occur. Scenarios: a forward seek with frames arriving between the stores of both requests; a backward seek with or without FLUSH; one track with a pause, a resume and a deferred flush |
| `resend_window` | `MCResendWindow` | `WindowInv`, `AcceptedOnce`, `HolesFilled` | a window of 3, six packets over the wrap: gaps that fit, that do not fit and that are too large, and a window that slides across the wrap. The packets stay within half the number space, as 64 of 65,536 do |
| `rtsp_server` | `MCRtspServer` | `ServerInv` (`SlotHasOneTask`, `OneClientUnstopped`, `IdleIsClean`), `GraceKeepsSession`, `StoppedClientGoes` | three connections, so that a slot is reused while its last task may still live. Scenarios: at any time; reconnects in a grace period; one after the other with a restart of the server |
| `session` | `MCSession` | `SenderHeard`, `OneFeeder` (the refinement `F!Spec`), `DecoderKept`, `SessionInv` (the event port), `Answered` | two connections of up to seven requests; AirPlay 1 and 2; senders that keep the order SETUP to TEARDOWN, and senders that send any request at any time; one failure of a socket or task; two ports, so that a closed one is reused |
| `clocks` | `MCClocks` | `LockedIsRight`, `ClocksInv` (`NtpAccurate`, `NoForeignClock`), `Locks` | two masters and two AirPlay 1 senders whose clocks differ by more than the outlier threshold, late and prompt messages, windows of two samples, three requests: every change of protocol and of sender occurs |
| `links` | `MCLinks` | `ChannelInv` (`InOrder`; `AnswersReadable`: all but the M4 of a pair-verify), `AllAnswered`; `Reconnects`, `MonitorFollows`, `SetupReachable`; `SoundComes`; `JackSettles` | scripts of five requests for each way of pairing, with blocks of two units, requests of one to five units in a buffer of 4 that grows to 6, and two timeouts anywhere; one access point, a threshold of 2, two starts of the driver; a ring of 4 with a prefetch of 2 over three connections; the interrupts are unbounded |
| `controls` | `MCControls` | `ControlsInv` (`NoClickLost`, `BlinkGoesOn`, `OledUpToDate`), `TokenToItsSender`, `Renewed`, `PowerOffIsDeliberate` | six edges of two buttons with the timers in their real order; all presses within the chords given, of any length, polled in time or late; two DACP senders, three sessions and a queue of two; a `bt_app` queue of three; two calls of each LED setter; two tracks and two notices for the display |
| `device` | `MCDevice` | `PowerFollows`; `FlashInv` (`IdentityStays`, `RestartsAsAsked`, `CopiesAreStored`); `DeviceInv` (`NeverBothSlaves`, `NewestKept`, `ServedOnce`); `FoundPlace` | two tasks that emit events; one volume and one equaliser setting besides the defaults, which is all that a lost register needs; two values, three stores and two power cuts; a log ring of 3 with four lines, three sockets opened four times, so that a number is reused; every ascending index of up to 5 over four wrapped timestamps |
| `source_switch` | `MCSourceSwitch` | `BluetoothAlone`, `SwitchInv` (`ServerStartedOnce`, `StartedIsComplete`), `AirPlayComesBack` | Ethernet and Wi-Fi, three changes of the network and two visits of a phone, one thing at a time; `Checks = {"stop", "pass"}`: with the configurations of the repository the program aborts when the output is initialised a second time (`NeverAborted`, section 6), and what comes after that is seen in a `"pass"` only |
| `rtsp_takeover` | `MCRtspServer`, `MCRtspServerTakeover.cfg` | violation of `NewSessionKept` | AirPlay 2 connections at any time |
| `amplifier_fault` | `MCAmplifierFault` | violation of `FaultMutes` | the amplifier alone |

Each passing run also checks its modules' type invariants, as a conjunct of
one of the invariants named. A name with `Inv` is the conjunction of the
properties that follow it in parentheses and of types; each conjunct has been
seen to fail by itself under a plausible bug. Deadlock is checked in
`audio_buffer` and `resend_window`, where some task can always go on; in the
others the system may come to rest when the bounded inputs are used up.

The assumptions behind some passing properties are narrow on purpose, since the
property is *not* kept beyond them (section 6): `playback` seeks by more than
10 s, `source_switch` changes one thing at a time, `AirPlayComesBack` excepts
a program that has aborted, `AnswersReadable` excepts the answer to a pair-verify's M3,
`DecoderKept` and
`SenderHeard` speak of senders that tear a stream down before they set up the
next, `BlinkGoesOn` of one setter at a time (`raced` remembers two),
`Reconnects` of a station whose timer no web scan has stopped, `Renewed` of a
queue that let no event go.

## 4. Fairness

FreeRTOS runs every ready task: a task that is inside a call goes on, polls
are repeated and blocking calls time out. So the steps of a started call are
weakly fair, and nothing makes a sender, a phone or a network act unless a
property says so.

- `AudioBuffer`: `Consume` is fair because the playback task reads in a loop;
  `QueueDecoded` and `FlushSlots`, which begin a call, are not fair.
- `RtspServer`: `Disconnect` is fair only when `should_stop` is set (the
  receive call has a timeout of its own); phase 2 of the grace period lasts as
  long as the sender is advertised.
- `ResendWindow`: strong fairness of `Retried` and `Filled`: a network that is
  asked again and again answers some time, and one of the answers arrives.
  Without it a hole that is never answered stays.
- `SourceSwitch`: every task and worker; not the phone, not the interfaces.
- `Session`: the handler, and a stream task that checks its flag or decodes;
  never the arrival of audio, so that a task may be blocked for good. The event
  task ends when its connection does.
- `Clocks`: while a session is under way and no RTSP request is, the expected
  master is heard and measured. This is an assumption about the sender, and
  `Locks` says "while the session's master is heard".
- `MCLinks`, each part while it is its turn: the client sends and reads, the
  receiver goes on; the handlers, timers, scans and the monitor of `Network`
  run, and an access point in reach lets the station in at last (`SF` of
  `Associate`: the code's retries are unbounded, so is the driver's chance); a
  streaming phone sends data, the writer runs, `bt_app` takes its next event;
  the GPIO task runs.
- `MCControls` and `MCDevice` check no liveness.

## 5. Proofs

`AudioPath_proofs` proves of `AudioBuffer`, for every capacity, modulus, set of
timestamps and set of tasks:

- `Invariance`: `Spec => []IInv`. `SlotPartition` alone is not inductive: that
  a freed slot is not already free needs that it was in the index or held, and
  that a push fits needs the sizes. `IInv` adds the types, that
  `count + free_top + held = Capacity`, that a slot is held exactly while the
  playback task is at "holding", and that a producer inside a packet has chunks
  left. Lemmas say what each of the five movements of a slot (drop the oldest,
  insert, take, return, flush) does to the partition; then there is one lemma
  per action.
- `TypeCorrect` and `PoolPartition`: `TypeOK` and `SlotPartition` follow.
- `RefusalExplained`: so does `RefusedOnlyWhileHeld`. When the stack is empty
  after the overflow path, the index was not full; by the sum of the sizes the
  slot that is missing is with the playback task.

Its second half has what depends on the values:

- `FramesInOrder`: `Spec => []PlayOrder`. The inductive invariant `OrderInv`
  adds to `IInv` that the index is ascending under `ts_cmp` (`Ordered`), and
  that the timestamps a packet still brings are of the stream (`ChunksKnown`).
  In an ascending index the older frames are a prefix (`InsertPosSplits`), so
  an insertion at its end keeps the order. `PlayOrder` is stated with the
  unsigned difference of the timestamps; `TsCmpWithin` connects the two.
- `OnlyFlushUpsets`: `Spec => TokenPerFrame`. Each step other than a flush
  keeps frames = tokens + tokens owed + token in hand. The overflow path is
  the delicate one: it takes its token back without waiting, and would lose
  count if there were none. There is one as long as the slots outnumber the
  producers (`ProducerAssumption`), since a producer at the lock does not owe a
  token itself (`TokenLeft`).

And of `Playback`, for every scenario (any tracks, seeks, pauses, deferred
flushes, preemption) and all thresholds and bounds, `HeardOnce`
(`NothingHeardAgain`). A frame passes through six places: not yet sent, in the
socket, in the decoder, in the pool, in the hand of the playback task (pending
or being read), heard. `WayInv` says that of each generation the frames in one
place come before those in all earlier ones (`OrderKept`), and that the playback
task has one frame in hand: the pending one is the one it reads, and none is
pending while it reads one of the pool (`OneInHand`), else the pending frame
would be heard after a later one. The requests only take frames away
(`FewerInOrder`), so the theorem needs nothing of the gates.

The other two properties of `Playback` do, and hold for the senders that the code
is made for; without the conditions both can fail (section 6). `PlaybackTypes` and all
of `TypeInv` need none. The conditions are predicates on the scenario, which no
step changes, and not assumptions on the constants:

- `TrackIsKept` (`TrackKept`) for a `Steady` sender: each track comes after a
  FLUSH, a pause and the lead of an anchor are together not more than the seek
  threshold (5 s), and a track's frames are not more than the gate window (10 s)
  ahead of its start. `OneTrack` of `MCPlayback` meets the bound on the pause exactly.
  The invariant (`AnchorInv`) follows the anchor: what the sender owes is never
  before the anchor in force nor further on than the clock (`AnchorOwed`,
  `Paused`), and a gate that is armed was armed by an anchor of this track
  (`WindowBegins`, `WindowEnds`). So a resume is near where playback should be
  (`ResumeIsNear`), and the gates let pass all that is not before the anchor.
- `StaleIsBlocked` (`PlaybackInv`) for tracks that are `FarApart`: any number of
  them, each after a FLUSH, each above all earlier ones by more than the seek
  threshold, whatever frames get in the middle of the requests; or each below
  all earlier ones, by more than the window can reach, and no frame gets in the
  middle. `FenceInv` says for every point between a FLUSH and its anchor what
  keeps the old frames out: the blanket gate, then the window, which only a frame
  of the new track disarms (`Fenced`); and for those that had got in, that the
  oldest frame of the pool is far from the anchor as long as any is stale
  (`OldestIsFar`), so that the request flushes them all.

`ResendWindow_proofs` proves `MissingIsTrue` (`WindowInv`) and `NoneTwice`
(`AcceptedOnce`) for every number space, window and sequence of packets within
half of the number space. The code sees 16-bit numbers, the properties speak of
packets: the invariant says that some packet sent is the last one seen, that
nothing accepted comes after it, and that each bit of the mask stands for an
earlier packet that was not accepted (`HolesBefore`). Half of the proof is
arithmetic: that the signed difference of two numbers is that of their packets
(`SignedIs`), and that a slide of the window moves each bit to its new place
(`SlideKeeps`). That the lowest missing bit exists is induction over finite
sets, taken from the library as well-foundedness of their inclusion.

`Links_proofs` has two theorems of `RtspServer`, for any number of connections:

- `SlotsAreTheirs`: `ServerInv` holds as long as `rtsp_server_start` did not
  clear the slots under a client task that another connection may follow; the
  hypothesis is the divergence listed in section 6. The invariant ties a task to
  its slot (`Owners`), says when two can be there at once (`OneAtATime`,
  `Handling`), who has been told to stop at each step of the server task
  (`Told`), and what of a client is still in the device at each step of its
  cleanup (`Leftovers`).
- `ReconnectIsKept`: `GraceKeepsSession`, where connections come one after the
  other, or AirPlay 1 senders reconnect in the grace period without a restart of
  the server (a cleanup for an AirPlay 1 sender stops PTP, which an AirPlay 2
  successor needs). It needs the order of the two: the one marked old is in its
  grace period or at the end of its cleanup, so what it still runs touches
  nothing of its successor (`InTurn`, `CleanupIsOwn`).

And two of `MCLinks`, for any sizes, bounds and access points, and any scripts of
an orderly client:

- `ChannelIsSafe`: `ChannelInv`, that is `InOrder` and `AnswersReadable`. All that
  the client has sent and the receiver has not dispatched is one chain of units
  (`Chain`, `After`), cut in up to four places: the buffer, the block being read,
  the wire, and, encrypted, the blocks on it (`Carries`). `Flow` says that the
  buffer starts the next request and that what follows continues it up to the
  last one sent, in the clear (`InTheClear`) or in blocks whose keys and counters
  are those that the receiver expects and the client goes on with (`Sealed`).
  The other half is what the two ends know of each other (`Agree`): the receiver
  turns to encryption at M4, and while the client has not yet there is nothing
  under way but that answer, since a client that pairs waits for its answers
  (`Waits`). After a pair-setup it reads it and turns too; after a pair-verify
  it cannot, and nothing follows: this is the one answer that `AnswersReadable`
  lets be unreadable. After that the
  answers under way are framed from the client's counter to the receiver's
  (`Framed`). A block is read in pieces with timeouts between them; that those
  read are the first block's is `PiecesHead`, and that there is room for it
  follows from the space the read loop keeps free before it begins one. A
  request too large for the buffer takes along what has arrived, and then
  nothing is dispatched any more (`Dropped`).
- `LinksAreBounded`: `LinksInv`, the types and bounds of all four parts and
  `SetupReachable`. The event queue of the network has room for the one event of
  `wifi_stop` because only a running driver adds others (`NetworkEvents`), and a
  station without credentials never gets an address that would take the access
  point down (`NoAddress`). Of the ring buffer, that while the callback
  prefetches there is less in it than wakes the writer (`RingControl`).

`Device_proofs`, of the parts checked together in `MCDevice`, each with its own
invariant:

- `ControlRegisterKept`: `PowerFollows`. What the holder of `s_reg_mutex` has
  read is still what was ordered when it writes; without the mutex it would not
  be. The invariant names where each task is between its read and its write.
- `PartsAreRight`: `DeviceInv`. A pair is never two slaves because the beacon in
  the air came from a master, and who becomes a slave by it leaves the other
  one not a slave (this needs that there are two boxes, `TwsAssumption`). The
  ring holds the newest lines whatever its head and tail are (`Newest`, with
  the wrap as `Wrap`); a frame that is being sent to the table from the end has
  reached just the clients behind the index.
- `FlashIsWhole`: `FlashInv`, for every place of a power cut or failed write. For
  the identity: the pair in NVS is whole, or its second half is being written
  and nobody has been told of it. For requests: what is stored so far of what
  was asked for.

- `SearchFindsPlace`: for an ascending index of any length, what is left of `lo`
  is older and what is from `hi` on is not (`SearchInv`); so when they meet, the
  place is found. Like `FramesInOrder`, it assumes `OrderAssumption`: that
  `ts_cmp` orders the timestamps in use, which holds when they lie within half
  of the 32-bit range. The pool holds seconds, half of the range is half a day.

`Session_proofs`, for any set of ports, any requests in any order, any number of
connections (one at least: a connection is what calls the handlers) and of
failures:

- `StreamsFeedOne`: `Spec => OneFeeder`, the refinement of `Feeder`. No lock
  keeps the two streams apart, only the order in which the handlers of one
  connection stop, bind, create and select. Between two requests the invariant
  is short: the stream that runs is the selected one and has the only port, and
  a task decodes only for it (`StreamsInv`). Within a handler it depends on what
  is left of its list of steps, which grows as calls are made and shrinks as
  they return or fail. `Due` says it for any list: at each step of a set G a
  condition holds, since it holds now or an earlier step brings it about, and
  no step between destroys it. `Stopped`, `Selected`, `Bound` and `Fresh` are
  four instances (a socket is closed, and the receiver cleared, only when the
  stream was told to halt; a stream is started only when it is selected; ...).
  How `Due` fares when the first step is taken off, replaced by the steps of
  its body, or dropped with the rest after a failure, is proved once for all
  lists (`DueMoves`), so each action has to show only what it does to the
  conditions. `FeederStep` then maps each step to one of `Feeder` or a stutter.
- `OneEventPort`: `SessionInv`. SETUP may come twice, the task of the last
  connection may still be ending, and the cleanup stops it: `EventInv` says who
  listens while the flag of the connection is set.
- `SenderIsHeard` and `DecoderIsKept`: `SenderHeard` and `DecoderKept`, for a
  sender that sets streams up only when they are not. What it relies on is the
  work of a whole handler, and of the ones before it, each step of which may
  fail; between two steps nothing of it need be true. `OrderlyInv` therefore
  says mostly what holds when the list of steps is done (`Ends`), unless it ends
  in an error: the promise is the stream's, with the key, the codec, the ports
  and the tasks it needs (`Heard`), or nothing is promised (`Withdrawn`).
  AirPlay 1 spreads the same over ANNOUNCE, SETUP and RECORD (`AirPlay1`), which
  needs that RECORD comes unpaused unless after PAUSE. A step that may fail, or
  replaces the decoder, only comes before anything was promised (`Unpromised`),
  which is why a failure takes nothing from the sender but the answer, and why
  no task is decoding. Where a list is put together from parts, so is what it
  leaves (`EndsJoined`, `DueJoined`); `SetupBodyIs` does that for the longest,
  a SETUP with streams.

`SourceSwitch_proofs`, for any number of visits of phones and changes of the
network, on any board:

- `PhoneHasTheOutput`: `BluetoothAlone`.
- `SwitchedAsAWhole`: `SwitchInv`. No task comes to start the RTSP server while
  one runs or is about to (`ServerStartedOnce`), and services that are said to
  be started all are (`StartedIsComplete`).

Neither assumes anything of the driver of the output or of `ESP_ERROR_CHECK`: the
second initialisation is refused, and they hold of builds that abort then and of
builds that go on. That the program gets past it is not proved, and is not so
(`NeverAborted`, section 6). Both assume that network and phones change while nothing is under way
(`NetChanges = "quiet"`): with changes at any time the code does not keep them
(section 6). Nothing locks `start_airplay_services`; the invariant shows that
its three callers still never meet. A network that is new has been seen by the
monitor before a phone can connect (`OneAtATime`); a phone's events are handled
in order and its last one is that it has left (`Visit`); how many services run
follows from the step of the one task that starts or stops them (`Services`).

`Controls_proofs`, of the parts checked together in `MCControls`:

- `NothingGetsLost`: `ControlsInv`. A click waits for its window or for the
  release, and no press is counted without an edge (`ButtonsIInv`). While no two
  setters of the LED have met, the one that is at work stores the mode it then
  acts on, and a blinking mode has its timer, or a command or the callback that
  will arm it (`Unraced`). What the OLED's task has drawn so far agrees with
  what it drew from, or `dirty` is set, or a callback under way will set it
  (`Drawn`).
- `TokenIsKept`: `TokenToItsSender`. A session keeps the token and the address of
  one sender, and so does the worker's copy of them (`OneSender`).
- `AlwaysRenewed`: `Renewed`. Each handler that takes an event sends the
  registration it stands for, and nothing else takes one away.
- `SleepIsMeant`: `PowerOffIsDeliberate`. A POWER that counts towards the long
  press has been down for longer than it has counted (`HeldLong`), whether the
  polls were in time or late. It
  needs that no other time of `rl_buttons.c` is longer than that of a
  combination (`SpeakerAssumption`).

`Clocks_proofs`, for any number of masters and senders, any delays below the
outlier threshold and any interleaving of the clocks' tasks with the requests.
It assumes what the threshold is for: that two masters' clocks differ by more
than it and the delays of messages by less (`MasterAssumption`).

- `LockTellsItsMaster`: `LockedIsRight`. `handle_ptp_event` measures, a request
  may then name another master, and `update_offset` applies what was measured
  of the old one. The invariant (`PtpIInv`) says why no lock comes of it: the
  overtaken measurement is the first of the new master, when there is no
  candidate (`Overtaken`), and all that follow are outliers to it, until a
  resume or the next anchor lets the clock start again. In every state the estimate lies within the delays of
  some one master's offset (`Tracks`), and when locked that one is the expected.
- `ClocksKeepToTheirOwn`: `ClocksInv`. All that the NTP client's history and its
  pending answer hold is its present sender's, `ntp_offset` is the best of the
  history, a client that does not run locks nothing (`NtpIInv`), and only an
  AirPlay 1 session has a client (`SessionIInv`).

Assumptions on constants are named in the modules, and TLC evaluates them for
each instance.

Only model-checked:

- Liveness (`BufferedFrameIsPlayed`, `StoppedClientGoes`, `AirPlayComesBack`,
  `HolesFilled`, `Answered`, `Locks`, `AllAnswered`, `Reconnects`,
  `MonitorFollows`, `SoundComes`, `JackSettles`): out of reach of the prover.
- `PlaybackInv` and `TrackKept` for tracks that change without a FLUSH: there the
  anchor must still be in force, which the stuck-anchor valve may have given up.
  TLC checks the backward seek without FLUSH.

## 6. Divergences found

With a run that shows each (`findings` in `PROJECT.json`):

1. `rtsp_takeover`: the cleanup of a replaced client stops its successor's
   audio, clocks and DACP session.
2. `amplifier_fault`: ordering a power mode writes the mute bit that the fault
   task has set; an amplifier whose fault is still there plays unmuted, and the
   fault task, which acts on edges, does not mute it again.

Properties stated in the modules that the code does not keep. To see one, put
it in place of the properties of the run named:

| property | run | what happens |
|---|---|---|
| `SemaphoreInSync` | `audio_buffer` | a chunk queued while a flush drains leaves the semaphore out of step with the frames, in either direction |
| `PauseDropsPending` | `playback` | a pause clears the pending frame while `audio_timing_read` is about to store one |
| `StuckAnchorGivenUp` | `playback`, `Scenarios <- FarAnchor` | the limit on consecutive early reads never fires, because a re-check of the pending frame does not count |
| `TrackKept` | `playback`, `Scenarios <- LongPause` | a pause longer than 5 s is taken for a seek, and the buffered track is flushed; the snapshot meant against it is never taken |
| `NothingCarriedOver` | `clocks` | a message of the last master, filtered before `ptp_clock_set_master_clock_id` and applied after it, is the first sample of the next master (`ptp_clock.h` says a stale offset is not carried over); outliers are then those of the right master |
| `ModeOfProtocol` | `clocks` | PTP stays locked, and is preferred, when an AirPlay 1 session starts: `ptp_clock_stop` leaves the lock |
| `Rediscovers` | `controls` | "so next command re-discovers": a discovery that does not fit the queue is dropped, and after a failed request only a new session queues one |
| `MutedIsSilent` | `controls` | a sender that connects after a local mute sets the volume of the DAC, muted or not; and `playback_control_set_source` clears the flag without unmuting |
| `VolumeWillBeTold` | `controls` | a press of the button answers the registration and then clears the flag; a registration that came in between is forgotten |
| `SleepsMuted` | `controls` | `rl_app_init` unmutes a speaker that is going to sleep, when POWER is held at boot |
| `OffIsDark`, `ErrorEnds` | `controls` | a timer callback under way lights a LED that was switched off; two tasks that set and clear the error leave its LED different from the state |
| `LcdUpToDate` | `controls` | the LCD clears `dirty` and then fails to get the LVGL lock: the update, "never lost", is |
| `PositionGoesOn` | `controls` | METADATA or PLAYING repeated during a track resets the time of synchronisation but not the position |
| `AllHear` | `controls` | with LEDs, board, display and Bluetooth, `rl_app` registers fifth of four, is refused, and does not look |
| `SnapshotIsAlive` | `links` | a copy of the handle does not keep the ring buffer: `bt_app` frees it while the callback uses it |
| `HeadphonesSilence` | `links` | PLAYING enables the speaker whatever the jack and the fault say |
| `VolumeKept` | `device` | leaving DEEP_SLEEP writes 0 dB, and nobody repeats the volume that was set |
| `EqFollows` | `amplifier_fault`, `Gains = {g, h}`, `MaxEqs = 2` | a setting from the web page, saved and applied between the reading of the saved one and its restoring, is overwritten by the old one |
| `OnlyListeners` | `device` | a closed socket's number, used again, gets the log, and may get it twice |
| `NeverAborted` | `source_switch` | `app_main` initialises the I2S output (`main.c:280`) though `start_airplay_services` has done so or will (`main.c:58`), each under `ESP_ERROR_CHECK`; both ask for a transmit channel on `I2S_NUM_0` (`audio_output.c:142-148`), and nothing deletes the first. The program aborts at the boot if there is a network, else with the first start of AirPlay ("Init I2S audio output before BT so it is ready when A2DP connects", `main.c:279`) |
| `RateSafe` | `source_switch` | a phone that connects, fails and leaves before the services were stopped changes the sample rate under the playback task |
| `AirPlayResumes` | `source_switch`, `Interfaces <- Wireless` | a connection attempt removes the Wi-Fi driver, so a board without Ethernet has no AirPlay afterwards |
| `ButtonsGoToAirPlay` | `source_switch` | a phone that fails to connect leaves no active source |
| `AllReadable` | `links` | the M4 of a pair-verify is already encrypted (`rtsp_handlers.c:746-772`), which a client that turns encryption on with it cannot read |
| `SwitchInv`, `BluetoothAlone` | `source_switch`, `NetChanges = "anytime"` | the monitor does not look at Bluetooth, and two tasks start the RTSP server |

Met while modelling, at the bounds or beyond the abstraction of the modules:

Audio path.
- A backward seek of less than 10 s, and a frame queued before the blanket gate
  closes in a backward seek, leave old frames in the pool: they are within the
  window around the new anchor.
- After two seeks in a row, with a frame of the first track still in the
  socket, that frame can open the lower gate and be refused by the upper one
  (`audio_stream.c:47`); the frames of the second track that follow it then pass,
  if they lie below the new anchor. A row of far seeks in one direction is safe
  (`StaleIsBlocked`).
- A hole that is not answered for 65,536 packets (9 minutes) matches the number
  that comes round again.
- When the buffer of the pending frame cannot be allocated, an early frame is
  neither kept nor returned, and its slot is lost.
- `audio_resample_init` leaks its buffer on one error path, and
  `audio_output_stop` gives up after 2 s with the task alive.

Sessions.
- `DecoderKept` for a sender that sends SETUP while it streams: the decoder is
  freed under the stream task. RECORD after a TEARDOWN of the streams answers
  200 and starts none. The buffered task closes the client socket twice. PAUSE
  emits no PAUSED event.
- A takeover of an AirPlay 1 client by an AirPlay 2 client, or a client task
  that cannot be created, leaves PTP off. A press of the button in the second
  phase of the grace period resets the flag and does not extend the wait,
  though the log says so. `rtsp_server_start` clears the slots while a client
  that probes the network still uses one; with a new connection
  `SlotHasOneTask` fails. A replaced client's task calls `ntp_clock_stop` on
  the new session's client. The volume functions read a connection while its
  task may free it.
- Pair-verify M3 turns encryption on before M4 is answered (`AllReadable`), and raw M3 is
  answered with an error TLV when it succeeds; a pair-setup that is not
  transient can never be followed by a verify; M1 over an encrypted channel
  overwrites the key of its own answer. A block that cannot be decrypted is
  skipped when `errno` still says EAGAIN. A request between the limit less one
  read and the limit closes the connection, a larger one is never answered: the
  comment that the capacity exceeds the total length is wrong there.

Clocks.
- The comment says 75 ms for the outlier threshold, the constant is 50 ms.
  "LOST LOCK" cannot be reached, since outliers, too, refresh the time of the
  last message. The NTP task that ends on an error of `recv` leaves `running`.

Controls.
- A command queued for one DACP session runs under the next one; a discovery
  under way stores the port of the session before; a discovery that does not
  fit the queue is dropped.
- A click followed by a hold switches the channel after 350 ms, and powers off
  later. Timer commands sent with no wait can be dropped. Letting POWER go last
  of a chord fires its long press; POWER held over the wake-up sleeps again; a
  critical battery mutes and nothing unmutes.
- A volume set by two tasks leaves the DAC different from the setting; -144 dB
  is not clamped by SET_PARAMETER.
- Two tasks in `led_set_mode` at once can leave one's stop behind the other's
  start; a PLAYING or PAUSED event clears an error that persists.
- A slave never refreshes `s_last_seen`, so it takes itself for a master after
  its time-out; a master takes a slave for gone after 2 s whatever it
  acknowledges.
- A title without an artist keeps the artist of the last one; a progress across
  the wrap of the RTP clock underflows; the display divides by 44100 whatever
  the rate.

Network and storage.
- A scan asked for by the web page during the back-off stops the timer and
  leaves the station idle. `README.md` of the repository promises a fallback to
  Wi-Fi; a network that is lost between the look of `app_main` and that of the
  monitor never starts AirPlay. Handlers are registered again after
  `wifi_stop`. A failed `ptp_clock_init` is not tried again.
- A power cut between the SSID and the password keeps the old password. Two
  client tasks that persist the volume can store the older one.
  `wifi_config_handler` restarts before its answer is sent. A failed update
  leaves the RTSP server stopped. An upload that stalls blocks the one task of
  the web server for ever. A file upload truncates the old file first.
- A sleep of the amplifier after CLIENT_CONNECTED leaves it in STANDBY, from
  where ON programs nothing. The SqueezeAMP's flow is left half loaded by a
  local unmute.

## 7. Left out

- The data: samples, ciphers, codecs, resampling, FairPlay and RSA; the bytes
  of plists, TLV8, headers and pages. Handlers are modelled on what a parser
  returns. These are functions of their input with no state between calls, and
  a unit test reaches them.
- I2C transfers and GPIO writes succeed; registers are what was written last.
  The ES8311 is a list of registers written once. Boards other than the two
  with tasks of their own are pin tables.
- Failed allocations, except of a client's task and connection, and of a stream
  task or socket in `Session`.
- In `ResendWindow` and `Playback` a reset or the arming of the gates does not
  happen between two instructions of the receiver task; the stores of
  `audio_receiver_reset_resend_state` are one action.
- In `RtspServer`, the lifetime of the connection objects that the volume
  functions read; the requests of a connection are `Session`'s, which has one
  connection at a time, so that the takeover is only in `RtspServer`.
- In `Session`, the parsing of requests, GET /info, OPTIONS and GET_PARAMETER,
  which change nothing. In `Clocks`, takeovers.
- In `audio_output.c` the flags of flush and resampler, and the SPDIF and USB
  builds. In the Bluetooth sink discoverability and the pairing dialogue.
- `rl_tws_send_audio`, `rl_tws_reset`, `PKT_GONE` and `settings_clear_eq`, which
  nothing reaches.
- Aborts are steps of the model only where the source itself provokes them: in
  `SourceSwitch` (`Checks`) and in `Network` (`PollAborts`). The parts are not
  composed, so the boot of `Network` does not abort at `main.c:280`. A poll of
  `Speaker` is late between two rounds, not within one. In `Tas58xx` an event
  is one set of registers and then the equaliser; that the listeners of one
  event are called in turn is `Display`'s.
- Vendored code, generated tables, drawing, tones and the battery's curve.

## 8. Plan

To prove: that the pool implements the abstract specification named below; every
safety property that a run checks is the property of a theorem.

To model: the flags of `audio_output.c`; `web_server.c`'s start and stop; what
the pool promises as an abstract specification, a bag of frames and a token
count, with `AudioBuffer` shown to implement it.
