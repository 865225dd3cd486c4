------------------------------ MODULE Playback ------------------------------
(***************************************************************************)
(* The playback path of one stream: main/audio/audio_receiver.c (anchor,   *)
(* flush, pause, RTP gates), audio_timing.c (when a frame is heard) and    *)
(* audio_stream_process_frame, as the three tasks that share their fields  *)
(* without a lock see them: the RTSP client task, the stream task and the  *)
(* playback task.  The pool itself is module AudioBuffer; here it is the   *)
(* set of frames in it.  RTP and clock advance one unit per frame.         *)
(***************************************************************************)
EXTENDS Integers, Sequences, FiniteSets

CONSTANTS
  Scenarios,      \* what the sender may do, and the bounds on it (see Scenario)
  FramesPerGen,   \* bound: frames the sender sends of each generation
  SocketCap,      \* bound: frames waiting in the TCP socket
  SeekThreshold,  \* 5 s
  GateWindow,     \* 10 s
  Threshold,      \* timing_threshold_us
  TargetFrames,   \* target_buffer_frames
  ReadyWait,      \* the 1 s wait for an anchor
  MaxConsecutiveEarly,
  NoFrame

(* start: first RTP time of each generation (track or seek target); time:  *)
(* bound on the clock; lead: how far ahead of now an anchor may be;        *)
(* preempted: the requests a frame may get in the middle of; silent:       *)
(* whether a track may change without FLUSH; pauses, pause: bounds on PAUSE*)
(* requests and their length; defers: bound on deferred flushes.           *)
Scenario ==
  [start : Seq(Nat), time : Nat, lead : Nat, preempted : SUBSET {"seek", "anchor"},
   silent : BOOLEAN, pauses : Nat, pause : Nat, defers : Nat]

ASSUME ScenarioAssumption == \A s \in Scenarios : s \in Scenario /\ Len(s.start) > 0
ASSUME GateAssumption ==
  SeekThreshold \in Nat /\ GateWindow \in Nat /\ 0 < SeekThreshold /\ SeekThreshold <= GateWindow
ASSUME BoundAssumption == SocketCap \in Nat /\ MaxConsecutiveEarly \in Nat
ASSUME FrameAssumption == FramesPerGen \in Nat /\ NoFrame \notin [gen : Nat, rtp : Nat]

VARIABLES
  plan,                  \* the scenario, chosen once
  gen, sent, due,        \* the sender: generation, frames sent, RTP of the anchor it owes
  pauses, defers,
  socket,                \* frames on their way, oldest first
  decoding,              \* the frame past the gates, in the decoder
  buffer,                \* frames in the pool
  gate,                  \* discard_*, arm_gate_on_next_anchor
  timing,                \* audio_timing_t
  pending,               \* pending_frame, NoFrame when not pending_valid
  request,               \* the RTSP request in progress: pc and its anchor
  read,                  \* audio_timing_read in progress: pc, frame, from_pending
  now,
  anchorGen, heard, silent   \* history: for the properties only

sender == << plan, gen, sent, due, pauses, defers >>
history == << anchorGen, heard, silent >>
playbackVars == << sender, socket, decoding, buffer, gate, timing, pending, request, read, now,
                   history >>

Generations == 1 .. Len(plan.start)
Rtp == UNION {plan.start[g] .. plan.start[g] + FramesPerGen : g \in Generations}
Frames == {f \in [gen : Generations, rtp : Rtp] :
             f.rtp \in plan.start[f.gen] .. plan.start[f.gen] + FramesPerGen - 1}
NoRtp == -1

Abs(n) == IF n < 0 THEN -n ELSE n
Largest(a, b) == IF a > b THEN a ELSE b

NoAnchor == [rtp |-> 0, time |-> 0, armed |-> FALSE]

OpenGates == [before |-> NoRtp, above |-> NoRtp, arm |-> FALSE, blanket |-> FALSE]

(* audio_timing_reset, but for the fields a reset leaves alone. *)
ResetTiming(t) ==
  [t EXCEPT !.started = FALSE, !.anchored = FALSE, !.ready = NoRtp, !.early = 0,
            !.quick = FALSE, !.until = NoRtp]

InitTiming ==
  [playing |-> TRUE, started |-> FALSE, anchored |-> FALSE, rtp |-> 0, time |-> 0,
   ready |-> NoRtp, early |-> 0, quick |-> FALSE, until |-> NoRtp, set_at |-> 0]

PlaybackInit ==
  /\ plan \in Scenarios
  /\ gen = 1 /\ sent = 0 /\ due = plan.start[1] /\ pauses = 0 /\ defers = 0
  /\ socket = << >> /\ decoding = NoFrame /\ buffer = {}
  /\ gate = OpenGates /\ timing = InitTiming /\ pending = NoFrame
  /\ request = [pc |-> "idle", anchor |-> NoAnchor]
  /\ read = [pc |-> "idle", frame |-> NoFrame, from_pending |-> FALSE]
  /\ now = 0 /\ anchorGen = 0 /\ heard = NoFrame /\ silent = 0

-----------------------------------------------------------------------------
Idle == request.pc = "idle"
NextRequest(pc) == request' = [request EXCEPT !.pc = pc]

(* The sender and the clock. *)
Send ==
  /\ sent < FramesPerGen /\ Len(socket) < SocketCap
  /\ socket' = Append(socket, [gen |-> gen, rtp |-> plan.start[gen] + sent])
  /\ sent' = sent + 1
  /\ UNCHANGED << plan, gen, due, pauses, defers, decoding, buffer, gate, timing, pending,
                  request, read, now, history >>

(* A request is handled in less than the time of a frame. *)
Tick ==
  /\ now < plan.time /\ Idle
  /\ ~timing.playing => now - timing.time - (due - timing.rtp) < plan.pause
  /\ now' = now + 1
  /\ UNCHANGED << sender, socket, decoding, buffer, gate, timing, pending, request,
                  read, history >>

(* The sender jumps to the next generation without telling: no FLUSH. *)
TrackChange ==
  /\ plan.silent /\ Idle /\ gen < Len(plan.start) /\ anchorGen = gen
  /\ gen' = gen + 1 /\ sent' = 0 /\ due' = plan.start[gen + 1]
  /\ UNCHANGED << plan, pauses, defers, socket, decoding, buffer, gate, timing, pending,
                  request, read, now, history >>

-----------------------------------------------------------------------------
(* audio_receiver_seek_flush (FLUSH, immediate FLUSHBUFFERED) in the order  *)
(* of its stores: the pool, then the timing and gates of                    *)
(* audio_receiver_flush, then what a seek adds.                             *)
SeekFlush ==
  /\ Idle /\ gen < Len(plan.start) /\ anchorGen = gen
  /\ gen' = gen + 1 /\ sent' = 0 /\ due' = plan.start[gen + 1]
  /\ buffer' = {}
  /\ NextRequest("reset")
  /\ UNCHANGED << plan, pauses, defers, socket, decoding, gate, timing, pending, read, now,
                  history >>

SeekReset ==
  /\ request.pc = "reset"
  /\ timing' = ResetTiming(timing) /\ pending' = NoFrame /\ gate' = OpenGates
  /\ NextRequest("blanket")
  /\ UNCHANGED << sender, socket, decoding, buffer, read, now, history >>

SeekArm ==
  /\ request.pc = "blanket"
  /\ timing' = [timing EXCEPT !.quick = TRUE]
  /\ gate' = [gate EXCEPT !.arm = TRUE, !.blanket = TRUE]
  /\ NextRequest("idle")
  /\ UNCHANGED << sender, socket, decoding, buffer, pending, read, now, history >>

(* audio_receiver_set_deferred_flush: the boundary, then the flag. *)
DeferFlush ==
  /\ Idle /\ defers < plan.defers /\ defers' = defers + 1
  /\ \E r \in Rtp : timing' = [timing EXCEPT !.until = r]
  /\ UNCHANGED << plan, gen, sent, due, pauses, socket, decoding, buffer, gate, pending, request,
                  read, now, history >>

(* audio_receiver_pause: SETRATEANCHORTIME with rate 0, or PAUSE.  The     *)
(* sender will resume from where it stopped.                               *)
Pause ==
  /\ Idle /\ pauses < plan.pauses /\ pauses' = pauses + 1
  /\ timing.playing /\ timing.anchored /\ due = NoRtp
  /\ due' = timing.rtp + Largest(0, now - timing.time)
  /\ timing' = [timing EXCEPT !.playing = FALSE]
  /\ pending' = NoFrame
  /\ UNCHANGED << plan, gen, sent, defers, socket, decoding, buffer, gate, request, read, now,
                  history >>

-----------------------------------------------------------------------------
(* audio_receiver_set_anchor_time, in four steps. *)
Arm(g, rtp) == [g EXCEPT !.before = rtp, !.above = rtp + GateWindow]

(* What a detected seek does to the timing. *)
Restart(t) ==
  [t EXCEPT !.started = FALSE, !.ready = NoRtp, !.until = NoRtp, !.quick = TRUE]

(* A mutant: the raw old anchor, elapsed time left out. *)
OldAnchorRtp == timing.rtp

(* Where playback should have got to: no pause snapshot is ever taken,     *)
(* since both pauses call audio_receiver_pause, so this is always the      *)
(* elapsed-time estimate.                                                  *)
ExpectedRtp == timing.rtp + Largest(0, now - timing.set_at)

(* Phase 1: the gates are armed after a flush (path A) or when the anchor  *)
(* is far from where playback should be (path B).  A frame is decoded in   *)
(* less than the time between two requests.                                *)
AnchorArm ==
  /\ Idle /\ due # NoRtp
  /\ decoding = NoFrame
  /\ \E lead \in 0 .. plan.lead :
       LET jump == timing.anchored /\ ~gate.arm /\ Abs(due - ExpectedRtp) > SeekThreshold
           armed == gate.arm \/ jump
       IN  /\ request' = [pc |-> "open",
                          anchor |-> [rtp |-> due, time |-> now + lead, armed |-> armed]]
           /\ gate' = IF armed THEN Arm([gate EXCEPT !.arm = FALSE], due) ELSE gate
           /\ buffer' = IF jump THEN {} ELSE buffer
           /\ timing' = IF jump THEN Restart(timing) ELSE timing
           /\ pending' = IF jump THEN NoFrame ELSE pending
  /\ UNCHANGED << sender, socket, decoding, read, now, history >>

(* Now the blanket gate may open. *)
AnchorOpen ==
  /\ request.pc = "open"
  /\ gate' = [gate EXCEPT !.blanket = FALSE]
  /\ NextRequest("oldest")
  /\ UNCHANGED << sender, socket, decoding, buffer, timing, pending, read, now, history >>

Oldest == {f \in buffer : \A g \in buffer : f.rtp <= g.rtp}

(* Phase 2: the oldest frame in the pool is far from the anchor. *)
AnchorOldest ==
  LET rtp == request.anchor.rtp
      stale == \E f \in Oldest : Abs(f.rtp - rtp) > SeekThreshold
  IN  /\ request.pc = "oldest"
      /\ buffer' = IF stale THEN {} ELSE buffer
      /\ timing' = IF stale THEN Restart(timing) ELSE timing
      /\ pending' = IF stale THEN NoFrame ELSE pending
      /\ gate' = IF stale /\ ~request.anchor.armed THEN Arm(gate, rtp) ELSE gate
      /\ NextRequest("anchor")
      /\ UNCHANGED << sender, socket, decoding, read, now, history >>

(* audio_timing_set_anchor, then audio_timing_set_playing. *)
AnchorSet ==
  /\ request.pc = "anchor"
  /\ timing' = [timing EXCEPT !.rtp = request.anchor.rtp, !.time = request.anchor.time,
                              !.set_at = now, !.anchored = TRUE, !.early = 0,
                              !.playing = TRUE]
  /\ request' = [pc |-> "idle", anchor |-> NoAnchor]
  /\ due' = NoRtp /\ anchorGen' = gen
  /\ UNCHANGED << plan, gen, sent, pauses, defers, socket, decoding, buffer, gate, pending,
                  read, now, heard, silent >>

-----------------------------------------------------------------------------
(* audio_stream_process_frame: the gates, then decode, then the pool. *)
PassesBefore(f) == gate.before = NoRtp \/ f.rtp >= gate.before
PassesAbove(f) == gate.above = NoRtp \/ f.rtp <= gate.above
PassesUngated(f) == ~gate.blanket /\ PassesAbove(f)   \* a mutant
Passes(f) == ~gate.blanket /\ PassesBefore(f) /\ PassesAbove(f)

(* Whether the stream task runs now: requests not in preempted are not     *)
(* interrupted by a frame.                                                 *)
StreamRuns ==
  \/ request.pc = "idle"
  \/ request.pc \in {"reset", "blanket"} /\ "seek" \in plan.preempted
  \/ request.pc \in {"open", "oldest", "anchor"} /\ "anchor" \in plan.preempted

(* Each gate disarms itself on the first frame it lets through. *)
GateAfter(f) ==
  IF gate.blanket \/ ~PassesBefore(f) THEN gate
  ELSE IF ~PassesAbove(f) THEN [gate EXCEPT !.before = NoRtp]
  ELSE [gate EXCEPT !.before = NoRtp, !.above = NoRtp]

ReceiveFrame ==
  /\ StreamRuns /\ socket # << >> /\ decoding = NoFrame
  /\ socket' = Tail(socket)
  /\ decoding' = IF Passes(Head(socket)) THEN Head(socket) ELSE NoFrame
  /\ gate' = GateAfter(Head(socket))
  /\ UNCHANGED << sender, buffer, timing, pending, request, read, now, history >>

QueueFrame ==
  /\ StreamRuns /\ decoding # NoFrame
  /\ buffer' = buffer \cup {decoding}
  /\ decoding' = NoFrame
  /\ UNCHANGED << sender, socket, gate, timing, pending, request, read, now, history >>

-----------------------------------------------------------------------------
(* audio_timing_read, from the playback task. *)
StopReading == read' = [pc |-> "idle", frame |-> NoFrame, from_pending |-> FALSE]

StartupReady ==
  \/ timing.started \/ pending # NoFrame
  \/ Cardinality(buffer) >= (IF timing.quick THEN 1 ELSE TargetFrames)

(* Before playout has started: enough frames, and an anchor or a long wait. *)
ReadBegin ==
  LET waiting == ~timing.started /\ pending = NoFrame /\ ~timing.anchored
      since == IF timing.ready = NoRtp THEN now ELSE timing.ready
  IN  /\ read.pc = "idle" /\ timing.playing /\ StartupReady
      /\ timing' = IF waiting THEN [timing EXCEPT !.ready = since] ELSE timing
      /\ IF waiting /\ now - since < ReadyWait
           THEN UNCHANGED read
           ELSE read' = [read EXCEPT !.pc = "fetch"]
      /\ UNCHANGED << sender, socket, decoding, buffer, gate, pending, request, now, history >>

(* The pending frame, or the oldest one of the pool. *)
ReadFetch ==
  /\ read.pc = "fetch"
  /\ \/ /\ pending # NoFrame
        /\ read' = [pc |-> "check", frame |-> pending, from_pending |-> TRUE]
        /\ UNCHANGED buffer
     \/ /\ pending = NoFrame
        /\ \E f \in Oldest :
             /\ read' = [pc |-> "check", frame |-> f, from_pending |-> FALSE]
             /\ buffer' = buffer \ {f}
     \/ pending = NoFrame /\ buffer = {} /\ StopReading /\ UNCHANGED buffer
  /\ UNCHANGED << sender, socket, decoding, gate, timing, pending, request, now, history >>

Early == timing.time + (read.frame.rtp - timing.rtp) - now
DropKeepsPending == pending' = pending   \* a mutant
Drop == pending' = IF read.from_pending THEN NoFrame ELSE pending
Checking == read.pc = "check"
Deferred == timing.until # NoRtp /\ read.frame.rtp >= timing.until
TooEarly == ~Deferred /\ timing.anchored /\ Early > Threshold
TooLate == ~Deferred /\ timing.anchored /\ Early < -Threshold

(* The deferred flush fires on the first frame at its boundary. *)
ReadDeferredFlush ==
  /\ Checking /\ Deferred
  /\ Drop
  /\ buffer' = {}
  /\ timing' = [timing EXCEPT !.until = NoRtp, !.started = FALSE, !.ready = NoRtp,
                              !.early = 0, !.quick = TRUE]
  /\ StopReading
  /\ UNCHANGED << sender, socket, decoding, gate, request, now, history >>

(* Only frames taken from the pool advance the counter, not re-checks of   *)
(* the pending frame.                                                      *)
EarlyCount == IF read.from_pending THEN timing.early ELSE timing.early + 1

(* An early frame: silence, and the frame becomes the pending one. *)
ReadEarly ==
  /\ Checking /\ TooEarly /\ EarlyCount <= MaxConsecutiveEarly
  /\ timing' = [timing EXCEPT !.early = EarlyCount]
  /\ silent' = IF silent <= MaxConsecutiveEarly THEN silent + 1 ELSE silent
  /\ IF read.from_pending THEN StopReading ELSE read' = [read EXCEPT !.pc = "stash"]
  /\ UNCHANGED << sender, socket, decoding, buffer, gate, pending, request, now,
                  anchorGen, heard >>

ReadStash ==
  /\ read.pc = "stash"
  /\ pending' = read.frame
  /\ StopReading
  /\ UNCHANGED << sender, socket, decoding, buffer, gate, timing, request, now, history >>

(* A late frame is dropped and the next one fetched. *)
ReadLate ==
  /\ Checking /\ TooLate
  /\ Drop
  /\ timing' = [timing EXCEPT !.early = 0]
  /\ read' = [pc |-> "fetch", frame |-> NoFrame, from_pending |-> FALSE]
  /\ silent' = 0
  /\ UNCHANGED << sender, socket, decoding, buffer, gate, request, now, anchorGen, heard >>

(* A frame is heard: on time, without an anchor, or after giving up on one. *)
ReadPlay ==
  /\ Checking /\ ~Deferred /\ ~TooLate
  /\ TooEarly => EarlyCount > MaxConsecutiveEarly
  /\ Drop
  /\ timing' = [timing EXCEPT !.anchored = @ /\ ~TooEarly, !.early = 0,
                              !.started = TRUE, !.quick = @ /\ timing.started]
  /\ heard' = read.frame /\ silent' = 0
  /\ StopReading
  /\ UNCHANGED << sender, socket, decoding, buffer, gate, request, now, anchorGen >>

-----------------------------------------------------------------------------
Sender == Send \/ Tick \/ TrackChange
Rtsp == SeekFlush \/ SeekReset \/ SeekArm \/ DeferFlush \/ Pause
        \/ AnchorArm \/ AnchorOpen \/ AnchorOldest \/ AnchorSet
Stream == ReceiveFrame \/ QueueFrame
Read == ReadBegin \/ ReadFetch \/ ReadDeferredFlush \/ ReadEarly \/ ReadStash
        \/ ReadLate \/ ReadPlay

PlaybackNext == Sender \/ Rtsp \/ Stream \/ Read

PlaybackSpec == PlaybackInit /\ [][PlaybackNext]_playbackVars

-----------------------------------------------------------------------------
PlaybackTypeOK ==
  /\ gen \in Generations /\ sent \in 0 .. FramesPerGen /\ due \in Int
  /\ pauses \in 0 .. plan.pauses /\ defers \in 0 .. plan.defers
  /\ socket \in Seq(Frames) /\ Len(socket) <= SocketCap
  /\ decoding \in Frames \cup {NoFrame} /\ buffer \subseteq Frames
  /\ gate.arm \in BOOLEAN /\ gate.blanket \in BOOLEAN
  /\ timing.playing \in BOOLEAN /\ timing.started \in BOOLEAN
  /\ timing.anchored \in BOOLEAN /\ timing.quick \in BOOLEAN
  /\ timing.early \in 0 .. MaxConsecutiveEarly
  /\ pending \in Frames \cup {NoFrame}
  /\ request.pc \in {"idle", "reset", "blanket", "open", "oldest", "anchor"}
  /\ read.pc \in {"idle", "fetch", "check", "stash"}
  /\ read.frame \in Frames \cup {NoFrame}
  /\ read.pc \in {"check", "stash"} <=> read.frame # NoFrame

(* The anchor of the sender's current generation is in force. *)
Settled == Idle /\ anchorGen = gen

(* Once the anchor after a seek is in force, no frame from before the seek *)
(* is in the pool: the blanket gate, the RTP window and the two seek       *)
(* detections leave no way in, whatever was in the socket or the decoder.  *)
StaleBlocked == Settled => \A f \in buffer : f.gen = gen

(* Both, in every state of the two tasks.                                  *)
PlaybackInv == PlaybackTypeOK /\ StaleBlocked

(* The same anchor never costs a frame of the track it is for: the gates   *)
(* let every such frame pass that is not before the anchor itself.         *)
GatesKeepTrack ==
  [][(Settled /\ socket' # socket /\ Len(socket') < Len(socket)
      /\ Head(socket).gen = gen /\ Head(socket).rtp >= timing.rtp)
       => decoding' = Head(socket)]_playbackVars

(* An anchor flushes the pool only at a seek: when it is not the first of  *)
(* its track, and all that is buffered is of that track and within 5 s of  *)
(* it, nothing goes, however long the track had been playing or paused.    *)
AnchorKeepsTrack ==
  [][(/\ request'.pc \in {"open", "anchor"} /\ request'.pc # request.pc
      /\ anchorGen = gen
      /\ \A f \in buffer : f.gen = gen /\ Abs(f.rtp - due) <= SeekThreshold)
       => buffer' = buffer]_playbackVars

(* Neither the gates nor the anchors of its own track cost it a frame.     *)
TrackKept == GatesKeepTrack /\ AnchorKeepsTrack

(* A track is heard in order and no frame of it twice: whatever of it is   *)
(* still on its way, in the pool, pending or being read, comes after the   *)
(* frame heard last, whichever flush, pause or resume came between.        *)
NothingHeardAgain ==
  \A f \in buffer \cup ({decoding, pending, read.frame} \ {NoFrame}) :
    heard # NoFrame /\ f.gen = heard.gen => f.rtp > heard.rtp

(* After a pause no frame stays pending, so that "resume starts cleanly    *)
(* from the oldest frame in the sorted buffer".                            *)
PauseDropsPending == ~timing.playing /\ read.pc = "idle" => pending = NoFrame

(* Not more than MAX_CONSECUTIVE_EARLY reads in a row return silence       *)
(* because the pending frame is early: the stuck-anchor safety valve.      *)
StuckAnchorGivenUp == silent <= MaxConsecutiveEarly
=============================================================================
