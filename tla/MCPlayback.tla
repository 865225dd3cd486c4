----------------------------- MODULE MCPlayback -----------------------------
(* Instances of Playback: two tracks (or the two ends of a seek).  A unit   *)
(* is one frame; 5 s is three of them, 10 s five, so that a far seek is one *)
(* of twenty and a pause of five a long one.                                *)
EXTENDS Playback

Seek(from, to) ==
  [start |-> << from, to >>, time |-> 3, lead |-> 1, preempted |-> {}, silent |-> FALSE,
   pauses |-> 0, pause |-> 0, defers |-> 0]

(* A frame gets in the middle of the flush and of the anchor. *)
Forward == [Seek(10, 30) EXCEPT !.preempted = {"seek", "anchor"}]

(* By FLUSH, or by an anchor alone. *)
Backward == [Seek(30, 10) EXCEPT !.silent = TRUE]

OneTrack ==
  [start |-> << 10 >>, time |-> 4, lead |-> 1, preempted |-> {"seek", "anchor"},
   silent |-> FALSE, pauses |-> 1, pause |-> 2, defers |-> 1]

Played == {Forward, Backward, OneTrack}

(* A pause of more than 5 s. *)
LongPause == {[OneTrack EXCEPT !.time = 8, !.pause = 8, !.defers = 0]}

(* An anchor far ahead of the clock. *)
FarAnchor == {[OneTrack EXCEPT !.time = 5, !.lead = 5, !.pauses = 0, !.defers = 0]}
=============================================================================
