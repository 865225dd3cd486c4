--------------------------- MODULE MCAudioBuffer ---------------------------
(* Instances of AudioBuffer: a three-slot pool for the stream task and one *)
(* that a timed-out stop has left running, timestamps around the wrap of a *)
(* 4-bit clock.                                                            *)
EXTENDS AudioBuffer

MCTimestamps == {14, 15, 0}
MCFewTimestamps == {15, 0}
=============================================================================
