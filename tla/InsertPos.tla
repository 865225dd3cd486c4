----------------------------- MODULE InsertPos -----------------------------
(***************************************************************************)
(* sorted_insert_pos of main/audio/audio_buffer.c: the binary search for   *)
(* the place of a frame, one loop iteration per step, on any ascending     *)
(* index.  Module AudioBuffer uses what it computes.                       *)
(***************************************************************************)
EXTENDS Integers, Sequences

CONSTANTS TsMod,       \* 2^32
          Timestamps,  \* the timestamps in the index, and the new one
          MaxCount     \* bound on the number of frames

VARIABLES index,       \* timestamps of sorted[0 .. count-1]
          timestamp,   \* of the frame to insert
          lo, hi

vars == << index, timestamp, lo, hi >>

ts_cmp(a, b) ==
  LET d == (a - b) % TsMod IN IF 2 * d < TsMod THEN d ELSE d - TsMod

(* The frames in the pool lie within half the timestamp range, where the   *)
(* signed difference is an order: a thousand frames of 352 samples do.     *)
ASSUME OrderAssumption ==
  /\ TsMod \in Nat \ {0} /\ MaxCount \in Nat
  /\ Timestamps \subseteq 0 .. TsMod - 1
  /\ \A a, b, c \in Timestamps :
       ts_cmp(a, b) <= 0 /\ ts_cmp(b, c) < 0 => ts_cmp(a, c) < 0

count == Len(index)

Ascending(s) == \A i, j \in 1 .. Len(s) : i < j => ts_cmp(s[i], s[j]) <= 0

Init ==
  /\ \E n \in 0 .. MaxCount : index \in [1 .. n -> Timestamps]
  /\ Ascending(index)
  /\ timestamp \in Timestamps
  /\ lo = 0 /\ hi = count

(* Mutant: the search goes on in the lower half without its middle. *)
StepSkipsMiddle ==
  LET mid == lo + (hi - lo) \div 2
  IN  /\ lo < hi
      /\ IF ts_cmp(index[mid + 1], timestamp) < 0
           THEN lo' = mid + 1 /\ UNCHANGED hi
           ELSE hi' = (IF mid > lo THEN mid - 1 ELSE lo) /\ UNCHANGED lo
      /\ UNCHANGED << index, timestamp >>

(* One iteration of the while loop; index[mid + 1] is sorted[mid] in C. *)
Step ==
  LET mid == lo + (hi - lo) \div 2
  IN  /\ lo < hi
      /\ IF ts_cmp(index[mid + 1], timestamp) < 0
           THEN lo' = mid + 1 /\ UNCHANGED hi
           ELSE hi' = mid /\ UNCHANGED lo
      /\ UNCHANGED << index, timestamp >>

Spec == Init /\ [][Step]_vars

-----------------------------------------------------------------------------
(* What the search knows of the part it has left behind. *)
SearchInv ==
  /\ lo \in 0 .. count /\ hi \in 0 .. count /\ lo <= hi
  /\ \A i \in 1 .. lo : ts_cmp(index[i], timestamp) < 0
  /\ \A i \in hi + 1 .. count : ts_cmp(index[i], timestamp) >= 0

(* The place returned is after every older frame and before every other:   *)
(* inserting there keeps the index ascending.                              *)
FoundPlace ==
  lo = hi => /\ \A i \in 1 .. lo : ts_cmp(index[i], timestamp) < 0
             /\ \A i \in lo + 1 .. count : ts_cmp(index[i], timestamp) >= 0
=============================================================================
