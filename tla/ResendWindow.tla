---------------------------- MODULE ResendWindow ----------------------------
(***************************************************************************)
(* The retransmission of lost packets in                                   *)
(* main/audio/audio_stream_realtime.c: what the receiver task knows of the *)
(* sequence numbers it has seen, the window of missing ones, and when it   *)
(* asks for them; the sender and a UDP network that loses, delays,         *)
(* reorders and duplicates; and the requests of the RTSP task that reset   *)
(* it all.  Packets are counted 0, 1, ... as sent; the number on the wire  *)
(* has 16 bits.  The mask of 64 bits is the set of the offsets of its bits *)
(* from resend_window_first.                                               *)
(***************************************************************************)
EXTENDS Integers, FiniteSets

CONSTANTS
  SeqMod,      \* 2^16
  FirstSeq,    \* the sequence number of packet 0
  Window,      \* RESEND_WINDOW_BITS, MAX_RESEND_GAP
  RetryAfter,  \* RESEND_RETRY_INTERVAL_US, in ticks
  Backoff,     \* RESEND_ERROR_BACKOFF_US, in ticks
  Packets,     \* bound: packets the sender sends
  MaxResets,   \* bound: resets by the RTSP task
  Never        \* a time that is 0

ASSUME WindowAssumption ==
  /\ Window \in Nat \ {0} /\ SeqMod \in Nat /\ FirstSeq \in 0 .. SeqMod - 1
  /\ Packets \in Nat /\ 2 * (Packets + Window) <= SeqMod
  /\ RetryAfter \in Nat /\ Backoff \in Nat /\ MaxResets \in Nat
ASSUME NeverAssumption == Never \notin Nat

VARIABLES
  sent,        \* packets 0 .. sent-1 have been sent
  resends,     \* those on their way once more: the control task forwards them
  valid, last_seq,          \* rtp_sequence_valid, stats.last_seq
  window,      \* resend_window_first, resend_missing_mask, the two times as ages
  enabled,     \* retransmit_enabled
  resets,
  got, twice   \* history: packets accepted since the last reset, and accepted again

history == << got, twice >>
vars == << sent, resends, valid, last_seq, window, enabled, resets, history >>

Numbers == 0 .. Packets - 1
Seqs == 0 .. SeqMod - 1
SeqOf(n) == (FirstSeq + n) % SeqMod
Offsets == 0 .. Window - 1

(* The cast to int16_t of a difference. *)
Signed(d) == LET m == d % SeqMod IN IF 2 * m < SeqMod THEN m ELSE m - SeqMod

(* audio_receiver_reset_resend_state. *)
EmptyWindow == [first |-> 0, missing |-> {}, request |-> Never, error |-> Never]

Init ==
  /\ sent = 0 /\ resends = {}
  /\ valid = FALSE /\ last_seq = 0 /\ window = EmptyWindow
  /\ enabled = TRUE /\ resets = 0 /\ got = {} /\ twice = FALSE

-----------------------------------------------------------------------------
(* resend_slide_window: the lowest bit set becomes bit 0.  In the mutant   *)
(* the window's first number stays where it was.                           *)
Lowest(w) == CHOOSE o \in w.missing : \A p \in w.missing : o <= p
ShiftBy(w, k) == [w EXCEPT !.missing = {o - k : o \in w.missing}]
SlideMaskOnly(w) ==
  IF w.missing = {} THEN [w EXCEPT !.request = Never] ELSE ShiftBy(w, Lowest(w))
Slide(w) ==
  IF w.missing = {} THEN [w EXCEPT !.request = Never]
  ELSE [ShiftBy(w, Lowest(w)) EXCEPT !.first = (@ + Lowest(w)) % SeqMod]

(* resend_mark_received: whether a number is missing, and that it is not   *)
(* any more.  The mutant forgets the latter.                               *)
OffsetOf(w, seq) == (seq - w.first) % SeqMod
IsMissing(w, seq) == OffsetOf(w, seq) \in w.missing
MarkNothing(w, seq) == Slide(w)
MarkReceived(w, seq) == Slide([w EXCEPT !.missing = @ \ {OffsetOf(w, seq)}])

(* resend_track_missing, for a gap of 1 .. Window numbers: into the window *)
(* if it fits, else a new window that gives the old holes up.              *)
NewWindow(w, first, gap) == [w EXCEPT !.first = first, !.missing = 0 .. gap - 1]
TrackMissing(w, first, gap) ==
  IF w.missing = {} \/ OffsetOf(w, first) + gap > Window
    THEN NewWindow(w, first, gap)
    ELSE [w EXCEPT !.missing = @ \cup {OffsetOf(w, first) + k : k \in 0 .. gap - 1}]

(* resend_next_range: the lowest run of missing numbers.                   *)
NextRange(w) ==
  {(w.first + o) % SeqMod :
     o \in {o \in w.missing : \A p \in w.missing : p <= o => p .. o \subseteq w.missing}}

-----------------------------------------------------------------------------
(* send_resend_request and resend_request_range: nothing within the        *)
(* backoff; else the packets of the range are sent again, or the request   *)
(* or its answer is lost, or sendto fails.                                 *)
Waited(age, limit) == IF age = Never THEN TRUE ELSE age >= limit
Answered(range) == {n \in 0 .. sent - 1 : SeqOf(n) \in range}
MaySend(w) == enabled /\ Waited(w.error, Backoff)
Requests(w, range) ==
  IF ~MaySend(w) THEN {[window |-> w, again |-> {}]}
  ELSE {[window |-> [w EXCEPT !.error = 0], again |-> {}],
        [window |-> [w EXCEPT !.request = 0, !.error = Never], again |-> {}],
        [window |-> [w EXCEPT !.request = 0, !.error = Never], again |-> Answered(range)]}

(* Mutant: nothing is retried that was never asked for. *)
DueLater(w) == w.missing # {} /\ w.request # Never /\ Waited(w.request, RetryAfter)

(* resend_retry_if_due. *)
Due(w) == w.missing # {} /\ Waited(w.request, RetryAfter)
Retries(w) == IF Due(w) THEN Requests(w, NextRange(w)) ELSE {[window |-> w, again |-> {}]}

(* A request for one range, then a retry. *)
RequestsThenRetries(w, range) ==
  UNION {{[r EXCEPT !.again = @ \cup p.again] : r \in Retries(p.window)} :
           p \in Requests(w, range)}

-----------------------------------------------------------------------------
(* The sender, and time. *)
Send ==
  /\ sent < Packets /\ sent' = sent + 1
  /\ UNCHANGED << resends, valid, last_seq, window, enabled, resets, history >>

Older(age, limit) == IF Waited(age, limit) THEN age ELSE age + 1
Tick ==
  /\ window' = [window EXCEPT !.request = Older(@, RetryAfter), !.error = Older(@, Backoff)]
  /\ UNCHANGED << sent, resends, valid, last_seq, enabled, resets, history >>

(* The window after a packet, and what is sent again because of it. *)
Becomes(outcomes, left) ==
  \E o \in outcomes : window' = o.window /\ resends' = left \cup o.again

(* track_regular_rtp_sequence, by how far the number is from the expected  *)
(* one.  A packet that was sent may arrive at any time, twice or never.    *)
Ahead(seq) == Signed(seq - (last_seq + 1))

(* A packet goes on to the decoder. *)
Accept(n) == got' = got \cup {n} /\ twice' = (twice \/ n \in got)

ReceiveNext(n) ==
  /\ n < sent /\ (~valid \/ Ahead(SeqOf(n)) = 0)
  /\ valid' = TRUE /\ last_seq' = SeqOf(n) /\ Accept(n)
  /\ Becomes(Retries(window), resends)
  /\ UNCHANGED << sent, enabled, resets >>

ReceiveAhead(n) ==
  LET seq == SeqOf(n)
      expected == (last_seq + 1) % SeqMod
      gap == Ahead(seq)
      w == TrackMissing(window, expected, gap)
      range == {(expected + k) % SeqMod : k \in 0 .. gap - 1}
  IN  /\ n < sent /\ valid /\ gap > 0
      /\ last_seq' = seq /\ Accept(n)
      /\ IF gap <= Window THEN Becomes(RequestsThenRetries(w, range), resends)
                          ELSE Becomes(Retries(window), resends)
      /\ UNCHANGED << sent, valid, enabled, resets >>

(* A late packet counts if it is missing, and is dropped otherwise. *)
ReceiveLate(n) ==
  LET seq == SeqOf(n)
  IN  /\ n < sent /\ valid /\ Ahead(seq) < 0
      /\ IF IsMissing(window, seq)
           THEN /\ Accept(n)
                /\ Becomes(Retries(MarkReceived(window, seq)), resends)
           ELSE UNCHANGED << history, window, resends >>
      /\ UNCHANGED << sent, valid, last_seq, enabled, resets >>

(* A packet that was sent again: the same, through the control task. *)
ReceiveResend(n) ==
  LET seq == SeqOf(n)
  IN  /\ n \in resends
      /\ IF IsMissing(window, seq)
           THEN /\ Accept(n)
                /\ Becomes(Retries(MarkReceived(window, seq)), resends \ {n})
           ELSE resends' = resends \ {n} /\ UNCHANGED << history, window >>
      /\ UNCHANGED << sent, valid, last_seq, enabled, resets >>

(* 100 ms without a packet. *)
ReceiveTimeout ==
  /\ Becomes(Retries(window), resends)
  /\ UNCHANGED << sent, valid, last_seq, enabled, resets, history >>

(* The RTSP task: a flush, or audio_receiver_set_client_control.  The      *)
(* receiver task is not in the middle of a packet.                         *)
Reset ==
  /\ resets < MaxResets /\ resets' = resets + 1
  /\ enabled' \in BOOLEAN
  /\ valid' = FALSE /\ window' = EmptyWindow /\ got' = {} /\ UNCHANGED twice
  /\ UNCHANGED << sent, resends, last_seq >>

-----------------------------------------------------------------------------
Receive(n) == ReceiveNext(n) \/ ReceiveAhead(n) \/ ReceiveLate(n) \/ ReceiveResend(n)
Next == Send \/ Tick \/ ReceiveTimeout \/ Reset \/ \E n \in Numbers : Receive(n)

Spec == Init /\ [][Next]_vars

(* Time goes on.  Neither sendto nor the network fails for ever: a retry   *)
(* is answered now and then, and now and then the answer arrives.          *)
Retried == ReceiveTimeout /\ Due(window) /\ Answered(NextRange(window)) \subseteq resends'
Filled == \E n \in resends : IsMissing(window, SeqOf(n)) /\ ReceiveResend(n)
Fairness == WF_vars(Tick) /\ SF_vars(Retried) /\ SF_vars(Filled)

FairSpec == Spec /\ Fairness

-----------------------------------------------------------------------------
TypeOK ==
  /\ sent \in 0 .. Packets /\ resends \subseteq Numbers
  /\ valid \in BOOLEAN /\ last_seq \in Seqs /\ enabled \in BOOLEAN
  /\ window.first \in Seqs /\ window.missing \subseteq Offsets
  /\ window.request \in 0 .. RetryAfter \cup {Never}
  /\ window.error \in 0 .. Backoff \cup {Never}
  /\ window.missing = {} => window.request = Never
  /\ resets \in 0 .. MaxResets /\ got \subseteq Numbers /\ twice \in BOOLEAN

(* The numbers in the window. *)
Missing == {(window.first + o) % SeqMod : o \in window.missing}

(* Every bit of the mask stands for a packet that was sent, comes before   *)
(* the last one seen and has not been accepted, through every slide, new   *)
(* window and wrap of the 16-bit number.                                   *)
MissingIsMissing ==
  \A seq \in Missing :
    \E n \in (0 .. sent - 1) \ got : SeqOf(n) = seq /\ Signed(last_seq - seq) > 0

(* Both, whatever the network does.                                        *)
WindowInv == TypeOK /\ MissingIsMissing

(* No packet goes to the decoder twice between two resets, whatever is     *)
(* duplicated, arrives late or is sent again.                              *)
AcceptedOnce == ~twice

(* As long as requests may be sent, a hole does not stay for ever: it is   *)
(* filled, given up for a newer one or reset, one run after the other.     *)
HolesFilled ==
  <>[]enabled => (window.missing # {} ~> window.missing = {})
=============================================================================
