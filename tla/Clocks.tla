------------------------------- MODULE Clocks -------------------------------
(***************************************************************************)
(* The two network clocks under the sessions that use them: an AirPlay 1   *)
(* sender (SETUP) starts the NTP client and stops PTP, an AirPlay 2 sender *)
(* (anchor, TEARDOWN) steers PTP, the end of a connection resets both.     *)
(* rtsp/rtsp_handlers.c, rtsp_server.c, rtsp_conn.c, audio_receiver.c.     *)
(***************************************************************************)
EXTENDS PtpClock, NtpClock

CONSTANT MaxRequests       \* bound: requests and disconnections

ASSUME RequestsAssumption == MaxRequests \in Nat

VARIABLES
  session,                 \* none, or the protocol of the connection, 1 or 2
  rtsp,                    \* where its task is: ready, setup, closing
  requests

vars == << ptp, ntp, session, rtsp, requests >>

ClocksInit == PtpInit /\ NtpInit /\ session = "none" /\ rtsp = "ready" /\ requests = 0

Request ==
  /\ rtsp = "ready" /\ call = Idle
  /\ requests < MaxRequests /\ requests' = requests + 1

-----------------------------------------------------------------------------
(* SETUP of a version 1 session: the timing client first, PTP last. *)
Setup1(s) ==
  /\ Request /\ session \in {"none", "1"} /\ session' = "1"
  /\ ntp_start(s) /\ rtsp' = "setup" /\ UNCHANGED ptp
Setup1Done ==
  /\ rtsp = "setup" /\ call = Idle /\ rtsp' = "ready"
  /\ ptp_stop /\ UNCHANGED << ntp, session, requests >>

(* An anchor that names its clock, which only AirPlay 2 has. *)
Anchor2(m) ==
  /\ Request /\ session \in {"none", "2"} /\ session' = "2"
  /\ set_master_clock_id(m) /\ UNCHANGED << ntp, rtsp >>

Resume ==
  /\ Request /\ session # "none"
  /\ notify_resume /\ UNCHANGED << ntp, rtsp, session >>

(* TEARDOWN of the streams, or of all. *)
Teardown(streams) ==
  /\ Request /\ session # "none"
  /\ clear /\ IF streams THEN UNCHANGED ntp ELSE ntp_stop
  /\ UNCHANGED << session, rtsp >>

(* The connection is over: client_task, then rtsp_conn_cleanup. *)
Disconnect ==
  /\ Request /\ session # "none"
  /\ ntp_stop /\ rtsp' = "closing" /\ UNCHANGED << ptp, session >>
Closed ==
  /\ rtsp = "closing" /\ call = Idle
  /\ ptp_start /\ rtsp' = "free" /\ UNCHANGED << ntp, session, requests >>
Freed ==
  /\ rtsp = "free" /\ clear
  /\ session' = "none" /\ rtsp' = "ready" /\ UNCHANGED << ntp, requests >>

RtspTask ==
  \/ \E s \in Senders : Setup1(s)
  \/ \E m \in Masters : Anchor2(m)
  \/ \E streams \in BOOLEAN : Teardown(streams)
  \/ Setup1Done \/ Resume \/ Disconnect \/ Closed \/ Freed

Next ==
  \/ PtpNext /\ UNCHANGED << ntp, session, rtsp, requests >>
  \/ NtpNext /\ UNCHANGED << ptp, session, rtsp, requests >>
  \/ RtspTask

Spec == ClocksInit /\ [][Next]_vars

(* The tasks run, time passes, and the master of the session keeps sending *)
(* as the protocol has it; of other masters nothing is promised.           *)
Alone == UNCHANGED << ntp, session, rtsp, requests >>
FairSpec ==
  /\ Spec
  /\ WF_vars((\E new \in measured : update_offset(new)) /\ Alone)
  /\ \A m \in Masters : WF_vars(expected = m /\ Measure(m) /\ Alone)
  /\ WF_vars(PtpTick /\ Alone)

-----------------------------------------------------------------------------
(* audio_timing_read. *)
SyncMode == IF is_locked THEN "ptp" ELSE IF ntp_locked THEN "ntp" ELSE "local"

ClocksTypeOK ==
  /\ PtpTypeOK /\ NtpTypeOK
  /\ session \in {"none", "1", "2"} /\ rtsp \in {"ready", "setup", "closing", "free"}
  /\ requests \in 0 .. MaxRequests

(* A PTP clock that says it is locked, with the master of the session's    *)
(* anchor, tells that master's time to within the delays in use, whatever  *)
(* other masters send, whichever message the anchor overtook.              *)
LockedIsRight == \A m \in Masters : locked /\ expected = m => Tracks(m)

(* An NTP clock that says it is locked is wrong by no more than half the   *)
(* shortest round trip among its last measurements, of this sender.        *)
NtpAccurate ==
  ntp_locked /\ call = Idle =>
    /\ Len(history) >= MIN_MEASUREMENTS
    /\ \A i \in DOMAIN history :
         Distance(ntp_offset, Clock[remote]) <= history[i].dispersion

(* A frame of an AirPlay 2 session is never timed by the NTP clock of a    *)
(* sender that has left.                                                   *)
NoForeignClock == session = "2" => SyncMode # "ntp"

(* What holds of the NTP clock in every state: its accuracy while locked,   *)
(* and that it times no session but its own.                                *)
ClocksInv == ClocksTypeOK /\ NtpAccurate /\ NoForeignClock

(* While the session's master is heard its clock is locked again and       *)
(* again, unless a message of another master, filtered before the anchor   *)
(* and applied after it, was taken for the first sample.                   *)
Stale == ~first /\ \E m \in Masters \ {expected} : Tracks(m)
Locks ==
  <>[](session = "2" /\ running /\ expected # NoMaster) => []<>(is_locked \/ Stale)

(* ptp_clock.h, of ptp_clock_set_master_clock_id: internal sample state is *)
(* reset so a stale offset to a previous master is not carried over.       *)
NothingCarriedOver == \A m \in Masters : expected = m /\ ~first => Tracks(m)

(* audio_timing.c: PTP is the clock of AirPlay 2, NTP that of AirPlay 1.   *)
ModeOfProtocol == session = "1" /\ rtsp = "ready" => SyncMode # "ptp"
=============================================================================
