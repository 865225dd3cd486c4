------------------------------ MODULE PtpClock ------------------------------
(***************************************************************************)
(* main/network/ptp_clock.c: a listener that estimates the offset of a PTP *)
(* master's clock from SYNC and FOLLOW_UP messages, and what the RTSP and  *)
(* stream tasks do to it meanwhile without a lock.  A message is filtered  *)
(* by its master in one step and changes the estimate in a later one.      *)
(* Offsets are integers in a unit of some ms; a measured offset is that of *)
(* the master less the delay of the message.  The masters' clocks are      *)
(* further apart than the outlier threshold.                               *)
(***************************************************************************)
EXTENDS Integers, FiniteSetsExt

CONSTANTS
  Masters,           \* PTP masters on the network
  Offset,            \* [Masters -> Int], master's time = local time + Offset
  Delays,            \* delays of a message
  OUTLIER_THRESHOLD, MIN_SAMPLES_FOR_LOCK,
  SMOOTH_POS_STEADY_DIV, SMOOTH_NEG_DIV, SMOOTH_NEG_CLAMP,
  NoMaster

ASSUME MasterAssumption ==
  /\ NoMaster \notin Masters /\ Offset \in [Masters -> Int] /\ Delays \subseteq Nat
  /\ OUTLIER_THRESHOLD \in Nat
  /\ \A d \in Delays : d <= OUTLIER_THRESHOLD
  /\ \A m, n \in Masters : \A d \in Delays :
       m # n => Offset[m] - d - Offset[n] \notin -OUTLIER_THRESHOLD .. OUTLIER_THRESHOLD
ASSUME SmoothingAssumption ==
  /\ SMOOTH_POS_STEADY_DIV \in Nat \ {0} /\ SMOOTH_NEG_DIV \in Nat \ {0} /\ SMOOTH_NEG_CLAMP \in Nat
  /\ MIN_SAMPLES_FOR_LOCK \in Nat

(* Ticks of time, and where ages are cut off. *)
LOCK_STABLE_TIME == 1
STARTUP_DURATION == 1
LOCK_TIMEOUT == 2

VARIABLES
  running, expected,     \* expected_clock_id
  offset,                \* filtered_offset_ns, which previous_offset always equals
  first,                 \* previous_offset_time_ms = 0: the next sample is the first
  samples, locked,
  candidate,             \* ticks since lock_candidate_start_ms, or none
  last_sync,             \* ticks since last_sync_ms, cut off; 0 unless locked
  tracking,              \* ticks since mastership_start_ms, cut off; 0 while first
  awaiting,              \* awaiting_followup
  measured               \* the offset on its way into the estimate, if any

ptp == << running, expected, offset, first, samples, locked, candidate, last_sync, tracking,
          awaiting, measured >>

NoCandidate == -1

PtpInit ==
  /\ running = TRUE /\ expected = NoMaster
  /\ offset = 0 /\ first = TRUE /\ samples = 0 /\ locked = FALSE /\ candidate = NoCandidate
  /\ last_sync = 0 /\ tracking = 0 /\ awaiting = FALSE /\ measured = {}

-----------------------------------------------------------------------------
(* The PTP task. *)
Accepted(m) == running /\ measured = {} /\ expected \in {NoMaster, m}

(* A two-step SYNC only notes its time. *)
Sync(m) ==
  /\ Accepted(m) /\ awaiting' = TRUE
  /\ UNCHANGED << running, expected, offset, first, samples, locked, candidate, last_sync,
                  tracking, measured >>

(* The FOLLOW_UP of the last SYNC, or one of another master that happens   *)
(* to have its number; or a one-step SYNC.                                 *)
Measure(m) ==
  /\ Accepted(m) /\ awaiting' = FALSE
  /\ \E d \in Delays : measured' = {Offset[m] - d}
  /\ UNCHANGED << running, expected, offset, first, samples, locked, candidate, last_sync,
                  tracking >>
FollowUp(m) == awaiting /\ Measure(m)
OneStepSync(m) == Measure(m)

Quotient(a, b) == IF a >= 0 THEN a \div b ELSE -((-a) \div b)   \* as C divides
Distance(a, b) == IF a >= b THEN a - b ELSE b - a

(* A later sample (less delay) counts at once for the first second, then   *)
(* by a fraction; an earlier one hardly at all.                            *)
Smoothed(new) ==
  IF new >= offset
    THEN IF tracking < STARTUP_DURATION THEN new
         ELSE offset + Quotient(new - offset, SMOOTH_POS_STEADY_DIV)
    ELSE offset - Quotient(Min({offset - new, SMOOTH_NEG_CLAMP}), SMOOTH_NEG_DIV)

Outlier(new) == ~first /\ Distance(new, offset) > OUTLIER_THRESHOLD

(* update_offset.  What it kept is within LOCK_THRESHOLD, so that only the *)
(* number of samples and the time decide the lock.                         *)
update_offset(new) ==
  /\ measured' = {}
  /\ last_sync' = 0
  /\ samples' = Min({samples + 1, MIN_SAMPLES_FOR_LOCK})
  /\ IF Outlier(new)
       THEN UNCHANGED << offset, first, locked, candidate, tracking >>
       ELSE /\ offset' = IF first THEN new ELSE Smoothed(new)
            /\ first' = FALSE
            /\ tracking' = IF first THEN 0 ELSE tracking
            /\ IF samples + 1 < MIN_SAMPLES_FOR_LOCK \/ locked
                 THEN UNCHANGED << locked, candidate >>
                 ELSE /\ locked' = (candidate >= LOCK_STABLE_TIME)
                      /\ candidate' = IF locked' THEN NoCandidate
                                      ELSE IF candidate = NoCandidate THEN 0 ELSE candidate
  /\ UNCHANGED << running, expected, awaiting >>

PtpTick ==
  /\ candidate' = IF candidate = NoCandidate THEN candidate ELSE Min({candidate + 1, LOCK_STABLE_TIME})
  /\ last_sync' = IF locked THEN Min({last_sync + 1, LOCK_TIMEOUT + 1}) ELSE 0
  /\ tracking' = IF first THEN 0 ELSE Min({tracking + 1, STARTUP_DURATION})
  /\ UNCHANGED << running, expected, offset, first, samples, locked, awaiting, measured >>

-----------------------------------------------------------------------------
(* Its callers. *)
Forget ==
  /\ locked' = FALSE /\ candidate' = NoCandidate
  /\ offset' = 0 /\ first' = TRUE /\ samples' = 0 /\ awaiting' = FALSE
  /\ last_sync' = 0 /\ tracking' = 0

(* Mutant: the samples of the last master stay. *)
set_master_only(m) ==
  /\ expected' = m
  /\ UNCHANGED << running, offset, first, samples, locked, candidate, last_sync, tracking,
                  awaiting, measured >>

(* Mutant: the next sample is not taken for the first. *)
ForgetLess(m) ==
  /\ expected' = m
  /\ IF m = expected
       THEN UNCHANGED << locked, candidate, offset, first, samples, awaiting, last_sync,
                         tracking >>
       ELSE /\ locked' = FALSE /\ candidate' = NoCandidate /\ offset' = 0 /\ samples' = 0
            /\ awaiting' = FALSE /\ last_sync' = 0 /\ UNCHANGED << first, tracking >>
  /\ UNCHANGED << running, measured >>

(* ptp_clock_set_master_clock_id, with each anchor. *)
set_master_clock_id(m) ==
  /\ expected' = m
  /\ IF m = expected
       THEN UNCHANGED << locked, candidate, offset, first, samples, awaiting, last_sync,
                         tracking >>
       ELSE Forget
  /\ UNCHANGED << running, measured >>

clear ==
  /\ Forget /\ expected' = NoMaster
  /\ UNCHANGED << running, measured >>

(* ptp_clock_notify_resume, after a long pause. *)
notify_resume ==
  /\ first' = TRUE /\ tracking' = 0
  /\ UNCHANGED << running, expected, offset, samples, locked, candidate, last_sync, awaiting,
                  measured >>

(* ptp_clock_is_locked, which the playback task asks for every frame, and  *)
(* which drops the lock itself.                                            *)
is_locked == locked /\ last_sync <= LOCK_TIMEOUT
PollLock ==
  /\ locked /\ ~is_locked
  /\ locked' = FALSE /\ candidate' = NoCandidate /\ last_sync' = 0
  /\ UNCHANGED << running, expected, offset, first, samples, tracking, awaiting,
                  measured >>

(* ptp_clock_stop: the task ends after its message; nothing is forgotten.  *)
ptp_stop ==
  /\ running' = FALSE
  /\ UNCHANGED << expected, offset, first, samples, locked, candidate, last_sync, tracking,
                  awaiting, measured >>

(* ptp_clock_init: refused while it runs, else from nothing. *)
ptp_start ==
  IF running THEN UNCHANGED ptp
  ELSE /\ measured = {} /\ running' = TRUE
       /\ Forget /\ expected' = NoMaster /\ UNCHANGED measured

PtpTask == (\E m \in Masters : Sync(m) \/ FollowUp(m) \/ OneStepSync(m))
           \/ \E new \in measured : update_offset(new)
PtpNext == PtpTask \/ PtpTick \/ PollLock

-----------------------------------------------------------------------------
PtpTypeOK ==
  /\ running \in BOOLEAN /\ expected \in Masters \cup {NoMaster}
  /\ offset \in Int /\ first \in BOOLEAN /\ samples \in 0 .. MIN_SAMPLES_FOR_LOCK
  /\ locked \in BOOLEAN /\ candidate \in NoCandidate .. LOCK_STABLE_TIME
  /\ last_sync \in 0 .. LOCK_TIMEOUT + 1 /\ tracking \in 0 .. STARTUP_DURATION
  /\ awaiting \in BOOLEAN
  /\ \A x \in measured : x \in Int

(* The estimate lies where the delays of m's messages can put it. *)
Tracks(m) == offset <= Offset[m] /\ \E d \in Delays : Offset[m] - d <= offset
=============================================================================
