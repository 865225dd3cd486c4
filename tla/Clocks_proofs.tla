--------------------------- MODULE Clocks_proofs ---------------------------
(***************************************************************************)
(* The network clocks, for any number of masters and senders, any delays   *)
(* below the outlier threshold, any smoothing, and any interleaving of the *)
(* clocks' tasks with the requests: a PTP clock that is locked tells the   *)
(* time of the master of the session's anchor, an NTP clock that is locked *)
(* that of its sender, and no session is timed by the clock of another.    *)
(***************************************************************************)
EXTENDS Clocks, TLAPS, SequenceTheorems

-----------------------------------------------------------------------------
(* Arithmetic of the filter. *)
LEMMA SmallerOf ==
  ASSUME NEW x \in Int, NEW y \in Int
  PROVE  /\ Min({x, y}) \in Int /\ Min({x, y}) <= x /\ Min({x, y}) <= y
         /\ (Min({x, y}) = x \/ Min({x, y}) = y)
<1>1. \E z \in {x, y} : \A u \in {x, y} : z <= u
  <2>1. CASE x <= y
    BY <2>1
  <2>2. CASE ~(x <= y)
    BY <2>2
  <2> QED
    BY <2>1, <2>2
<1>2. Min({x, y}) \in {x, y} /\ \A u \in {x, y} : Min({x, y}) <= u
  BY <1>1 DEF Min
<1> QED
  BY <1>2

LEMMA QuotientIsLess ==
  ASSUME NEW a \in Nat, NEW k \in Nat \ {0}
  PROVE  Quotient(a, k) \in Nat /\ Quotient(a, k) <= a
<1>1. Quotient(a, k) = (a \div k)
  BY DEF Quotient
<1>2. (a \div k) \in Int /\ a = k * (a \div k) + (a % k) /\ 0 <= (a % k) /\ (a % k) < k
  OBVIOUS
<1>3. ASSUME NEW q \in Int, NEW r \in Int, a = k * q + r, 0 <= r, r < k
      PROVE  0 <= q /\ q <= a
  <2>1. 0 <= q
    <3> SUFFICES ASSUME q <= -1 PROVE FALSE
      BY <1>3
    <3>1. k * q <= k * (-1)
      BY <1>3
    <3> QED
      BY <3>1, <1>3
  <2>2. q <= k * q
    BY <2>1, <1>3
  <2> QED
    BY <2>1, <2>2, <1>3
<1> QED
  BY <1>1, <1>2, <1>3

-----------------------------------------------------------------------------
(* The PTP clock.  A measurement that an anchor has overtaken is the first  *)
(* one of the new master, and there is no candidate for a lock yet; those   *)
(* that follow it are outliers, so that nothing locks on it.                *)
Of(m, x) == \E d \in Delays : x = Offset[m] - d
Overtaken == ~locked /\ first /\ candidate = NoCandidate
PtpIInv ==
  /\ PtpTypeOK
  /\ \A x \in measured : \E m \in Masters : Of(m, x)
  /\ expected \in Masters => Overtaken \/ \A x \in measured : Of(expected, x)
  /\ ~first => \E m \in Masters : Tracks(m)
  /\ locked /\ expected \in Masters => Tracks(expected)

LEMMA MastersAre ==
  /\ NoMaster \notin Masters /\ OUTLIER_THRESHOLD \in Nat
  /\ \A m \in Masters : Offset[m] \in Int
  /\ \A d \in Delays : d \in Nat /\ d <= OUTLIER_THRESHOLD
  /\ \A m, n \in Masters : \A d \in Delays :
       m # n => \/ Offset[m] - d - Offset[n] < -OUTLIER_THRESHOLD
                \/ Offset[m] - d - Offset[n] > OUTLIER_THRESHOLD
<1>1. /\ NoMaster \notin Masters /\ OUTLIER_THRESHOLD \in Nat
      /\ \A m \in Masters : Offset[m] \in Int
      /\ \A d \in Delays : d \in Nat /\ d <= OUTLIER_THRESHOLD
  BY MasterAssumption
<1>2. ASSUME NEW m \in Masters, NEW n \in Masters, NEW d \in Delays, m # n
      PROVE  \/ Offset[m] - d - Offset[n] < -OUTLIER_THRESHOLD
             \/ Offset[m] - d - Offset[n] > OUTLIER_THRESHOLD
  <2>1. Offset[m] - d - Offset[n] \notin -OUTLIER_THRESHOLD .. OUTLIER_THRESHOLD
    BY <1>2, MasterAssumption
  <2>2. Offset[m] - d - Offset[n] \in Int
    BY <1>1
  <2> QED
    BY <1>1, <2>1, <2>2
<1> QED
  BY <1>1, <1>2

(* What is taken for no outlier is of the master that is being tracked. *)
LEMMA OthersAreOutliers ==
  ASSUME NEW m \in Masters, NEW n \in Masters, NEW x, Of(m, x), offset \in Int, Tracks(n),
         Distance(x, offset) <= OUTLIER_THRESHOLD
  PROVE  m = n
<1> SUFFICES ASSUME m # n PROVE FALSE
  OBVIOUS
<1>1. PICK d \in Delays : x = Offset[m] - d
  BY DEF Of
<1>2. PICK e \in Delays : Offset[n] - e <= offset
  BY DEF Tracks
<1>3. offset <= Offset[n]
  BY DEF Tracks
<1> DEFINE T == OUTLIER_THRESHOLD
           M == Offset[m]
           N == Offset[n]
<1>4. /\ M \in Int /\ N \in Int /\ d \in Nat /\ e \in Nat /\ T \in Nat /\ d <= T /\ e <= T
      /\ M - d - N < -T \/ M - d - N > T
      /\ N - e - M < -T \/ N - e - M > T
  BY MastersAre
<1>5. (x - offset <= T) /\ (offset - x <= T)
  BY <1>1, <1>4 DEF Distance
<1> HIDE DEF T, M, N
<1>6. x = M - d /\ N - e <= offset /\ offset <= N
  BY <1>1, <1>2, <1>3 DEF M, N
<1> QED
  BY <1>4, <1>5, <1>6

(* A sample of the master that is tracked moves the estimate, and keeps it  *)
(* within that master's delays.                                             *)
LEMMA SmoothedTracks ==
  ASSUME NEW m \in Masters, NEW x, Of(m, x), offset \in Int, Tracks(m)
  PROVE  /\ Smoothed(x) \in Int /\ Smoothed(x) <= Offset[m]
         /\ \E d \in Delays : Offset[m] - d <= Smoothed(x)
<1>1. PICK d \in Delays : x = Offset[m] - d
  BY DEF Of
<1>2. PICK e \in Delays : Offset[m] - e <= offset
  BY DEF Tracks
<1>3. offset <= Offset[m]
  BY DEF Tracks
<1>4. x \in Int /\ Offset[m] \in Int /\ d \in Nat /\ e \in Nat
  BY <1>1, MastersAre
<1>5. CASE x >= offset
  <2> DEFINE q == Quotient(x - offset, SMOOTH_POS_STEADY_DIV)
  <2>1. q \in Nat /\ q <= x - offset
    BY <1>4, <1>5, QuotientIsLess, SmoothingAssumption
  <2>2. Smoothed(x) = x \/ Smoothed(x) = offset + q
    BY <1>5 DEF Smoothed
  <2> HIDE DEF q
  <2>3. Smoothed(x) \in Int /\ offset <= Smoothed(x) /\ Smoothed(x) <= x
    BY <1>4, <1>5, <2>1, <2>2
  <2> QED
    BY <1>1, <1>2, <1>4, <2>3
<1>6. CASE ~(x >= offset)
  <2> DEFINE y == Min({offset - x, SMOOTH_NEG_CLAMP})
             q == Quotient(y, SMOOTH_NEG_DIV)
  <2>1. y \in Nat /\ y <= offset - x
    <3>1. offset - x \in Nat /\ SMOOTH_NEG_CLAMP \in Nat
      BY <1>4, <1>6, SmoothingAssumption
    <3>a. offset - x \in Int /\ SMOOTH_NEG_CLAMP \in Int
      BY <3>1
    <3>2. y \in Int /\ y <= offset - x /\ (y = offset - x \/ y = SMOOTH_NEG_CLAMP)
      BY <3>a, SmallerOf, Zenon
    <3> HIDE DEF y
    <3> QED
      BY <3>1, <3>2
  <2>2. q \in Nat /\ q <= y
    <3> HIDE DEF y
    <3> QED
      BY <2>1, QuotientIsLess, SmoothingAssumption
  <2>3. Smoothed(x) = offset - q
    BY <1>6 DEF Smoothed
  <2> HIDE DEF y, q
  <2>4. Smoothed(x) \in Int /\ x <= Smoothed(x) /\ Smoothed(x) <= offset
    BY <1>4, <2>1, <2>2, <2>3
  <2> QED
    BY <1>1, <1>3, <1>4, <2>4
<1> QED
  BY <1>5, <1>6

(* The steps of the PTP clock. *)
PtpSteps == PtpNext \/ ptp_stop \/ ptp_start \/ clear \/ notify_resume
            \/ \E m \in Masters : set_master_clock_id(m)

LEMMA ForgetTypes ==
  ASSUME Forget, PtpIInv
  PROVE  /\ offset' \in Int /\ first' /\ samples' \in 0 .. MIN_SAMPLES_FOR_LOCK /\ ~locked'
         /\ candidate' = NoCandidate /\ candidate' \in NoCandidate .. LOCK_STABLE_TIME
         /\ last_sync' \in 0 .. LOCK_TIMEOUT + 1 /\ tracking' \in 0 .. STARTUP_DURATION
         /\ first' \in BOOLEAN /\ locked' \in BOOLEAN /\ awaiting' \in BOOLEAN
<1>1. /\ locked' = FALSE /\ candidate' = NoCandidate /\ offset' = 0 /\ first' = TRUE
      /\ samples' = 0 /\ awaiting' = FALSE /\ last_sync' = 0 /\ tracking' = 0
  BY DEF Forget
<1>2. ~locked' /\ first' /\ first' \in BOOLEAN /\ locked' \in BOOLEAN /\ awaiting' \in BOOLEAN
  BY <1>1, Zenon
<1>3. offset' \in Int /\ samples' \in 0 .. MIN_SAMPLES_FOR_LOCK
  BY <1>1, SmoothingAssumption
<1>4. /\ candidate' \in NoCandidate .. LOCK_STABLE_TIME
      /\ last_sync' \in 0 .. LOCK_TIMEOUT + 1 /\ tracking' \in 0 .. STARTUP_DURATION
  BY <1>1 DEF NoCandidate, LOCK_STABLE_TIME, LOCK_TIMEOUT, STARTUP_DURATION
<1> QED
  BY <1>1, <1>2, <1>3, <1>4

LEMMA ForgetKeeps ==
  ASSUME PtpIInv, Forget, running' \in BOOLEAN, expected' \in Masters \cup {NoMaster},
         measured' = measured
  PROVE  PtpIInv'
<1>1. PtpTypeOK'
  BY ForgetTypes DEF PtpIInv, PtpTypeOK
<1>2. Overtaken'
  BY ForgetTypes DEF Overtaken
<1> QED
  BY <1>1, <1>2, ForgetTypes DEF PtpIInv, Of

LEMMA UpdateKeeps ==
  ASSUME PtpIInv, NEW x \in measured, update_offset(x)
  PROVE  PtpIInv'
<1>1. /\ measured' = {} /\ UNCHANGED <<running, expected, awaiting>> /\ last_sync' = 0
      /\ samples' = Min({samples + 1, MIN_SAMPLES_FOR_LOCK})
  BY DEF update_offset
<1>t. /\ offset \in Int /\ x \in Int /\ samples \in 0 .. MIN_SAMPLES_FOR_LOCK
      /\ candidate \in NoCandidate .. LOCK_STABLE_TIME /\ tracking \in 0 .. STARTUP_DURATION
      /\ locked \in BOOLEAN /\ first \in BOOLEAN
  BY DEF PtpIInv, PtpTypeOK
<1>2. samples' \in 0 .. MIN_SAMPLES_FOR_LOCK /\ last_sync' \in 0 .. LOCK_TIMEOUT + 1
  <2>1. samples + 1 \in Nat /\ MIN_SAMPLES_FOR_LOCK \in Nat
    BY <1>t, SmoothingAssumption
  <2>a. samples + 1 \in Int /\ MIN_SAMPLES_FOR_LOCK \in Int
    BY <2>1
  <2>b. samples' = Min({samples + 1, MIN_SAMPLES_FOR_LOCK})
    BY <1>1
  <2>2. /\ samples' \in Int /\ samples' <= MIN_SAMPLES_FOR_LOCK
        /\ samples' = samples + 1 \/ samples' = MIN_SAMPLES_FOR_LOCK
    BY <2>a, <2>b, SmallerOf, Zenon
  <2> QED
    BY <1>1, <2>1, <2>2 DEF LOCK_TIMEOUT
<1>3. PICK m \in Masters : Of(m, x)
  BY DEF PtpIInv
<1>4. expected \in Masters /\ ~Overtaken => Of(expected, x)
  BY DEF PtpIInv
<1>5. CASE Outlier(x)
  <2>1. UNCHANGED <<offset, first, locked, candidate, tracking>>
    BY <1>5 DEF update_offset
  <2>2. PtpTypeOK'
    BY <1>1, <1>2, <2>1 DEF PtpIInv, PtpTypeOK
  <2> QED
    BY <1>1, <2>1, <2>2 DEF PtpIInv, Tracks
<1>6. CASE ~Outlier(x)
  <2>1. /\ offset' = (IF first THEN x ELSE Smoothed(x)) /\ first' = FALSE
        /\ tracking' = (IF first THEN 0 ELSE tracking)
        /\ \/ UNCHANGED <<locked, candidate>>
           \/ /\ locked' = (candidate >= LOCK_STABLE_TIME)
              /\ candidate' = IF locked' THEN NoCandidate
                              ELSE IF candidate = NoCandidate THEN 0 ELSE candidate
    BY <1>6 DEF update_offset
  <2>2. candidate' \in NoCandidate .. LOCK_STABLE_TIME /\ tracking' \in 0 .. STARTUP_DURATION
    BY <1>t, <2>1 DEF NoCandidate, LOCK_STABLE_TIME, STARTUP_DURATION
  <2>3. locked' \in BOOLEAN /\ first' \in BOOLEAN
    <3>1. (candidate >= LOCK_STABLE_TIME) \in BOOLEAN
      BY DEF LOCK_STABLE_TIME
    <3>2. locked' = locked \/ locked' = (candidate >= LOCK_STABLE_TIME)
      BY <2>1
    <3>3. locked' \in BOOLEAN
      BY <1>t, <3>1, <3>2, Zenon
    <3>4. first' \in BOOLEAN
      BY <2>1, Zenon
    <3> QED
      BY <3>3, <3>4
  (* Whose sample it is, the estimate follows: its first, or one that is no *)
  (* outlier of the master it tracks already.                               *)
  <2>4. ASSUME NEW n \in Masters, Of(n, x)
        PROVE  offset' \in Int /\ Tracks(n)'
    <3>1. CASE first
      <4>1. PICK d \in Delays : x = Offset[n] - d
        BY <2>4 DEF Of
      <4>2. offset' = x
        BY <2>1, <3>1
      <4> QED
        BY <4>1, <4>2, <1>t, MastersAre DEF Tracks
    <3>2. CASE ~first
      <4>1. PICK k \in Masters : Tracks(k)
        BY <3>2 DEF PtpIInv
      <4>2. Distance(x, offset) <= OUTLIER_THRESHOLD
        BY <1>6, <1>t, <3>2, MastersAre DEF Outlier, Distance
      <4>3. k = n
        BY <1>t, <2>4, <4>1, <4>2, OthersAreOutliers
      <4>4. offset' = Smoothed(x)
        BY <2>1, <3>2
      <4>5. Tracks(n)
        BY <4>1, <4>3
      <4> QED
        BY <1>t, <2>4, <4>4, <4>5, SmoothedTracks DEF Tracks
    <3> QED
      BY <3>1, <3>2
  <2>5. PtpTypeOK'
    BY <1>1, <1>2, <1>3, <2>2, <2>3, <2>4 DEF PtpIInv, PtpTypeOK
  <2>6. ASSUME locked', expected \in Masters
        PROVE  Tracks(expected)'
    <3>1. ~Overtaken
      <4> SUFFICES ASSUME Overtaken PROVE FALSE
        OBVIOUS
      <4>1. ~locked /\ candidate = NoCandidate
        BY DEF Overtaken
      <4> DEFINE stable == candidate >= LOCK_STABLE_TIME
      <4>3. ~stable
        BY <4>1 DEF NoCandidate, LOCK_STABLE_TIME
      <4>4. locked' = locked \/ locked' = stable
        BY <2>1
      <4> HIDE DEF stable
      <4>2. ~locked'
        BY <4>1, <4>3, <4>4, Zenon
      <4> QED
        BY <2>6, <4>2
    <3>2. Of(expected, x)
      BY <1>4, <2>6, <3>1
    <3>3. Tracks(expected)' <=> \E n \in Masters : n = expected /\ Tracks(n)'
      BY <1>1, <2>6 DEF Tracks
    <3> QED
      BY <2>4, <2>6, <3>2, <3>3
  <2> QED
    BY <1>1, <1>3, <2>4, <2>5, <2>6 DEF PtpIInv
<1> QED
  BY <1>5, <1>6

LEMMA PtpStep == ASSUME PtpIInv, PtpSteps PROVE PtpIInv'
<1>t. /\ running \in BOOLEAN /\ expected \in Masters \cup {NoMaster} /\ offset \in Int
      /\ candidate \in NoCandidate .. LOCK_STABLE_TIME /\ tracking \in 0 .. STARTUP_DURATION
      /\ last_sync \in 0 .. LOCK_TIMEOUT + 1
  BY DEF PtpIInv, PtpTypeOK
<1>1. CASE \E m \in Masters : Sync(m)
  BY <1>1 DEF Sync, PtpIInv, PtpTypeOK, Overtaken, Of, Tracks
<1>2. CASE \E m \in Masters : Measure(m)
  <2>1. PICK m \in Masters : Measure(m)
    BY <1>2
  <2>2. PICK d \in Delays : measured' = {Offset[m] - d}
    BY <2>1 DEF Measure
  <2>3. /\ expected \in {NoMaster, m} /\ awaiting' = FALSE
        /\ UNCHANGED <<running, expected, offset, first, samples, locked, candidate, last_sync, tracking>>
    BY <2>1 DEF Measure, Accepted
  <2>a. awaiting' \in BOOLEAN
    BY <2>3, Zenon
  <2>b. \A x \in measured' : x \in Int
    BY <2>2, MastersAre
  <2>4. PtpTypeOK'
    BY <2>3, <2>a, <2>b DEF PtpIInv, PtpTypeOK
  <2>5. \A x \in measured' : Of(m, x)
    BY <2>2 DEF Of
  <2>6. expected' \in Masters => expected' = m
    BY <2>3, MastersAre
  <2> QED
    BY <2>3, <2>4, <2>5, <2>6 DEF PtpIInv, Tracks, Of, Overtaken
<1>3. CASE \E x \in measured : update_offset(x)
  BY <1>3, UpdateKeeps
<1>4. CASE PtpTick
  <2>1. UNCHANGED <<running, expected, offset, first, samples, locked, awaiting, measured>>
    BY <1>4 DEF PtpTick
  <2>2. candidate' \in NoCandidate .. LOCK_STABLE_TIME /\ (candidate = NoCandidate => candidate' = NoCandidate)
    <3>1. CASE candidate = NoCandidate
      BY <1>4, <1>t, <3>1 DEF PtpTick
    <3>2. CASE candidate # NoCandidate
      <4>1. candidate' = Min({candidate + 1, 1}) /\ candidate + 1 \in Nat
        BY <1>4, <1>t, <3>2 DEF PtpTick, NoCandidate, LOCK_STABLE_TIME
      <4>2. candidate + 1 \in Int /\ 1 \in Int
        BY <4>1
      <4>3. /\ candidate' \in Int /\ candidate' <= 1
            /\ (candidate' = candidate + 1 \/ candidate' = 1)
        BY <4>1, <4>2, SmallerOf, Zenon
      <4> QED
        BY <3>2, <4>1, <4>3 DEF NoCandidate, LOCK_STABLE_TIME
    <3> QED
      BY <3>1, <3>2
  <2>3. last_sync' \in 0 .. LOCK_TIMEOUT + 1
    <3>1. last_sync + 1 \in Nat /\ (last_sync' = 0 \/ last_sync' = Min({last_sync + 1, 3}))
      BY <1>4, <1>t DEF PtpTick, LOCK_TIMEOUT
    <3>2. last_sync + 1 \in Int /\ 3 \in Int
      BY <3>1
    <3>3. \/ last_sync' = 0
          \/ /\ last_sync' \in Int /\ last_sync' <= 3
             /\ (last_sync' = last_sync + 1 \/ last_sync' = 3)
      BY <3>1, <3>2, SmallerOf, Zenon
    <3> QED
      BY <3>1, <3>3 DEF LOCK_TIMEOUT
  <2>4. tracking' \in 0 .. STARTUP_DURATION
    <3>1. tracking + 1 \in Nat /\ (tracking' = 0 \/ tracking' = Min({tracking + 1, 1}))
      BY <1>4, <1>t DEF PtpTick, STARTUP_DURATION
    <3>2. tracking + 1 \in Int /\ 1 \in Int
      BY <3>1
    <3>3. \/ tracking' = 0
          \/ /\ tracking' \in Int /\ tracking' <= 1
             /\ (tracking' = tracking + 1 \/ tracking' = 1)
      BY <3>1, <3>2, SmallerOf, Zenon
    <3> QED
      BY <3>1, <3>3 DEF STARTUP_DURATION
  <2>5. PtpTypeOK'
    BY <2>1, <2>2, <2>3, <2>4 DEF PtpIInv, PtpTypeOK
  <2> QED
    BY <2>1, <2>2, <2>5 DEF PtpIInv, Overtaken, Of, Tracks
<1>5. CASE PollLock
  <2>1. /\ locked /\ locked' = FALSE /\ candidate' = NoCandidate /\ last_sync' = 0
        /\ UNCHANGED <<running, expected, offset, first, samples, tracking, awaiting, measured>>
    BY <1>5 DEF PollLock
  <2>a. locked' \in BOOLEAN /\ ~locked'
    BY <2>1, Zenon
  <2>b. candidate' \in NoCandidate .. LOCK_STABLE_TIME /\ last_sync' \in 0 .. LOCK_TIMEOUT + 1
    BY <2>1 DEF NoCandidate, LOCK_STABLE_TIME, LOCK_TIMEOUT
  <2>2. PtpTypeOK'
    BY <2>1, <2>a, <2>b DEF PtpIInv, PtpTypeOK
  <2> QED
    BY <2>1, <2>2 DEF PtpIInv, Overtaken, Of, Tracks
<1>6. CASE \E m \in Masters : set_master_clock_id(m)
  <2>1. PICK m \in Masters : set_master_clock_id(m)
    BY <1>6
  <2>2. expected' = m /\ running' = running /\ measured' = measured
    BY <2>1 DEF set_master_clock_id
  <2>3. CASE m = expected
    <3>1. UNCHANGED ptp
      BY <2>1, <2>2, <2>3 DEF set_master_clock_id, ptp
    <3> QED
      BY <3>1 DEF PtpIInv, PtpTypeOK, ptp, Overtaken, Of, Tracks
  <2>4. CASE m # expected
    <3>1. Forget
      BY <2>1, <2>4 DEF set_master_clock_id
    <3> QED
      BY <1>t, <2>2, <3>1, ForgetKeeps
  <2> QED
    BY <2>3, <2>4
<1>7. CASE clear
  BY <1>7, <1>t, ForgetKeeps DEF clear
<1>8. CASE notify_resume
  <2>1. /\ first' = TRUE /\ tracking' = 0
        /\ UNCHANGED <<running, expected, offset, samples, locked, candidate, last_sync, awaiting, measured>>
    BY <1>8 DEF notify_resume
  <2>2. PtpTypeOK'
    BY <2>1 DEF PtpIInv, PtpTypeOK, STARTUP_DURATION
  <2> QED
    BY <2>1, <2>2 DEF PtpIInv, Overtaken, Of, Tracks
<1>9. CASE ptp_stop
  BY <1>9 DEF ptp_stop, PtpIInv, PtpTypeOK, Overtaken, Of, Tracks
<1>10. CASE ptp_start
  <2>1. CASE running
    BY <1>10, <2>1 DEF ptp_start, ptp, PtpIInv, PtpTypeOK, Overtaken, Of, Tracks
  <2>2. CASE ~running
    BY <1>10, <2>2, ForgetKeeps DEF ptp_start
  <2> QED
    BY <2>1, <2>2
<1> QED
  BY <1>1, <1>2, <1>3, <1>4, <1>5, <1>6, <1>7, <1>8, <1>9, <1>10
     DEF PtpSteps, PtpNext, PtpTask, FollowUp, OneStepSync

-----------------------------------------------------------------------------
(* The NTP clock.  Whoever the client is of, the measurements and the       *)
(* response under way are his; between the calls the estimate is the best   *)
(* of them; a client that is not running has ended and locks nothing.       *)
Measurements == [offset : Int, dispersion : Nat]
Accurate(r) == Distance(r.offset, Clock[remote]) <= r.dispersion
Calls == {Idle, [do |-> "stop", to |-> NoSender]} \cup [do : {"switch", "start"}, to : Senders]
NtpShape ==
  /\ ntp_running \in BOOLEAN /\ remote \in Senders \cup {NoSender}
  /\ ntp_task \in {"none", "receive", "store"} /\ ntp_locked \in BOOLEAN /\ ntp_offset \in Int
  /\ history \in Seq(Measurements) /\ Len(history) <= TIMING_HISTORY_SIZE
  /\ call \in Calls /\ response \in Measurements
NtpIInv ==
  /\ NtpShape
  /\ remote = NoSender => ntp_task = "none" /\ history = << >>
  /\ ntp_task = "store" => Accurate(response)
  /\ \A i \in 1 .. Len(history) :
       Accurate(history[i]) /\ Distance(ntp_offset, Clock[remote]) <= history[i].dispersion
  /\ ntp_locked => Len(history) >= MIN_MEASUREMENTS
  /\ ntp_running => call = Idle /\ ntp_task # "none"
  /\ call.do = "start" => ntp_task = "none" /\ ~ntp_locked
  /\ call = Idle /\ ~ntp_running => ntp_task = "none" /\ ~ntp_locked

LEMMA SendersAre ==
  /\ NoSender \notin Senders /\ \A s \in Senders : Clock[s] \in Int
  /\ \A d \in Dispersions : d \in Nat
BY SenderAssumption

LEMMA CallsAre ==
  ASSUME NEW c \in Calls
  PROVE  /\ c.do \in {"nothing", "stop", "switch", "start"}
         /\ c.do = "nothing" <=> c = Idle
         /\ c.do \in {"switch", "start"} => c.to \in Senders /\ c = [do |-> c.do, to |-> c.to]
BY DEF Calls, Idle

LEMMA MeasurementFields ==
  ASSUME NEW r \in Measurements
  PROVE  r.offset \in Int /\ r.dispersion \in Nat
BY DEF Measurements

(* The ring holds the last measurements, in their order. *)
LEMMA NewestIs ==
  ASSUME NEW h \in Seq(Measurements), h # << >>
  PROVE  LET new == Newest(TIMING_HISTORY_SIZE, h) IN
           /\ new \in Seq(Measurements) /\ new # << >> /\ Len(new) <= TIMING_HISTORY_SIZE
           /\ Len(h) >= MIN_MEASUREMENTS => Len(new) >= MIN_MEASUREMENTS
           /\ \A i \in 1 .. Len(new) : \E j \in 1 .. Len(h) : new[i] = h[j]
<1> DEFINE k == Min({TIMING_HISTORY_SIZE, Len(h)})
           from == Len(h) - k + 1
           new == Newest(TIMING_HISTORY_SIZE, h)
<1>1. /\ Len(h) \in Int /\ Len(h) >= 1 /\ TIMING_HISTORY_SIZE \in Int /\ MIN_MEASUREMENTS \in Int
      /\ MIN_MEASUREMENTS >= 1 /\ TIMING_HISTORY_SIZE >= MIN_MEASUREMENTS
  BY HistoryAssumption
<1>2. /\ k \in Int /\ k <= TIMING_HISTORY_SIZE /\ k <= Len(h)
      /\ (k = TIMING_HISTORY_SIZE \/ k = Len(h))
  BY <1>1, SmallerOf, Zenon
<1>3. new = SubSeq(h, from, Len(h))
  BY DEF Newest
<1> HIDE DEF k
<1>4. from \in 1 .. Len(h) /\ Len(h) - from + 1 = k /\ k >= 1
  BY <1>1, <1>2
<1> HIDE DEF from, new
<1>5. /\ new \in Seq(Measurements) /\ Len(new) = Len(h) - from + 1
      /\ \A i \in 1 .. Len(h) - from + 1 : new[i] = h[from + i - 1]
  BY <1>1, <1>3, <1>4, SubSeqProperties
<1>6. Len(new) = k
  BY <1>4, <1>5
<1>7. \A i \in 1 .. Len(new) : from + i - 1 \in 1 .. Len(h) /\ new[i] = h[from + i - 1]
  BY <1>1, <1>4, <1>5
<1>8. new # << >>
  BY <1>4, <1>6
<1>9. Len(new) <= TIMING_HISTORY_SIZE /\ (Len(h) >= MIN_MEASUREMENTS => Len(new) >= MIN_MEASUREMENTS)
  BY <1>1, <1>2, <1>6
<1> QED
  BY <1>5, <1>7, <1>8, <1>9 DEF new

(* The best of a history has no longer a round trip than any of it. *)
LEMMA BestIs ==
  ASSUME NEW h \in Seq(Measurements), NEW i \in Best(h)
  PROVE  i \in 1 .. Len(h) /\ \A j \in 1 .. Len(h) : h[i].dispersion <= h[j].dispersion
BY DEF Best

LEMMA StoreKeeps == ASSUME NtpIInv, process_timing_response PROVE NtpIInv'
<1> DEFINE h == Append(history, response)
<1>1. /\ ntp_task = "store" /\ ntp_task' = "receive" /\ history' = Newest(TIMING_HISTORY_SIZE, h)
      /\ response' = NoResponse /\ UNCHANGED <<ntp_running, remote, call>>
      /\ ntp_locked' = (ntp_locked \/ Len(history') >= MIN_MEASUREMENTS)
  BY DEF process_timing_response
<1>2. PICK i \in Best(history') : ntp_offset' = history'[i].offset
  BY DEF process_timing_response
<1>t. /\ history \in Seq(Measurements) /\ response \in Measurements /\ remote \in Senders
      /\ Len(history) \in Nat /\ ntp_locked \in BOOLEAN
  BY <1>1 DEF NtpIInv, NtpShape
<1>3. h \in Seq(Measurements) /\ h # << >> /\ Len(h) = Len(history) + 1
  BY <1>t
<1>4. \A j \in 1 .. Len(h) : Accurate(h[j])
  BY <1>1, <1>t DEF NtpIInv
<1> HIDE DEF h
<1>5. /\ history' \in Seq(Measurements) /\ history' # << >> /\ Len(history') <= TIMING_HISTORY_SIZE
      /\ Len(h) >= MIN_MEASUREMENTS => Len(history') >= MIN_MEASUREMENTS
      /\ \A j \in 1 .. Len(history') : \E n \in 1 .. Len(h) : history'[j] = h[n]
  BY <1>1, <1>3, NewestIs
<1>6. \A j \in 1 .. Len(history') :
        /\ history'[j] \in Measurements
        /\ Distance(history'[j].offset, Clock[remote]) <= history'[j].dispersion
  BY <1>4, <1>5 DEF Accurate
<1>7. i \in 1 .. Len(history') /\ \A j \in 1 .. Len(history') : history'[i].dispersion <= history'[j].dispersion
  BY <1>2, <1>5, BestIs
<1>8. ntp_offset' \in Int
  BY <1>2, <1>6, <1>7, MeasurementFields
<1>9. \A j \in 1 .. Len(history') : Distance(ntp_offset', Clock[remote]) <= history'[j].dispersion
  <2> TAKE j \in 1 .. Len(history')
  <2>1. Distance(ntp_offset', Clock[remote]) <= history'[i].dispersion
    BY <1>2, <1>6, <1>7
  <2>2. history'[i].dispersion <= history'[j].dispersion
    BY <1>7
  <2>3. history'[i].dispersion \in Int /\ history'[j].dispersion \in Int /\ Distance(ntp_offset', Clock[remote]) \in Int
    BY <1>6, <1>7, <1>8, <1>t, MeasurementFields, SendersAre DEF Distance
  <2> QED
    BY <2>1, <2>2, <2>3
<1>10. ntp_locked' => Len(history') >= MIN_MEASUREMENTS
  <2>1. ntp_locked => Len(h) >= MIN_MEASUREMENTS
    BY <1>t, <1>3, HistoryAssumption DEF NtpIInv
  <2> QED
    BY <1>1, <1>5, <2>1, Zenon
<1>11. ntp_locked' \in BOOLEAN
  BY <1>1, <1>t, Zenon
<1>12. response' \in Measurements
  BY <1>1 DEF NoResponse, Measurements
<1>13. NtpShape'
  BY <1>1, <1>5, <1>8, <1>11, <1>12 DEF NtpIInv, NtpShape
<1>14. \A j \in 1 .. Len(history') : Accurate(history[j])'
  BY <1>1, <1>6 DEF Accurate
<1>15. ntp_running \/ call # Idle
  BY <1>1 DEF NtpIInv
<1>16. call.do # "start"
  BY <1>1 DEF NtpIInv
<1> QED
  BY <1>1, <1>t, <1>9, <1>10, <1>13, <1>14, <1>15, <1>16, SendersAre DEF NtpIInv, Accurate

NtpSteps == NtpNext \/ ntp_stop \/ \E s \in Senders : ntp_start(s)

LEMMA StopKeeps ==
  ASSUME NtpIInv, NEW then \in {[do |-> "stop", to |-> NoSender]} \cup [do : {"switch"}, to : Senders],
         StopNtp(then)
  PROVE  NtpIInv'
<1>1. call = Idle /\ UNCHANGED <<remote, ntp_task, response, history, ntp_offset, ntp_locked>>
  BY DEF StopNtp
<1>2. then \in Calls /\ then # Idle /\ then.do # "start"
  BY DEF Calls, Idle
<1>3. CASE ntp_running
  <2>1. ntp_running' = FALSE /\ call' = then
    BY <1>3 DEF StopNtp
  <2>2. ntp_running' \in BOOLEAN /\ ~ntp_running'
    BY <2>1, Zenon
  <2> QED
    BY <1>1, <1>2, <2>1, <2>2 DEF NtpIInv, NtpShape, Accurate
<1>4. CASE ~ntp_running
  <2>1. ntp_running' = ntp_running /\ call' = call
    BY <1>4 DEF StopNtp
  <2> QED
    BY <1>1, <2>1 DEF NtpIInv, NtpShape, Accurate
<1> QED
  BY <1>3, <1>4

LEMMA NtpStep == ASSUME NtpIInv, NtpSteps PROVE NtpIInv'
<1>t. /\ call \in Calls /\ remote \in Senders \cup {NoSender} /\ ntp_running \in BOOLEAN
      /\ history \in Seq(Measurements)
  BY DEF NtpIInv, NtpShape
<1>e. << >> \in Seq(Measurements) /\ Len(<< >>) = 0 /\ 0 <= TIMING_HISTORY_SIZE
  BY HistoryAssumption
<1>1. CASE Respond
  <2>1. /\ ntp_task = "receive" /\ ntp_running /\ ntp_task' = "store"
        /\ UNCHANGED <<ntp_running, remote, history, ntp_offset, ntp_locked, call>>
    BY <1>1 DEF Respond
  <2>2. PICK d \in Dispersions, e \in Int :
          /\ e = d \/ e = -d
          /\ response' = [offset |-> Clock[remote] + e, dispersion |-> d]
    BY <1>1, SendersAre DEF Respond
  <2>3. remote \in Senders
    BY <2>1, <1>t DEF NtpIInv
  <2>4. Clock[remote] \in Int /\ d \in Nat
    BY <2>3, SendersAre
  <2>5. response' \in Measurements /\ response'.offset = Clock[remote] + e /\ response'.dispersion = d
    BY <2>2, <2>4 DEF Measurements
  <2>6. Distance(response'.offset, Clock[remote]) <= response'.dispersion
    BY <2>2, <2>4, <2>5 DEF Distance
  <2> QED
    BY <2>1, <2>3, <2>5, <2>6, SendersAre DEF NtpIInv, NtpShape, Accurate
<1>2. CASE process_timing_response
  BY <1>2, StoreKeeps
<1>3. CASE NtpTaskEnds
  BY <1>3 DEF NtpTaskEnds, NtpIInv, NtpShape, Accurate
<1>4. CASE Stopped
  <2>1. /\ call.do \in {"stop", "switch"} /\ ntp_task = "none" /\ ntp_locked' = FALSE /\ history' = << >>
        /\ UNCHANGED <<ntp_running, remote, ntp_task, response, ntp_offset>>
    BY <1>4 DEF Stopped
  <2>2. ~ntp_locked' /\ ntp_locked' \in BOOLEAN
    BY <2>1, Zenon
  <2>3. call' \in Calls
    <3>1. CASE call.do = "stop"
      BY <1>4, <3>1 DEF Stopped, Calls
    <3>2. CASE call.do = "switch"
      <4>1. call' = [call EXCEPT !.do = "start"] /\ call = [do |-> "switch", to |-> call.to] /\ call.to \in Senders
        BY <1>4, <1>t, <3>2, CallsAre DEF Stopped
      <4>2. call' = [do |-> "start", to |-> call.to]
        BY <4>1
      <4> QED
        BY <4>1, <4>2 DEF Calls
    <3> QED
      BY <2>1, <3>1, <3>2
  <2>4. ~ntp_running
    BY <2>1 DEF NtpIInv, Idle
  <2> QED
    BY <1>e, <2>1, <2>2, <2>3, <2>4 DEF NtpIInv, NtpShape
<1>5. CASE Started
  <2>1. /\ call.do = "start" /\ remote' = call.to /\ ntp_running' = TRUE /\ ntp_task' = "receive"
        /\ call' = Idle /\ ntp_locked' = FALSE /\ ntp_offset' = 0 /\ history' = << >> /\ response' = response
    BY <1>5 DEF Started
  <2>2. ~ntp_locked' /\ ntp_locked' \in BOOLEAN /\ ntp_running' /\ ntp_running' \in BOOLEAN
    BY <2>1, Zenon
  <2>3. remote' \in Senders
    BY <1>t, <2>1, CallsAre
  <2>4. call' \in Calls /\ call'.do # "start"
    BY <2>1 DEF Calls, Idle
  <2> QED
    BY <1>e, <2>1, <2>2, <2>3, <2>4, SendersAre DEF NtpIInv, NtpShape
<1>6. CASE ntp_stop
  BY <1>6, StopKeeps DEF ntp_stop
<1>7. CASE \E s \in Senders : ntp_start(s)
  <2>1. PICK s \in Senders : ntp_start(s)
    BY <1>7
  <2>2. CASE ntp_running /\ remote = s
    BY <2>1, <2>2 DEF ntp_start, ntp, NtpIInv, NtpShape, Accurate
  <2>3. CASE ntp_running /\ remote # s
    <3>1. StopNtp([do |-> "switch", to |-> s])
      BY <2>1, <2>3 DEF ntp_start
    <3> QED
      BY <3>1, StopKeeps
  <2>4. CASE ~ntp_running
    <3>1. /\ call = Idle /\ call' = [do |-> "start", to |-> s]
          /\ UNCHANGED <<ntp_running, remote, ntp_task, response, history, ntp_offset, ntp_locked>>
      BY <2>1, <2>4 DEF ntp_start
    <3>2. call' \in Calls /\ call' # Idle
      BY <3>1 DEF Calls, Idle
    <3> QED
      BY <2>4, <3>1, <3>2 DEF NtpIInv, NtpShape, Accurate
  <2> QED
    BY <2>2, <2>3, <2>4
<1> QED
  BY <1>1, <1>2, <1>3, <1>4, <1>5, <1>6, <1>7 DEF NtpSteps, NtpNext

-----------------------------------------------------------------------------
(* The sessions.  Only one of AirPlay 1 has a timing client, and when its   *)
(* connection is freed the client has ended.                                *)
NoClient == ~ntp_running /\ call = Idle
SessionIInv ==
  /\ session \in {"none", "1", "2"} /\ rtsp \in {"ready", "setup", "closing", "free"}
  /\ requests \in 0 .. MaxRequests
  /\ session # "1" => NoClient
  /\ rtsp = "setup" => session = "1"
  /\ rtsp = "closing" => ~ntp_running /\ call.do \in {"nothing", "stop"}
  /\ rtsp = "free" => NoClient

IInv == PtpIInv /\ NtpIInv /\ SessionIInv

LEMMA PtpRests == ASSUME PtpIInv, UNCHANGED ptp PROVE PtpIInv'
BY DEF ptp, PtpIInv, PtpTypeOK, Overtaken, Of, Tracks

LEMMA NtpRests == ASSUME NtpIInv, UNCHANGED ntp PROVE NtpIInv'
BY DEF ntp, NtpIInv, NtpShape, Accurate

LEMMA IdleIs == Idle.do = "nothing"
BY DEF Idle

(* A client that is not there does nothing. *)
LEMMA NoClientRests == ASSUME NtpIInv, NoClient, NtpNext PROVE FALSE
<1>1. ~ntp_running /\ ntp_task = "none" /\ call.do = "nothing"
  BY IdleIs DEF NtpIInv, NoClient
<1> QED
  BY <1>1 DEF NtpNext, Respond, process_timing_response, NtpTaskEnds, Stopped, Started

LEMMA RequestIs ==
  ASSUME SessionIInv, Request
  PROVE  rtsp = "ready" /\ call = Idle /\ requests' \in 0 .. MaxRequests
BY RequestsAssumption DEF SessionIInv, Request

(* ntp_stop, of a client or of none. *)
LEMMA StopIs ==
  ASSUME ntp_stop
  PROVE  /\ ~ntp_running' /\ call'.do \in {"nothing", "stop"}
         /\ NoClient => NoClient'
<1>1. call = Idle /\ call.do = "nothing"
  BY IdleIs DEF ntp_stop, StopNtp
<1>2. CASE ntp_running
  BY <1>2 DEF ntp_stop, StopNtp, NoClient
<1>3. CASE ~ntp_running
  BY <1>1, <1>3 DEF ntp_stop, StopNtp, NoClient
<1> QED
  BY <1>2, <1>3

LEMMA IInvKept == ASSUME IInv, [Next]_vars PROVE IInv'
<1>i. PtpIInv /\ NtpIInv /\ SessionIInv
  BY DEF IInv
<1>r. requests \in 0 .. MaxRequests
  BY <1>i DEF SessionIInv
<1>0. CASE UNCHANGED vars
  BY <1>0, <1>i, PtpRests, NtpRests DEF vars, ntp, IInv, SessionIInv, NoClient
<1>1. CASE PtpNext /\ UNCHANGED << ntp, session, rtsp, requests >>
  BY <1>1, <1>i, PtpStep, NtpRests DEF PtpSteps, ntp, IInv, SessionIInv, NoClient
<1>2. CASE NtpNext /\ UNCHANGED << ptp, session, rtsp, requests >>
  <2>1. PtpIInv' /\ NtpIInv' /\ ~NoClient
    BY <1>2, <1>i, PtpRests, NtpStep, NoClientRests DEF NtpSteps
  <2>2. rtsp = "closing" => ~ntp_running' /\ call'.do \in {"nothing", "stop"}
    BY <1>2, <1>i, IdleIs DEF SessionIInv, NtpNext, Respond, process_timing_response, NtpTaskEnds, Stopped, Started
  <2> QED
    BY <1>2, <1>i, <2>1, <2>2 DEF IInv, SessionIInv
<1>3. ASSUME NEW s \in Senders, Setup1(s) PROVE IInv'
  <2>1. PtpIInv' /\ NtpIInv'
    BY <1>3, <1>i, PtpRests, NtpStep DEF Setup1, NtpSteps
  <2>2. session' = "1" /\ rtsp' = "setup" /\ requests' \in 0 .. MaxRequests
    BY <1>3, <1>i, RequestIs DEF Setup1
  <2> QED
    BY <2>1, <2>2 DEF IInv, SessionIInv
<1>4. CASE Setup1Done
  <2>1. PtpIInv' /\ NtpIInv'
    BY <1>4, <1>i, PtpStep, NtpRests DEF Setup1Done, PtpSteps
  <2> QED
    BY <1>4, <1>i, <2>1 DEF Setup1Done, ntp, IInv, SessionIInv, NoClient
<1>5. ASSUME NEW m \in Masters, Anchor2(m) PROVE IInv'
  <2>1. PtpIInv' /\ NtpIInv'
    BY <1>5, <1>i, PtpStep, NtpRests DEF Anchor2, PtpSteps
  <2>2. /\ rtsp = "ready" /\ rtsp' = rtsp /\ requests' \in 0 .. MaxRequests
        /\ session \in {"none", "2"} /\ session' = "2" /\ UNCHANGED ntp
    BY <1>5, <1>i, RequestIs DEF Anchor2
  <2> QED
    BY <1>i, <2>1, <2>2 DEF ntp, IInv, SessionIInv, NoClient
<1>6. CASE Resume
  <2>1. PtpIInv' /\ NtpIInv'
    BY <1>6, <1>i, PtpStep, NtpRests DEF Resume, PtpSteps
  <2>2. requests' \in 0 .. MaxRequests /\ UNCHANGED << ntp, rtsp, session >>
    BY <1>6, <1>i, RequestIs DEF Resume
  <2> QED
    BY <1>i, <2>1, <2>2 DEF ntp, IInv, SessionIInv, NoClient
<1>7. ASSUME NEW streams \in BOOLEAN, Teardown(streams) PROVE IInv'
  <2>1. /\ rtsp = "ready" /\ requests' \in 0 .. MaxRequests /\ UNCHANGED << session, rtsp >>
        /\ clear /\ (UNCHANGED ntp \/ ntp_stop)
    BY <1>7, <1>i, RequestIs DEF Teardown
  <2>2. PtpIInv' /\ NtpIInv'
    BY <1>i, <2>1, PtpStep, NtpStep, NtpRests DEF PtpSteps, NtpSteps
  <2>3. NoClient => NoClient'
    BY <2>1, StopIs DEF ntp, NoClient
  <2> QED
    BY <1>i, <2>1, <2>2, <2>3 DEF IInv, SessionIInv
<1>8. CASE Disconnect
  <2>1. /\ requests' \in 0 .. MaxRequests /\ ntp_stop /\ rtsp' = "closing" /\ UNCHANGED << ptp, session >>
    BY <1>8, <1>i, RequestIs DEF Disconnect
  <2>2. PtpIInv' /\ NtpIInv'
    BY <1>i, <2>1, PtpRests, NtpStep DEF NtpSteps
  <2> QED
    BY <1>i, <2>1, <2>2, StopIs DEF IInv, SessionIInv
<1>9. CASE Closed
  <2>1. PtpIInv' /\ NtpIInv'
    BY <1>9, <1>i, PtpStep, NtpRests DEF Closed, PtpSteps
  <2> QED
    BY <1>9, <1>i, <2>1 DEF Closed, ntp, IInv, SessionIInv, NoClient
<1>10. CASE Freed
  <2>1. PtpIInv' /\ NtpIInv'
    BY <1>10, <1>i, PtpStep, NtpRests DEF Freed, PtpSteps
  <2> QED
    BY <1>10, <1>i, <2>1 DEF Freed, ntp, IInv, SessionIInv, NoClient
<1> QED
  BY <1>0, <1>1, <1>2, <1>3, <1>4, <1>5, <1>6, <1>7, <1>8, <1>9, <1>10 DEF Next, RtspTask

LEMMA IInvStarts == ASSUME ClocksInit PROVE IInv
<1>1. PtpIInv
  <2>1. running \in BOOLEAN /\ first \in BOOLEAN /\ locked \in BOOLEAN /\ awaiting \in BOOLEAN /\ first /\ ~locked
    BY Zenon DEF ClocksInit, PtpInit
  <2>2. PtpTypeOK
    BY <2>1, SmoothingAssumption
       DEF ClocksInit, PtpInit, PtpTypeOK, NoCandidate, LOCK_STABLE_TIME, LOCK_TIMEOUT, STARTUP_DURATION
  <2> QED
    BY <2>1, <2>2, MastersAre DEF ClocksInit, PtpInit, PtpIInv
<1>2. NtpIInv
  <2>1. ntp_running \in BOOLEAN /\ ntp_locked \in BOOLEAN /\ ~ntp_running /\ ~ntp_locked
    BY Zenon DEF ClocksInit, NtpInit
  <2>2. /\ history = << >> /\ history \in Seq(Measurements) /\ Len(history) = 0
        /\ Len(history) <= TIMING_HISTORY_SIZE
    BY HistoryAssumption DEF ClocksInit, NtpInit
  <2>3. /\ call \in Calls /\ call.do # "start" /\ response \in Measurements /\ remote = NoSender
        /\ ntp_task = "none" /\ ntp_offset = 0
    BY DEF ClocksInit, NtpInit, Calls, Idle, NoResponse, Measurements
  <2> QED
    BY <2>1, <2>2, <2>3 DEF NtpIInv, NtpShape
<1>3. SessionIInv
  <2>1. ~ntp_running /\ call = Idle
    BY Zenon DEF ClocksInit, NtpInit
  <2> QED
    BY <2>1, RequestsAssumption DEF ClocksInit, SessionIInv, NoClient
<1> QED
  BY <1>1, <1>2, <1>3 DEF IInv

(* The invariant holds in every reachable state. *)
THEOREM Invariance == Spec => []IInv
<1>1. ClocksInit => IInv
  BY IInvStarts
<1>2. IInv /\ [Next]_vars => IInv'
  BY IInvKept
<1> QED
  BY <1>1, <1>2, PTL DEF Spec

(* A PTP clock that says it is locked tells the time of the master that the *)
(* session's anchor names, to within the delays of its messages: whatever   *)
(* other masters send, and though update_offset may apply a message that    *)
(* was accepted before ptp_clock_set_master_clock_id.                       *)
THEOREM LockTellsItsMaster == Spec => []LockedIsRight
<1>1. IInv => LockedIsRight
  BY DEF IInv, PtpIInv, LockedIsRight
<1> QED
  BY <1>1, Invariance, PTL

(* An NTP clock that says it is locked is wrong by no more than half of the *)
(* shortest round trip among its last measurements, all of them its present *)
(* sender's (ntp_clock.c), and it never times an AirPlay 2 session.         *)
THEOREM ClocksKeepToTheirOwn == Spec => []ClocksInv
<1>1. ASSUME IInv PROVE ClocksInv
  <2>1. PtpTypeOK
    BY <1>1 DEF IInv, PtpIInv
  <2>2. NtpShape
    BY <1>1 DEF IInv, NtpIInv
  <2>3. NtpTypeOK
    BY <2>2, CallsAre DEF NtpShape, NtpTypeOK
  <2>4. NtpAccurate
    BY <1>1, <2>2 DEF IInv, NtpIInv, NtpShape, NtpAccurate
  <2>5. session = "2" => ~ntp_locked
    BY <1>1 DEF IInv, NtpIInv, SessionIInv, NoClient
  <2>6. NoForeignClock
    BY <2>5, Zenon DEF NoForeignClock, SyncMode
  <2> QED
    BY <1>1, <2>1, <2>3, <2>4, <2>6 DEF IInv, SessionIInv, ClocksTypeOK, ClocksInv
<1> QED
  BY <1>1, Invariance, PTL
============================================================================
