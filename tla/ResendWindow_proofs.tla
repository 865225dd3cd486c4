------------------------ MODULE ResendWindow_proofs ------------------------
(***************************************************************************)
(* For every number space, window, and sequence of packets within half of  *)
(* the number space: what the mask calls missing is missing, and no packet *)
(* is accepted twice between two resets.                                   *)
(***************************************************************************)
EXTENDS ResendWindow, FiniteSetTheorems, WellFoundedInduction, TLAPS

-----------------------------------------------------------------------------
(* Arithmetic of the sequence numbers. *)

(* What the assumptions on the constants say of their sizes. *)
LEMMA Sizes ==
  /\ SeqMod \in Nat \ {0} /\ FirstSeq \in Seqs /\ FirstSeq \in Int
  /\ Window \in Nat \ {0} /\ Packets \in Nat
  /\ 2 * Packets < SeqMod /\ 2 * Window <= SeqMod
BY WindowAssumption DEF Seqs

(* Whole turns of the number space make no difference. *)
LEMMA ModTurns ==
  ASSUME NEW r \in Seqs, NEW q \in Int
  PROVE  (SeqMod * q + r) % SeqMod = r
BY Sizes DEF Seqs

(* An integer is a number of turns and a number of the space. *)
LEMMA ModSplit ==
  ASSUME NEW x \in Int
  PROVE  /\ x % SeqMod \in Seqs
         /\ \E q \in Int : x = SeqMod * q + (x % SeqMod)
<1>1. x = SeqMod * (x \div SeqMod) + (x % SeqMod) /\ x \div SeqMod \in Int
      /\ x % SeqMod \in 0 .. SeqMod - 1
  BY Sizes
<1> QED
  BY <1>1 DEF Seqs

(* Two integers with the same remainder are whole turns apart. *)
LEMMA ModSame ==
  ASSUME NEW x \in Int, NEW y \in Int, NEW q \in Int, x = y + SeqMod * q
  PROVE  x % SeqMod = y % SeqMod
<1>1. PICK p \in Int : y = SeqMod * p + (y % SeqMod)
  BY ModSplit
<1> DEFINE r == y % SeqMod
<1>2. r \in Seqs /\ r \in Int /\ SeqMod \in Int
  BY ModSplit, Sizes DEF Seqs
<1> HIDE DEF r
<1>3. x = SeqMod * (p + q) + r
  BY <1>1, <1>2 DEF r
<1>4. x % SeqMod = r
  <2>1. p + q \in Int
    OBVIOUS
  <2> QED
    BY <1>2, <1>3, <2>1, ModTurns
<1> QED
  BY <1>4 DEF r

(* A reduction inside a sum can be left out. *)
LEMMA ModSum ==
  ASSUME NEW x \in Int, NEW y \in Int
  PROVE  /\ ((x % SeqMod) + y) % SeqMod = (x + y) % SeqMod
         /\ (y - (x % SeqMod)) % SeqMod = (y - x) % SeqMod
<1>1. PICK q \in Int : x = SeqMod * q + (x % SeqMod)
  BY ModSplit
<1> DEFINE r == x % SeqMod
<1>2. r \in Int /\ SeqMod \in Int
  BY ModSplit, Sizes DEF Seqs
<1> HIDE DEF r
<1>3. x = SeqMod * q + r
  BY <1>1 DEF r
<1>4. x + y = (r + y) + SeqMod * q /\ y - r = (y - x) + SeqMod * q
  BY <1>2, <1>3
<1>5. x + y \in Int /\ r + y \in Int /\ y - r \in Int /\ y - x \in Int
  BY <1>2
<1>6. (x + y) % SeqMod = (r + y) % SeqMod /\ (y - r) % SeqMod = (y - x) % SeqMod
  BY <1>4, <1>5, ModSame
<1> QED
  BY <1>6 DEF r

(* Within less than one turn a remainder determines the number. *)
LEMMA ModInjective ==
  ASSUME NEW x \in Int, NEW y \in Int, x % SeqMod = y % SeqMod,
         x - y < SeqMod, y - x < SeqMod
  PROVE  x = y
<1>1. PICK p \in Int : x = SeqMod * p + (x % SeqMod)
  BY ModSplit
<1>2. PICK q \in Int : y = SeqMod * q + (y % SeqMod)
  BY ModSplit
<1> DEFINE r == x % SeqMod
<1>3. r \in Int /\ SeqMod \in Nat \ {0}
  BY ModSplit, Sizes DEF Seqs
<1> HIDE DEF r
<1>4. x = SeqMod * p + r /\ y = SeqMod * q + r
  BY <1>1, <1>2 DEF r
<1>5. p - q >= 1 => SeqMod * (p - q) >= SeqMod
  BY <1>3
<1>6. q - p >= 1 => SeqMod * (q - p) >= SeqMod
  BY <1>3
<1>7. x - y = SeqMod * (p - q) /\ y - x = SeqMod * (q - p)
  BY <1>3, <1>4
<1>8. p = q
  BY <1>5, <1>6, <1>7, <1>3
<1> QED
  BY <1>4, <1>8

(* The cast to int16_t gives back a difference of less than half a turn. *)
LEMMA SignedIs ==
  ASSUME NEW x \in Int, NEW d \in Int, x % SeqMod = d % SeqMod,
         2 * d < SeqMod, -SeqMod < 2 * d
  PROVE  Signed(x) = d
<1>1. CASE d >= 0
  <2>1. d % SeqMod = d
    BY <1>1, Sizes
  <2> QED
    BY <2>1, Sizes DEF Signed
<1>2. CASE d < 0
  <2>1. d % SeqMod = (d + SeqMod) % SeqMod
    <3> DEFINE e == d + SeqMod
    <3>1. e \in Int /\ e = d + SeqMod * 1
      BY Sizes
    <3> HIDE DEF e
    <3>2. e % SeqMod = d % SeqMod
      BY <3>1, ModSame
    <3> QED
      BY <3>2 DEF e
  <2>2. (d + SeqMod) % SeqMod = d + SeqMod
    BY <1>2, Sizes
  <2> QED
    BY <1>2, <2>1, <2>2, Sizes DEF Signed
<1> QED
  BY <1>1, <1>2

(* Numbers of packets: of the one k after another, of two of them, and of  *)
(* the same one.                                                           *)
LEMMA SeqOfFacts ==
  ASSUME NEW a \in Int, NEW b \in Int
  PROVE  /\ SeqOf(a) \in Seqs /\ SeqOf(a) \in Int
         /\ (SeqOf(a) + b) % SeqMod = SeqOf(a + b)
         /\ (SeqOf(a) - SeqOf(b)) % SeqMod = (a - b) % SeqMod
         /\ SeqOf(a) = SeqOf(b) /\ a - b < SeqMod /\ b - a < SeqMod => a = b
<1> DEFINE x == FirstSeq + a
           y == FirstSeq + b
<1>1. x \in Int /\ y \in Int /\ FirstSeq \in Int
  BY Sizes
<1>2. SeqOf(a) = x % SeqMod /\ SeqOf(b) = y % SeqMod
  BY DEF SeqOf
<1>3. SeqOf(a) \in Seqs /\ SeqOf(a) \in Int
  <2>1. x % SeqMod \in Seqs
    BY <1>1, ModSplit
  <2> QED
    BY <1>2, <2>1, Sizes DEF Seqs
<1>4. (SeqOf(a) + b) % SeqMod = SeqOf(a + b)
  <2>1. ((x % SeqMod) + b) % SeqMod = (x + b) % SeqMod
    BY <1>1, ModSum
  <2>2. x + b = FirstSeq + (a + b)
    BY <1>1
  <2> QED
    BY <2>1, <2>2, <1>2 DEF SeqOf
<1>5. (SeqOf(a) - SeqOf(b)) % SeqMod = (a - b) % SeqMod
  <2>1. (SeqOf(a) - (y % SeqMod)) % SeqMod = (SeqOf(a) - y) % SeqMod
    BY <1>1, <1>3, ModSum
  <2>2. ((x % SeqMod) + (-y)) % SeqMod = (x + (-y)) % SeqMod
    BY <1>1, ModSum, -y \in Int
  <2>3. SeqOf(a) - y = (x % SeqMod) + (-y) /\ x + (-y) = a - b
    BY <1>1, <1>2, <1>3
  <2> QED
    BY <2>1, <2>2, <2>3, <1>2
<1>6. ASSUME SeqOf(a) = SeqOf(b), a - b < SeqMod, b - a < SeqMod PROVE a = b
  <2>1. x % SeqMod = y % SeqMod /\ x - y < SeqMod /\ y - x < SeqMod
    BY <1>1, <1>2, <1>6
  <2>2. x = y
    <3> HIDE DEF x, y
    <3> QED
      BY <1>1, <2>1, ModInjective
  <2> QED
    BY <1>1, <2>2
<1> QED
  BY <1>3, <1>4, <1>5, <1>6

-----------------------------------------------------------------------------
(* The inductive invariant: besides the types, there is a packet `last'    *)
(* whose number is the last one seen; nothing after it was accepted, and   *)
(* each bit of the mask stands for an earlier packet that was not.         *)
WindowType ==
  [first : Seqs, missing : SUBSET Offsets,
   request : 0 .. RetryAfter \cup {Never}, error : 0 .. Backoff \cup {Never}]
Idle(w) == w.missing = {} => w.request = Never

StandsFor(w, o, n) == SeqOf(n) = (w.first + o) % SeqMod
HolesBefore(w, last, accepted) ==
  \A o \in w.missing : \E n \in (0 .. last - 1) \ accepted : StandsFor(w, o, n)
SeenUpTo(last) ==
  /\ last_seq = SeqOf(last) /\ got \subseteq 0 .. last
  /\ HolesBefore(window, last, got)

IInv ==
  /\ TypeOK /\ window \in WindowType /\ ~twice
  /\ valid => \E last \in 0 .. sent - 1 : SeenUpTo(last)
  /\ ~valid => got = {} /\ window.missing = {}

-----------------------------------------------------------------------------
(* The operations on the window. *)

(* A set of offsets that is not empty has a lowest one (the loop of        *)
(* resend_slide_window ends at it).                                        *)
LEMMA LowestOffset ==
  ASSUME NEW w \in WindowType, w.missing # {}
  PROVE  Lowest(w) \in w.missing /\ \A p \in w.missing : Lowest(w) <= p
<1> DEFINE M == w.missing
           Below(o) == {p \in M : p <= o}
           B == {Below(o) : o \in M}
<1>1. M \subseteq Offsets /\ IsFiniteSet(Offsets) /\ M \subseteq Int
  <2>1. M \subseteq Offsets
    BY DEF WindowType
  <2>2. IsFiniteSet(0 .. Window - 1)
    BY Sizes, FS_Interval
  <2> QED
    BY <2>1, <2>2, Sizes DEF Offsets
<1>2. ASSUME NEW o \in M PROVE Below(o) \in FiniteSubsetsOf(Offsets)
  <2>1. Below(o) \subseteq Offsets
    BY <1>1
  <2> HIDE DEF Below
  <2> QED
    BY <1>1, <2>1, FS_Subset DEF FiniteSubsetsOf
<1>3. B \subseteq FiniteSubsetsOf(Offsets) /\ B # {}
  <2> HIDE DEF Below
  <2> QED
    BY <1>2
<1>4. PICK x \in B : \A y \in B : ~(<< y, x >> \in StrictSubsetOrdering(Offsets))
  <2> HIDE DEF B
  <2> QED
    BY <1>3, FS_StrictSubsetOrderingWellFounded, WFMin
<1>5. PICK o \in M : x = Below(o)
  BY <1>4
<1>6. ASSUME NEW p \in M PROVE o <= p
  <2>1. o \in Int /\ p \in Int
    BY <1>1
  <2>2. SUFFICES ASSUME p < o PROVE FALSE
    BY <2>1
  <2>3. Below(p) \subseteq Below(o) /\ Below(p) # Below(o)
    <3>1. o \in Below(o) /\ o \notin Below(p)
      BY <2>1, <2>2
    <3>2. \A q \in M : q \in Int /\ (q <= p => q <= o)
      BY <1>1, <2>1, <2>2
    <3> QED
      BY <3>1, <3>2
  <2>4. << Below(p), x >> \in StrictSubsetOrdering(Offsets)
    <3>1. Below(p) \subseteq Offsets /\ Below(o) \subseteq Offsets
      BY <1>1
    <3> HIDE DEF Below
    <3> QED
      BY <1>5, <2>3, <3>1 DEF StrictSubsetOrdering
  <2> QED
    BY <1>4, <2>4
<1>7. \E k \in M : \A p \in M : k <= p
  BY <1>6
<1> QED
  BY <1>7 DEF Lowest

(* resend_slide_window changes no number the window stands for. *)
LEMMA SlideKeeps ==
  ASSUME NEW w \in WindowType
  PROVE  /\ Slide(w) \in WindowType /\ Idle(Slide(w))
         /\ \A o \in Slide(w).missing : \E p \in w.missing :
              (Slide(w).first + o) % SeqMod = (w.first + p) % SeqMod
<1>1. CASE w.missing = {}
  BY <1>1 DEF Slide, WindowType, Idle
<1>2. CASE w.missing # {}
  <2> DEFINE k == Lowest(w)
             v == Slide(w)
  <2>1. k \in w.missing /\ \A p \in w.missing : k <= p
    BY <1>2, LowestOffset
  <2>2. /\ w.missing \subseteq 0 .. Window - 1 /\ w.first \in Int /\ k \in Int
        /\ \A p \in w.missing : p \in Int
    BY <2>1, Sizes DEF WindowType, Offsets, Seqs
  <2>3. /\ v = [w EXCEPT !.missing = {p - k : p \in w.missing}, !.first = (@ + k) % SeqMod]
        /\ v.missing = {p - k : p \in w.missing} /\ v.first = (w.first + k) % SeqMod
        /\ v.request = w.request /\ v.error = w.error
        /\ v = [first |-> v.first, missing |-> v.missing,
                request |-> v.request, error |-> v.error]
    BY <1>2 DEF Slide, ShiftBy, WindowType
  <2> HIDE DEF k, v
  <2>4. v.missing \subseteq Offsets
    BY <2>1, <2>2, <2>3, Sizes DEF Offsets
  <2>5. v.first \in Seqs
    BY <2>2, <2>3, ModSplit
  <2>6. v \in WindowType
    BY <2>3, <2>4, <2>5 DEF WindowType
  <2>7. Idle(v)
    BY <1>2, <2>3 DEF Idle
  <2>8. ASSUME NEW o \in v.missing
        PROVE  \E p \in w.missing : (v.first + o) % SeqMod = (w.first + p) % SeqMod
    <3>1. PICK p \in w.missing : o = p - k
      BY <2>3
    <3>2. p \in Int /\ o \in Int /\ w.first + k \in Int
      BY <2>2, <3>1
    <3>3. (v.first + o) % SeqMod = (w.first + k + o) % SeqMod
      BY <2>3, <3>2, ModSum
    <3>4. w.first + k + o = w.first + p
      BY <2>2, <3>1
    <3> QED
      BY <3>3, <3>4
  <2> QED
    BY <2>6, <2>7, <2>8 DEF v
<1> QED
  BY <1>1, <1>2

(* A request, and a retry, change only the times of the window, and bring  *)
(* back only packets that were sent (resend_request_range).                *)
LEMMA RequestsKeep ==
  ASSUME NEW w \in WindowType, NEW range, NEW r \in Requests(w, range), sent \in Nat
  PROVE  /\ r.window \in WindowType /\ r.again \subseteq 0 .. sent - 1
         /\ r.window.first = w.first /\ r.window.missing = w.missing
         /\ r = [window |-> r.window, again |-> r.again]
         /\ w.missing # {} => Idle(r.window)
<1> DEFINE failed == [w EXCEPT !.error = 0]
           asked == [w EXCEPT !.request = 0, !.error = Never]
<1>1. Answered(range) \subseteq 0 .. sent - 1
  BY DEF Answered
<1>2. /\ failed \in WindowType /\ asked \in WindowType
      /\ failed.first = w.first /\ failed.missing = w.missing
      /\ asked.first = w.first /\ asked.missing = w.missing
  <2>1. 0 \in 0 .. RetryAfter /\ 0 \in 0 .. Backoff
    BY WindowAssumption
  <2> QED
    BY <2>1 DEF WindowType
<1> HIDE DEF failed, asked
<1>3. \/ r = [window |-> w, again |-> {}]
      \/ r = [window |-> failed, again |-> {}]
      \/ r = [window |-> asked, again |-> {}]
      \/ r = [window |-> asked, again |-> Answered(range)]
  BY DEF Requests, failed, asked
<1> QED
  BY <1>1, <1>2, <1>3 DEF Idle

LEMMA RetriesKeep ==
  ASSUME NEW w \in WindowType, Idle(w), NEW r \in Retries(w), sent \in Nat
  PROVE  /\ r.window \in WindowType /\ Idle(r.window) /\ r.again \subseteq 0 .. sent - 1
         /\ r.window.first = w.first /\ r.window.missing = w.missing
         /\ r = [window |-> r.window, again |-> r.again]
<1>1. CASE Due(w)
  <2>1. r \in Requests(w, NextRange(w)) /\ w.missing # {}
    BY <1>1 DEF Retries, Due
  <2> QED
    BY <2>1, RequestsKeep
<1>2. CASE ~Due(w)
  <2>1. r = [window |-> w, again |-> {}]
    BY <1>2 DEF Retries
  <2> QED
    BY <2>1
<1> QED
  BY <1>1, <1>2

LEMMA RequestsThenRetriesKeep ==
  ASSUME NEW w \in WindowType, w.missing # {}, NEW range, sent \in Nat,
         NEW r \in RequestsThenRetries(w, range)
  PROVE  /\ r.window \in WindowType /\ Idle(r.window) /\ r.again \subseteq 0 .. sent - 1
         /\ r.window.first = w.first /\ r.window.missing = w.missing
<1>1. PICK p \in Requests(w, range) :
        \E q \in Retries(p.window) : r = [q EXCEPT !.again = @ \cup p.again]
  BY DEF RequestsThenRetries
<1>2. /\ p.window \in WindowType /\ p.again \subseteq 0 .. sent - 1 /\ Idle(p.window)
      /\ p.window.first = w.first /\ p.window.missing = w.missing
  BY RequestsKeep
<1>q. PICK q \in Retries(p.window) : r = [q EXCEPT !.again = @ \cup p.again]
  BY <1>1
<1>3. /\ q.window \in WindowType /\ Idle(q.window) /\ q.again \subseteq 0 .. sent - 1
      /\ q.window.first = p.window.first /\ q.window.missing = p.window.missing
      /\ q = [window |-> q.window, again |-> q.again]
  BY <1>2, RetriesKeep
<1>4. r.window = q.window /\ r.again = q.again \cup p.again
  BY <1>q, <1>3
<1> QED
  BY <1>2, <1>3, <1>4

(* A window whose bits stand for numbers of another one has no other holes. *)
LEMMA HolesKept ==
  ASSUME NEW v, NEW w, NEW last, NEW accepted, HolesBefore(w, last, accepted),
         \A o \in v.missing : \E p \in w.missing :
           (v.first + o) % SeqMod = (w.first + p) % SeqMod
  PROVE  HolesBefore(v, last, accepted)
BY DEF HolesBefore, StandsFor

(* resend_mark_received: the packet it finds missing is one that was sent   *)
(* before the last and never accepted, and its bit is cleared, no other.    *)
LEMMA MarkReceivedKeeps ==
  ASSUME NEW w \in WindowType, NEW last \in Numbers, NEW n \in Numbers, NEW accepted,
         HolesBefore(w, last, accepted), IsMissing(w, SeqOf(n))
  PROVE  /\ MarkReceived(w, SeqOf(n)) \in WindowType
         /\ Idle(MarkReceived(w, SeqOf(n)))
         /\ n \in (0 .. last - 1) \ accepted
         /\ HolesBefore(MarkReceived(w, SeqOf(n)), last, accepted \cup {n})
<1> DEFINE off == OffsetOf(w, SeqOf(n))
           v == [w EXCEPT !.missing = @ \ {off}]
<1>1. /\ w.missing \subseteq 0 .. Window - 1 /\ w.first \in Int
      /\ SeqOf(n) \in Int /\ n \in Int /\ last \in Int /\ last < Packets /\ n < Packets
      /\ 0 <= n /\ 0 <= last
  BY Sizes, SeqOfFacts DEF WindowType, Offsets, Seqs, Numbers
<1>2. off \in w.missing /\ off \in Int
  BY <1>1 DEF IsMissing
<1>3. SeqOf(n) = (w.first + off) % SeqMod
  <2>1. (SeqOf(n) - w.first) \in Int
    BY <1>1
  <2>2. (((SeqOf(n) - w.first) % SeqMod) + w.first) % SeqMod
          = ((SeqOf(n) - w.first) + w.first) % SeqMod
    BY <1>1, <2>1, ModSum
  <2>3. (SeqOf(n) - w.first) + w.first = SeqOf(n)
    BY <1>1
  <2>4. SeqOf(n) % SeqMod = SeqOf(n)
    <3>1. SeqOf(n) \in Seqs
      BY <1>1, SeqOfFacts
    <3> QED
      BY <3>1, Sizes DEF Seqs
  <2>5. off + w.first = w.first + off
    BY <1>1, <1>2
  <2> HIDE DEF off
  <2>6. off = (SeqOf(n) - w.first) % SeqMod
    BY DEF off, OffsetOf
  <2> QED
    BY <2>2, <2>3, <2>4, <2>5, <2>6
<1> HIDE DEF off
<1>4. /\ v \in WindowType /\ v.first = w.first /\ v.missing = w.missing \ {off}
  BY DEF WindowType
<1>5. /\ MarkReceived(w, SeqOf(n)) = Slide(v)
  BY DEF MarkReceived, off
<1> HIDE DEF v
<1>6. n \in (0 .. last - 1) \ accepted
  <2>1. PICK m \in (0 .. last - 1) \ accepted : StandsFor(w, off, m)
    BY <1>2 DEF HolesBefore
  <2>2. SeqOf(m) = SeqOf(n) /\ m \in Int /\ m < last /\ 0 <= m
    BY <1>1, <1>3, <2>1 DEF StandsFor
  <2>3. m = n
    <3>1. m - n < SeqMod /\ n - m < SeqMod
      BY <1>1, <2>2, Sizes
    <3> QED
      BY <1>1, <2>2, <3>1, SeqOfFacts
  <2> QED
    BY <2>1, <2>3
<1>7. HolesBefore(v, last, accepted \cup {n})
  <2> SUFFICES ASSUME NEW o \in v.missing
               PROVE  \E m \in (0 .. last - 1) \ (accepted \cup {n}) : StandsFor(v, o, m)
    BY DEF HolesBefore
  <2>1. o \in w.missing /\ o # off /\ o \in Int
    BY <1>1, <1>4
  <2>2. PICK m \in (0 .. last - 1) \ accepted : StandsFor(w, o, m)
    BY <2>1 DEF HolesBefore
  <2>3. m # n
    <3> SUFFICES ASSUME m = n PROVE FALSE
      OBVIOUS
    <3> DEFINE x == w.first + o
               y == w.first + off
    <3>1. x % SeqMod = y % SeqMod
      BY <1>3, <2>2 DEF StandsFor
    <3>2. x \in Int /\ y \in Int /\ x - y < SeqMod /\ y - x < SeqMod /\ x # y
      BY <1>1, <1>2, <2>1, Sizes
    <3> HIDE DEF x, y
    <3> QED
      BY <3>1, <3>2, ModInjective
  <2> QED
    BY <1>4, <2>2, <2>3 DEF StandsFor
<1>8. /\ Slide(v) \in WindowType /\ Idle(Slide(v))
      /\ HolesBefore(Slide(v), last, accepted \cup {n})
  BY <1>4, <1>7, SlideKeeps, HolesKept
<1> QED
  BY <1>5, <1>6, <1>8

(* resend_track_missing: the new bits stand for the numbers between the    *)
(* last one seen and the one that came, in either form of the window.      *)
LEMMA TrackMissingKeeps ==
  ASSUME NEW w \in WindowType, NEW last \in Int, NEW gap \in 1 .. Window
  PROVE  LET v == TrackMissing(w, SeqOf(last + 1), gap)
         IN  /\ v \in WindowType /\ v.missing # {}
             /\ \A o \in v.missing :
                  \/ \E p \in w.missing : (v.first + o) % SeqMod = (w.first + p) % SeqMod
                  \/ \E n \in last + 1 .. last + gap : StandsFor(v, o, n)
<1> DEFINE first == SeqOf(last + 1)
           off == OffsetOf(w, first)
           v == TrackMissing(w, first, gap)
<1>1. /\ w.missing \subseteq 0 .. Window - 1 /\ w.first \in Int /\ gap \in Int
      /\ last + 1 \in Int /\ first \in Seqs /\ first \in Int /\ 1 <= gap /\ gap <= Window
  <2>1. last + 1 \in Int
    OBVIOUS
  <2>2. first \in Seqs /\ first \in Int
    BY <2>1, SeqOfFacts
  <2> HIDE DEF first
  <2> QED
    BY <2>1, <2>2, Sizes DEF WindowType, Offsets, Seqs
<1>2. ASSUME NEW k \in 0 .. gap - 1
      PROVE  last + 1 + k \in last + 1 .. last + gap /\ (first + k) % SeqMod = SeqOf(last + 1 + k)
  <2>1. k \in Int
    BY <1>1
  <2>2. (SeqOf(last + 1) + k) % SeqMod = SeqOf(last + 1 + k)
    BY <1>1, <2>1, SeqOfFacts
  <2> QED
    BY <1>1, <2>1, <2>2
<1>3. CASE w.missing = {} \/ off + gap > Window
  <2>1. v = [w EXCEPT !.first = first, !.missing = 0 .. gap - 1]
    BY <1>3 DEF TrackMissing, NewWindow
  <2>2. 0 .. gap - 1 \subseteq Offsets /\ 0 \in 0 .. gap - 1
    BY <1>1, Sizes DEF Offsets
  <2>3. v \in WindowType /\ v.first = first /\ v.missing = 0 .. gap - 1
    <3> HIDE DEF v, first
    <3> QED
      BY <1>1, <2>1, <2>2 DEF WindowType
  <2>4. ASSUME NEW o \in v.missing
        PROVE  \E n \in last + 1 .. last + gap : StandsFor(v, o, n)
    <3>1. o \in 0 .. gap - 1
      BY <2>3
    <3> QED
      BY <1>2, <2>3, <3>1 DEF StandsFor
  <2> QED
    BY <2>2, <2>3, <2>4
<1>4. CASE ~(w.missing = {} \/ off + gap > Window)
  <2> DEFINE added == {off + k : k \in 0 .. gap - 1}
  <2>1. v = [w EXCEPT !.missing = @ \cup added]
    BY <1>4 DEF TrackMissing
  <2>2. off \in Seqs /\ off \in Int /\ 0 <= off /\ off + gap <= Window
    <3>1. first - w.first \in Int
      BY <1>1
    <3>2. off \in Seqs
      BY <3>1, ModSplit DEF OffsetOf
    <3> QED
      BY <1>1, <1>4, <3>2, Sizes DEF Seqs
  <2>3. added \subseteq Offsets
    <3> HIDE DEF off
    <3> QED
      BY <1>1, <2>2, Sizes DEF Offsets
  <2>4. v \in WindowType /\ v.first = w.first /\ v.missing = w.missing \cup added
    <3> HIDE DEF v, added
    <3> QED
      BY <2>1, <2>3 DEF WindowType
  <2>5. ASSUME NEW k \in 0 .. gap - 1
        PROVE  (w.first + (off + k)) % SeqMod = (first + k) % SeqMod
    <3>1. k \in Int /\ first - w.first \in Int /\ w.first + k \in Int
      BY <1>1
    <3>2. (((first - w.first) % SeqMod) + (w.first + k)) % SeqMod
            = ((first - w.first) + (w.first + k)) % SeqMod
      BY <3>1, ModSum
    <3>3. (first - w.first) + (w.first + k) = first + k
      BY <1>1, <3>1
    <3>4. off + (w.first + k) = w.first + (off + k)
      BY <1>1, <2>2, <3>1
    <3>5. off = (first - w.first) % SeqMod
      BY DEF OffsetOf
    <3> HIDE DEF off, first
    <3> QED
      BY <3>2, <3>3, <3>4, <3>5
  <2>6. ASSUME NEW o \in v.missing, o \notin w.missing
        PROVE  \E n \in last + 1 .. last + gap : StandsFor(v, o, n)
    <3>1. PICK k \in 0 .. gap - 1 : o = off + k
      BY <2>4, <2>6
    <3> QED
      BY <1>2, <2>4, <2>5, <3>1 DEF StandsFor
  <2>7. v.missing # {}
    BY <1>4, <2>4
  <2> QED
    BY <2>4, <2>6, <2>7
<1> QED
  BY <1>3, <1>4

-----------------------------------------------------------------------------
(* Each action keeps the invariant. *)

LEMMA InitIInv == Init => IInv
<1> SUFFICES ASSUME Init PROVE IInv
  OBVIOUS
<1>1. window \in WindowType
  BY Sizes DEF Init, EmptyWindow, WindowType, Offsets, Seqs
<1>2. /\ window.first = 0 /\ window.missing = {}
      /\ window.request = Never /\ window.error = Never
  BY DEF Init, EmptyWindow
<1>3. sent \in 0 .. Packets /\ last_seq \in Seqs /\ resets \in 0 .. MaxResets /\ 0 \in Seqs
  BY WindowAssumption, Sizes DEF Init, Seqs
<1> QED
  BY <1>1, <1>2, <1>3 DEF Init, IInv, TypeOK

(* What the invariant says, with the sizes the provers need. *)
LEMMA Known ==
  ASSUME IInv
  PROVE  /\ sent \in 0 .. Packets /\ sent \in Nat /\ 0 .. sent - 1 \subseteq Numbers
         /\ resends \subseteq Numbers /\ window \in WindowType /\ Idle(window)
         /\ valid \in BOOLEAN /\ enabled \in BOOLEAN /\ last_seq \in Seqs
         /\ got \subseteq Numbers /\ twice = FALSE /\ resets \in 0 .. MaxResets
BY Sizes DEF IInv, TypeOK, Idle, Numbers

(* After the packet's window has become v, a retry may follow. *)
LEMMA BecomesRetried ==
  ASSUME IInv, NEW v \in WindowType, Idle(v), NEW rest, rest \subseteq resends,
         Becomes(Retries(v), rest)
  PROVE  /\ window' \in WindowType /\ Idle(window') /\ resends' \subseteq Numbers
         /\ window'.first = v.first /\ window'.missing = v.missing
<1>1. PICK o \in Retries(v) : window' = o.window /\ resends' = rest \cup o.again
  BY DEF Becomes
<1>2. /\ o.window \in WindowType /\ Idle(o.window) /\ o.again \subseteq 0 .. sent - 1
      /\ o.window.first = v.first /\ o.window.missing = v.missing
  BY Known, RetriesKeep
<1> QED
  BY <1>1, <1>2, Known

(* The types of the next state, from those of its parts. *)
LEMMA TypesNext ==
  ASSUME IInv, window' \in WindowType, Idle(window'), resends' \subseteq Numbers,
         sent' = sent, enabled' \in BOOLEAN, resets' \in 0 .. MaxResets,
         valid' \in BOOLEAN, last_seq' \in Seqs, got' \subseteq Numbers, twice' = FALSE
  PROVE  TypeOK' /\ ~twice'
<1>1. /\ window'.first \in Seqs /\ window'.missing \subseteq Offsets
      /\ window'.request \in 0 .. RetryAfter \cup {Never}
      /\ window'.error \in 0 .. Backoff \cup {Never}
      /\ window'.missing = {} => window'.request = Never
  BY DEF WindowType, Idle
<1> QED
  BY <1>1 DEF IInv, TypeOK

(* The sender sends, time passes, the receiver times out. *)
LEMMA SendIInv == IInv /\ Send => IInv'
<1> SUFFICES ASSUME IInv, Send PROVE IInv'
  OBVIOUS
<1>1. sent' \in 0 .. Packets /\ sent \in Nat /\ sent' = sent + 1
  BY Known, Sizes DEF Send
<1>2. ASSUME NEW last \in 0 .. sent - 1, SeenUpTo(last)
      PROVE  last \in 0 .. sent' - 1 /\ SeenUpTo(last)'
  BY <1>1, <1>2 DEF Send, SeenUpTo, history, HolesBefore
<1> QED
  BY <1>1, <1>2 DEF Send, IInv, TypeOK, history

LEMMA TickIInv == IInv /\ Tick => IInv'
<1> SUFFICES ASSUME IInv, Tick PROVE IInv'
  OBVIOUS
<1> DEFINE q == Older(window.request, RetryAfter)
           e == Older(window.error, Backoff)
<1>1. /\ window.request \in 0 .. RetryAfter \cup {Never} /\ window.error \in 0 .. Backoff \cup {Never}
      /\ RetryAfter \in Nat /\ Backoff \in Nat
  BY Known, WindowAssumption DEF WindowType
<1>2. q \in 0 .. RetryAfter \cup {Never} /\ (window.request = Never => q = Never)
  BY <1>1 DEF Older, Waited
<1>3. e \in 0 .. Backoff \cup {Never}
  BY <1>1 DEF Older, Waited
<1>4. window' = [window EXCEPT !.request = q, !.error = e]
  BY DEF Tick
<1> HIDE DEF q, e
<1>5. /\ window' \in WindowType /\ window'.missing = window.missing
      /\ window'.first = window.first /\ window'.request = q
  BY <1>2, <1>3, <1>4, Known DEF WindowType
<1>6. Idle(window')
  BY <1>2, <1>5, Known DEF Idle
<1>7. TypeOK' /\ ~twice'
  BY <1>5, <1>6, Known, TypesNext DEF Tick, history
<1>8. ASSUME NEW last, SeenUpTo(last) PROVE SeenUpTo(last)'
  BY <1>5, <1>8 DEF SeenUpTo, HolesBefore, StandsFor, Tick, history
<1> QED
  BY <1>5, <1>7, <1>8 DEF IInv, Tick, history

LEMMA ReceiveTimeoutIInv == IInv /\ ReceiveTimeout => IInv'
<1> SUFFICES ASSUME IInv, ReceiveTimeout PROVE IInv'
  OBVIOUS
<1>1. /\ window' \in WindowType /\ Idle(window') /\ resends' \subseteq Numbers
      /\ window'.first = window.first /\ window'.missing = window.missing
  BY Known, BecomesRetried DEF ReceiveTimeout
<1>2. TypeOK' /\ ~twice'
  BY <1>1, Known, TypesNext DEF ReceiveTimeout, history
<1>3. ASSUME NEW last, SeenUpTo(last) PROVE SeenUpTo(last)'
  BY <1>1, <1>3 DEF SeenUpTo, HolesBefore, StandsFor, ReceiveTimeout, history
<1> QED
  BY <1>1, <1>2, <1>3 DEF IInv, ReceiveTimeout, history

(* The RTSP task resets the window. *)
LEMMA ResetIInv == IInv /\ Reset => IInv'
<1> SUFFICES ASSUME IInv, Reset PROVE IInv'
  OBVIOUS
<1>1. window' \in WindowType /\ window' = EmptyWindow
  BY Sizes DEF Reset, EmptyWindow, WindowType, Offsets, Seqs
<1>2. resets' \in 0 .. MaxResets
  BY WindowAssumption DEF IInv, TypeOK, Reset
<1>3. Idle(window')
  BY <1>1 DEF EmptyWindow, Idle
<1>4. TypeOK' /\ ~twice'
  BY <1>1, <1>2, <1>3, Known, TypesNext DEF Reset
<1> QED
  BY <1>1, <1>4 DEF IInv, Reset, EmptyWindow

(* The distance of a packet's number from the expected one is that of the   *)
(* packets.                                                                 *)
LEMMA AheadIs ==
  ASSUME NEW last \in Numbers, last_seq = SeqOf(last), NEW n \in Numbers
  PROVE  Ahead(SeqOf(n)) = n - (last + 1)
<1> DEFINE d == n - (last + 1)
           x == SeqOf(n) - (last_seq + 1)
<1>1. /\ n \in Int /\ last \in Int /\ d \in Int /\ 2 * d < SeqMod /\ -SeqMod < 2 * d
      /\ SeqOf(n) \in Int /\ SeqOf(last) \in Int /\ SeqOf(n) - SeqOf(last) \in Int
  <2>1. /\ n \in Int /\ last \in Int /\ 0 <= n /\ n < Packets /\ 0 <= last /\ last < Packets
    BY Sizes DEF Numbers
  <2>2. d \in Int /\ 2 * d < SeqMod /\ -SeqMod < 2 * d
    BY <2>1, Sizes
  <2>3. SeqOf(n) \in Int /\ SeqOf(last) \in Int
    BY <2>1, SeqOfFacts
  <2> QED
    BY <2>1, <2>2, <2>3
<1>2. x % SeqMod = d % SeqMod
  <2>1. (SeqOf(n) - SeqOf(last)) % SeqMod = (n - last) % SeqMod
    BY <1>1, SeqOfFacts
  <2>2. (((SeqOf(n) - SeqOf(last)) % SeqMod) + (-1)) % SeqMod
          = ((SeqOf(n) - SeqOf(last)) + (-1)) % SeqMod
    BY <1>1, ModSum, -1 \in Int
  <2>3. (((n - last) % SeqMod) + (-1)) % SeqMod = ((n - last) + (-1)) % SeqMod
    BY <1>1, ModSum, -1 \in Int, n - last \in Int
  <2>4. (SeqOf(n) - SeqOf(last)) + (-1) = x /\ (n - last) + (-1) = d
    BY <1>1
  <2> QED
    BY <2>1, <2>2, <2>3, <2>4
<1>3. x \in Int
  BY <1>1
<1> HIDE DEF d, x
<1>4. Signed(x) = d
  BY <1>1, <1>2, <1>3, SignedIs
<1> QED
  BY <1>4 DEF Ahead, d, x

(* After a packet n that is later than all before it, with window v: the    *)
(* invariant holds if what is missing in v comes before n.                  *)
LEMMA NewLast ==
  ASSUME IInv, NEW n \in 0 .. sent - 1, NEW v,
         sent' = sent, enabled' = enabled, resets' = resets,
         valid' = TRUE, last_seq' = SeqOf(n), Accept(n),
         window' \in WindowType, Idle(window'), resends' \subseteq Numbers,
         window'.first = v.first, window'.missing = v.missing,
         got \subseteq 0 .. n - 1, HolesBefore(v, n, got)
  PROVE  IInv'
<1>1. n \in Numbers /\ n \in Int /\ 0 <= n /\ n \notin 0 .. n - 1
  BY Known
<1>2. got' = got \cup {n} /\ twice' = FALSE
  <2>1. n \notin got
    BY <1>1
  <2> QED
    BY <2>1, Known DEF Accept
<1>3. TypeOK' /\ ~twice'
  <2>1. SeqOf(n) \in Seqs /\ got' \subseteq Numbers
    BY <1>1, <1>2, Known, SeqOfFacts
  <2> QED
    BY <1>2, <2>1, Known, TypesNext
<1>4. SeenUpTo(n)'
  <2>1. got' \subseteq 0 .. n
    <3>1. 0 .. n - 1 \subseteq 0 .. n /\ n \in 0 .. n
      BY <1>1
    <3> QED
      BY <1>2, <3>1
  <2>2. HolesBefore(window', n, got')
    BY <1>1, <1>2 DEF HolesBefore, StandsFor
  <2> QED
    BY <2>1, <2>2 DEF SeenUpTo
<1> QED
  BY <1>3, <1>4 DEF IInv

(* track_regular_rtp_sequence: the packet that is due, or the first one.    *)
LEMMA ReceiveNextIInv ==
  ASSUME IInv, NEW n \in Numbers, ReceiveNext(n)
  PROVE  IInv'
<1>1. n \in 0 .. sent - 1 /\ n \in Int
  BY Known DEF ReceiveNext, Numbers
<1>2. /\ window' \in WindowType /\ Idle(window') /\ resends' \subseteq Numbers
      /\ window'.first = window.first /\ window'.missing = window.missing
  BY Known, BecomesRetried DEF ReceiveNext
<1>3. got \subseteq 0 .. n - 1 /\ HolesBefore(window, n, got)
  <2>1. CASE ~valid
    BY <2>1 DEF IInv, HolesBefore
  <2>2. CASE valid
    <3>1. PICK last \in 0 .. sent - 1 : SeenUpTo(last)
      BY <2>2 DEF IInv
    <3>2. last \in Numbers /\ last \in Int
      BY Known
    <3>3. n - (last + 1) = 0
      BY <2>2, <3>1, <3>2, AheadIs DEF ReceiveNext, SeenUpTo
    <3>4. 0 .. last = 0 .. n - 1 /\ 0 .. last - 1 \subseteq 0 .. n - 1
      BY <1>1, <3>2, <3>3
    <3> QED
      BY <3>1, <3>4 DEF SeenUpTo, HolesBefore
  <2> QED
    BY <2>1, <2>2
<1> QED
  BY <1>1, <1>2, <1>3, NewLast DEF ReceiveNext

(* A packet with a gap before it: the gap's numbers become missing, or the  *)
(* gap is too large and nothing does.                                       *)
LEMMA ReceiveAheadIInv ==
  ASSUME IInv, NEW n \in Numbers, ReceiveAhead(n)
  PROVE  IInv'
<1>1. n \in 0 .. sent - 1 /\ n \in Int /\ valid
  BY Known DEF ReceiveAhead, Numbers
<1>2. PICK last \in 0 .. sent - 1 : SeenUpTo(last)
  BY <1>1 DEF IInv
<1> DEFINE gap == Ahead(SeqOf(n))
           expected == (last_seq + 1) % SeqMod
           v == TrackMissing(window, expected, gap)
           range == {(expected + k) % SeqMod : k \in 0 .. gap - 1}
<1>3. last \in Numbers /\ last \in Int /\ gap = n - (last + 1) /\ gap > 0
  <2>1. last \in Numbers /\ last \in Int
    BY Known
  <2> QED
    BY <1>2, <2>1, AheadIs DEF ReceiveAhead, SeenUpTo
<1>4. expected = SeqOf(last + 1)
  BY <1>2, <1>3, SeqOfFacts DEF SeenUpTo
<1>5. /\ got \subseteq 0 .. n - 1 /\ 0 .. last \subseteq 0 .. n - 1
      /\ \A m \in last + 1 .. last + gap : m \in (0 .. n - 1) \ got
  <2>1. 0 <= last /\ last < n
    BY <1>1, <1>3
  <2>2. 0 .. last \subseteq 0 .. n - 1
    BY <1>1, <1>3, <2>1
  <2>3. ASSUME NEW m \in last + 1 .. last + gap PROVE m \in 0 .. n - 1 /\ m \notin 0 .. last
    BY <1>1, <1>3, <2>1
  <2> QED
    BY <1>2, <2>2, <2>3 DEF SeenUpTo
<1>6. HolesBefore(window, n, got)
  <2>1. 0 .. last - 1 \subseteq 0 .. last
    BY <1>3
  <2> QED
    BY <1>2, <1>5, <2>1 DEF SeenUpTo, HolesBefore
<1>7. CASE gap <= Window
  <2>1. gap \in 1 .. Window
    BY <1>1, <1>3, <1>7, Sizes
  <2>2. /\ v \in WindowType /\ v.missing # {}
        /\ \A o \in v.missing :
             \/ \E p \in window.missing :
                  (v.first + o) % SeqMod = (window.first + p) % SeqMod
             \/ \E m \in last + 1 .. last + gap : StandsFor(v, o, m)
    <3> HIDE DEF gap
    <3> QED
      BY <1>3, <1>4, <2>1, Known, TrackMissingKeeps
  <2> HIDE DEF v, gap, expected
  <2>3. HolesBefore(v, n, got)
    BY <1>5, <1>6, <2>2 DEF HolesBefore, StandsFor
  <2>4. Becomes(RequestsThenRetries(v, range), resends)
    BY <1>7 DEF ReceiveAhead, v, gap, expected
  <2> HIDE DEF range
  <2>5. PICK o \in RequestsThenRetries(v, range) :
          window' = o.window /\ resends' = resends \cup o.again
    BY <2>4 DEF Becomes
  <2>6. /\ o.window \in WindowType /\ Idle(o.window) /\ o.again \subseteq 0 .. sent - 1
        /\ o.window.first = v.first /\ o.window.missing = v.missing
    BY <2>2, Known, RequestsThenRetriesKeep
  <2>7. /\ window' \in WindowType /\ Idle(window') /\ resends' \subseteq Numbers
        /\ window'.first = v.first /\ window'.missing = v.missing
    BY <2>5, <2>6, Known
  <2> QED
    BY <1>1, <1>5, <2>3, <2>7, NewLast DEF ReceiveAhead
<1>8. CASE ~(gap <= Window)
  <2>1. Becomes(Retries(window), resends)
    BY <1>8 DEF ReceiveAhead
  <2>2. /\ window' \in WindowType /\ Idle(window') /\ resends' \subseteq Numbers
        /\ window'.first = window.first /\ window'.missing = window.missing
    BY <2>1, Known, BecomesRetried
  <2> QED
    BY <1>1, <1>5, <1>6, <2>2, NewLast DEF ReceiveAhead
<1> QED
  BY <1>7, <1>8

(* A packet of the window's, late or sent again: it was never accepted, and *)
(* its bit goes.                                                            *)
LEMMA FilledIInv ==
  ASSUME IInv, NEW n \in Numbers, NEW rest, rest \subseteq resends,
         IsMissing(window, SeqOf(n)), Accept(n),
         Becomes(Retries(MarkReceived(window, SeqOf(n))), rest),
         UNCHANGED << sent, valid, last_seq, enabled, resets >>
  PROVE  IInv'
<1> DEFINE v == MarkReceived(window, SeqOf(n))
<1>1. window.missing # {}
  BY DEF IsMissing
<1>2. valid
  BY <1>1, Known DEF IInv
<1>3. PICK last \in 0 .. sent - 1 : SeenUpTo(last)
  BY <1>2 DEF IInv
<1>4. /\ v \in WindowType /\ Idle(v) /\ n \in (0 .. last - 1) \ got
      /\ HolesBefore(v, last, got \cup {n})
  <2>1. last \in Numbers
    BY Known
  <2> QED
    BY <1>3, <2>1, Known, MarkReceivedKeeps DEF SeenUpTo
<1> HIDE DEF v
<1>5. /\ window' \in WindowType /\ Idle(window') /\ resends' \subseteq Numbers
      /\ window'.first = v.first /\ window'.missing = v.missing
  BY <1>4, BecomesRetried DEF v
<1>6. got' = got \cup {n} /\ twice' = FALSE
  BY <1>4, Known DEF Accept
<1>7. TypeOK' /\ ~twice'
  BY <1>5, <1>6, Known, TypesNext
<1>8. SeenUpTo(last)'
  <2>1. HolesBefore(window', last, got')
    BY <1>4, <1>5, <1>6 DEF HolesBefore, StandsFor
  <2>2. got' \subseteq 0 .. last
    <3>1. 0 .. last - 1 \subseteq 0 .. last
      BY <1>3, Known
    <3> QED
      BY <1>3, <1>4, <1>6, <3>1 DEF SeenUpTo
  <2> QED
    BY <1>3, <2>1, <2>2 DEF SeenUpTo
<1>9. valid' /\ window' \in WindowType /\ last \in 0 .. sent' - 1
  BY <1>2, <1>5
<1> QED
  BY <1>7, <1>8, <1>9 DEF IInv

LEMMA ReceiveLateIInv ==
  ASSUME IInv, NEW n \in Numbers, ReceiveLate(n)
  PROVE  IInv'
<1>1. CASE IsMissing(window, SeqOf(n))
  BY <1>1, FilledIInv DEF ReceiveLate
<1>2. CASE ~IsMissing(window, SeqOf(n))
  <2>1. UNCHANGED vars
    BY <1>2 DEF ReceiveLate, vars
  <2> QED
    BY <2>1 DEF vars, history, IInv, TypeOK, SeenUpTo, HolesBefore
<1> QED
  BY <1>1, <1>2

LEMMA ReceiveResendIInv ==
  ASSUME IInv, NEW n \in Numbers, ReceiveResend(n)
  PROVE  IInv'
<1>1. CASE IsMissing(window, SeqOf(n))
  <2>1. resends \ {n} \subseteq resends
    OBVIOUS
  <2> QED
    BY <1>1, <2>1, FilledIInv DEF ReceiveResend
<1>2. CASE ~IsMissing(window, SeqOf(n))
  <2>1. /\ resends' = resends \ {n} /\ UNCHANGED << history, window >>
        /\ UNCHANGED << sent, valid, last_seq, enabled, resets >>
    BY <1>2 DEF ReceiveResend
  <2>2. resends' \subseteq Numbers
    BY <2>1, Known
  <2> QED
    BY <2>1, <2>2 DEF history, IInv, TypeOK, SeenUpTo, HolesBefore
<1> QED
  BY <1>1, <1>2

LEMMA NextIInv == IInv /\ [Next]_vars => IInv'
<1> SUFFICES ASSUME IInv, [Next]_vars PROVE IInv'
  OBVIOUS
<1>1. CASE Send
  BY <1>1, SendIInv
<1>2. CASE Tick
  BY <1>2, TickIInv
<1>3. CASE ReceiveTimeout
  BY <1>3, ReceiveTimeoutIInv
<1>4. CASE Reset
  BY <1>4, ResetIInv
<1>5. ASSUME NEW n \in Numbers, Receive(n) PROVE IInv'
  BY <1>5, ReceiveNextIInv, ReceiveAheadIInv, ReceiveLateIInv, ReceiveResendIInv DEF Receive
<1>6. CASE UNCHANGED vars
  BY <1>6 DEF vars, history, IInv, TypeOK, SeenUpTo, HolesBefore
<1> QED
  BY <1>1, <1>2, <1>3, <1>4, <1>5, <1>6 DEF Next

-----------------------------------------------------------------------------
(* The number of the packet that a bit stands for is behind the last one    *)
(* seen, by the cast to int16_t of resend_mark_received's callers.          *)
LEMMA HoleIsBehind ==
  ASSUME NEW last \in Numbers, NEW n \in 0 .. last - 1
  PROVE  Signed(SeqOf(last) - SeqOf(n)) > 0
<1>1. /\ last \in Int /\ n \in Int /\ last - n \in Int /\ last - n > 0
      /\ 2 * (last - n) < SeqMod /\ -SeqMod < 2 * (last - n)
  BY Sizes DEF Numbers
<1>2. SeqOf(last) \in Int /\ SeqOf(n) \in Int /\ SeqOf(last) - SeqOf(n) \in Int
      /\ (SeqOf(last) - SeqOf(n)) % SeqMod = (last - n) % SeqMod
  <2>1. SeqOf(last) \in Int /\ SeqOf(n) \in Int
    BY <1>1, SeqOfFacts
  <2>2. (SeqOf(last) - SeqOf(n)) % SeqMod = (last - n) % SeqMod
    BY <1>1, SeqOfFacts
  <2> QED
    BY <2>1, <2>2
<1> DEFINE x == SeqOf(last) - SeqOf(n)
           d == last - n
<1> HIDE DEF x, d
<1>3. /\ x \in Int /\ d \in Int /\ x % SeqMod = d % SeqMod /\ d > 0
      /\ 2 * d < SeqMod /\ -SeqMod < 2 * d
  BY <1>1, <1>2 DEF x, d
<1>4. Signed(x) = d
  BY <1>3, SignedIs
<1> QED
  BY <1>3, <1>4 DEF x

LEMMA IInvMissing == IInv => MissingIsMissing
<1> SUFFICES ASSUME IInv, NEW seq \in Missing
             PROVE  \E n \in (0 .. sent - 1) \ got :
                      SeqOf(n) = seq /\ Signed(last_seq - seq) > 0
  BY DEF MissingIsMissing
<1>1. PICK o \in window.missing : seq = (window.first + o) % SeqMod
  BY DEF Missing
<1>2. PICK last \in 0 .. sent - 1 : SeenUpTo(last)
  BY <1>1, Known DEF IInv
<1>3. PICK n \in (0 .. last - 1) \ got : StandsFor(window, o, n)
  BY <1>1, <1>2 DEF SeenUpTo, HolesBefore
<1>4. last \in Numbers /\ n \in 0 .. sent - 1
  BY <1>2, <1>3, Known
<1>5. SeqOf(n) = seq /\ last_seq = SeqOf(last)
  BY <1>1, <1>2, <1>3 DEF StandsFor, SeenUpTo
<1>6. Signed(last_seq - seq) > 0
  BY <1>3, <1>4, <1>5, HoleIsBehind
<1> QED
  BY <1>3, <1>4, <1>5, <1>6

(* What resend_missing_mask calls missing was sent, comes before the last   *)
(* number seen and was never accepted: through every slide of the window,   *)
(* every new one, every wrap of the 16-bit number and every reset, whatever *)
(* the network loses, repeats or delays.                                    *)
THEOREM MissingIsTrue == Spec => []WindowInv
<1>1. IInv => WindowInv
  BY IInvMissing DEF IInv, WindowInv
<1> QED
  BY <1>1, InitIInv, NextIInv, PTL DEF Spec

(* track_regular_rtp_sequence and the handler of resent packets let no      *)
(* packet through to the decoder twice between two resets.                  *)
THEOREM NoneTwice == Spec => []AcceptedOnce
<1>1. IInv => AcceptedOnce
  BY DEF IInv, AcceptedOnce
<1> QED
  BY <1>1, InitIInv, NextIInv, PTL DEF Spec
=============================================================================
