--------------------------- MODULE Session_proofs ---------------------------
(***************************************************************************)
(* The requests of one connection after the other and the stream tasks     *)
(* beside them, for any set of ports, any requests in any order, and any   *)
(* number of connections and faults: the two streams feed the shared       *)
(* decoder one at a time, though nothing locks it, and a connection keeps  *)
(* the event port it was given; and a sender that sets streams up only     *)
(* when they are not is heard once it was told where to send its audio,    *)
(* and keeps its decoder while a task uses it.                             *)
(*                                                                         *)
(* A handler is a list of steps that grows and shrinks while it runs, so   *)
(* most of the invariant speaks about that list: what a step needs is      *)
(* there, or an earlier step of the list brings it about and none between  *)
(* the two undoes it (Due).  The first half of the module is about such    *)
(* lists; then come the actions of the handlers, the requests and the      *)
(* tasks, which give Core, the invariant for every sender, and then, in    *)
(* the same order, OrderlyInv, what it takes for an orderly one: mostly    *)
(* what is there when the list is done (Ends), which is when the sender    *)
(* is answered.                                                            *)
(***************************************************************************)
EXTENDS Session, TLAPS, SequenceTheorems, FiniteSetTheorems

-----------------------------------------------------------------------------
(* For a condition that is c now, that a step in E establishes and one in D
   may destroy.  Holds: it is there when step i is reached.  Due: it is there
   at each step in G.  Ends: it is there when the list is done. *)
Holds(q, i, c, E, D) ==
  \/ c /\ \A k \in 1 .. i - 1 : q[k] \notin D
  \/ \E j \in 1 .. i - 1 : q[j] \in E /\ \A k \in j + 1 .. i - 1 : q[k] \notin D
Due(q, c, E, D, G) == \A i \in 1 .. Len(q) : q[i] \in G => Holds(q, i, c, E, D)
Ends(q, c, E, D) == Holds(q, Len(q) + 1, c, E, D)
Avoids(q, D) == \A i \in 1 .. Len(q) : q[i] \notin D

LEMMA Joined ==
  ASSUME NEW Z, NEW p \in Seq(Z), NEW q \in Seq(Z)
  PROVE  /\ p \o q \in Seq(Z) /\ Len(p) \in Nat /\ Len(q) \in Nat
         /\ Len(p \o q) = Len(p) + Len(q)
         /\ \A k \in 1 .. Len(p) : (p \o q)[k] = p[k]
         /\ \A k \in 1 .. Len(q) : (p \o q)[Len(p) + k] = q[k]
OBVIOUS

LEMMA InProduct ==
  ASSUME NEW A, NEW B, NEW h \in A \X B
  PROVE  h = << h[1], h[2] >> /\ h[1] \in A /\ h[2] \in B
OBVIOUS

LEMMA OnesJoined == ASSUME NEW Z, NEW p \in Seq(Z), NEW q \in Seq(Z), Len(p) = 1, Len(q) = 1
  PROVE p \o q \in Seq(Z) /\ Len(p \o q) = 2 /\ (p \o q)[1] = p[1] /\ (p \o q)[2] = q[1]
<1>1. 1 \in 1 .. Len(p) /\ 1 \in 1 .. Len(q) /\ Len(p) + 1 = 2
  OBVIOUS
<1>2. (p \o q)[1] = p[1] /\ (p \o q)[Len(p) + 1] = q[1]
  BY <1>1, Joined
<1>3. p \o q \in Seq(Z) /\ Len(p \o q) = Len(p) + Len(q)
  BY Joined
<1>4. Len(p) + Len(q) = 2
  OBVIOUS
<1> QED
  BY <1>1, <1>2, <1>3, <1>4
LEMMA PairJoined == ASSUME NEW Z, NEW a \in Z, NEW b \in Z PROVE << a >> \o << b >> = << a, b >>
<1>1. << a >> \in Seq(Z) /\ << b >> \in Seq(Z) /\ << a, b >> \in Seq(Z)
  OBVIOUS
<1>2. Len(<< a >>) = 1 /\ Len(<< b >>) = 1 /\ Len(<< a, b >>) = 2 /\ << a >>[1] = a /\ << b >>[1] = b
      /\ << a, b >>[1] = a /\ << a, b >>[2] = b
  OBVIOUS
<1> DEFINE p == << a >>
           q == << b >>
           r == << a, b >>
<1> HIDE DEF p, q, r
<1>3. Len(p \o q) = 2 /\ (p \o q)[1] = a /\ (p \o q)[2] = b /\ p \o q \in Seq(Z)
  <2>1. p \in Seq(Z) /\ q \in Seq(Z) /\ Len(p) = 1 /\ Len(q) = 1 /\ p[1] = a /\ q[1] = b
    BY <1>1, <1>2 DEF p, q
  <2> QED
    BY <2>1, OnesJoined
<1>4. r \in Seq(Z) /\ Len(r) = 2 /\ r[1] = a /\ r[2] = b
  BY <1>1, <1>2 DEF r
<1>5. \A i \in 1 .. Len(p \o q) : (p \o q)[i] = r[i]
  BY <1>3, <1>4
<1>6. p \o q = r
  BY <1>3, <1>4, <1>5, SeqEqual
<1> QED
  BY <1>6 DEF p, q, r

LEMMA Replaced ==
  ASSUME NEW Z, NEW q \in Seq(Z), q # << >>, NEW n \in Seq(Z)
  PROVE  /\ n \o Tail(q) \in Seq(Z) /\ Len(q) \in Nat \ {0} /\ Len(n) \in Nat
         /\ Len(n \o Tail(q)) = Len(n) + Len(q) - 1
         /\ \A k \in 1 .. Len(n) : (n \o Tail(q))[k] = n[k]
         /\ \A k \in 2 .. Len(q) : (n \o Tail(q))[Len(n) + k - 1] = q[k]
<1>1. /\ Tail(q) \in Seq(Z) /\ Len(Tail(q)) = Len(q) - 1 /\ Len(q) \in Nat \ {0} /\ Len(n) \in Nat
      /\ \A k \in 1 .. Len(q) - 1 : Tail(q)[k] = q[k + 1]
  OBVIOUS
<1> DEFINE t == Tail(q)
<1> HIDE DEF t
<1>2. t \in Seq(Z) /\ Len(t) = Len(q) - 1 /\ \A k \in 1 .. Len(q) - 1 : t[k] = q[k + 1]
  BY <1>1 DEF t
<1>3. /\ n \o t \in Seq(Z) /\ Len(n \o t) = Len(n) + Len(t)
      /\ \A k \in 1 .. Len(n) : (n \o t)[k] = n[k]
      /\ \A k \in 1 .. Len(t) : (n \o t)[Len(n) + k] = t[k]
  <2>1. n \in Seq(Z) /\ t \in Seq(Z)
    BY <1>2
  <2> QED
    BY <2>1
<1>4. ASSUME NEW k \in 2 .. Len(q) PROVE (n \o t)[Len(n) + k - 1] = q[k]
  <2>1. k - 1 \in 1 .. Len(t) /\ (k - 1) + 1 = k
    BY <1>1, <1>2
  <2>2. (n \o t)[Len(n) + (k - 1)] = t[k - 1] /\ t[k - 1] = q[k]
    BY <2>1, <1>2, <1>3
  <2> QED
    BY <2>2, <1>1
<1> QED
  BY <1>1, <1>2, <1>3, <1>4 DEF t

(* A step that replaces the head by the steps n. *)
LEMMA HoldsReplace ==
  ASSUME NEW Z, NEW q \in Seq(Z), q # << >>, NEW n \in Seq(Z), NEW c, NEW d, NEW E, NEW D,
         NEW i \in 2 .. Len(q) + 1, Holds(q, i, c, E, D),
         (c /\ q[1] \notin D) \/ q[1] \in E => Ends(n, d, E, D)
  PROVE  Holds(n \o Tail(q), Len(n) + i - 1, d, E, D)
<1> DEFINE r == n \o Tail(q)
           m == Len(n) + i - 1
<1>1. /\ Len(q) \in Nat \ {0} /\ Len(n) \in Nat
      /\ \A k \in 1 .. Len(n) : r[k] = n[k]
      /\ \A k \in 2 .. Len(q) : r[Len(n) + k - 1] = q[k]
  BY Replaced
<1> HIDE DEF r
<1>3. CASE \E j \in 2 .. i - 1 : q[j] \in E /\ \A k \in j + 1 .. i - 1 : q[k] \notin D
  <2>1. PICK j \in 2 .. i - 1 : q[j] \in E /\ \A k \in j + 1 .. i - 1 : q[k] \notin D
    BY <1>3
  <2>2. r[Len(n) + j - 1] \in E /\ Len(n) + j - 1 \in 1 .. m - 1
    <3>1. j \in 2 .. Len(q)
      BY <1>1
    <3>2. Len(n) + j - 1 \in 1 .. m - 1
      BY <3>1, <1>1
    <3> QED
      BY <3>1, <3>2, <2>1, <1>1
  <2>3. ASSUME NEW k \in Len(n) + j - 1 + 1 .. m - 1 PROVE r[k] \notin D
    <3>1. k - Len(n) + 1 \in j + 1 .. i - 1 /\ k >= Len(n) + 1
      BY <1>1
    <3>2. k - Len(n) + 1 \in 2 .. Len(q) /\ Len(n) + (k - Len(n) + 1) - 1 = k
      BY <1>1, <3>1
    <3> QED
      BY <3>1, <3>2, <2>1, <1>1
  <2> QED
    BY <2>2, <2>3 DEF Holds, r
<1>4. CASE ~(\E j \in 2 .. i - 1 : q[j] \in E /\ \A k \in j + 1 .. i - 1 : q[k] \notin D)
  <2>1. /\ (c /\ q[1] \notin D) \/ q[1] \in E
        /\ \A k \in 2 .. i - 1 : q[k] \notin D
    <3>1. CASE c /\ \A k \in 1 .. i - 1 : q[k] \notin D
      BY <3>1, <1>1
    <3>2. CASE \E j \in 1 .. i - 1 : q[j] \in E /\ \A k \in j + 1 .. i - 1 : q[k] \notin D
      <4>1. PICK j \in 1 .. i - 1 : q[j] \in E /\ \A k \in j + 1 .. i - 1 : q[k] \notin D
        BY <3>2
      <4>2. j = 1
        BY <4>1, <1>4, <1>1
      <4> QED
        BY <4>1, <4>2
    <3> QED
      BY <3>1, <3>2 DEF Holds
  <2>2. Ends(n, d, E, D)
    BY <2>1
  <2>3. ASSUME NEW k \in Len(n) + 1 .. m - 1 PROVE r[k] \notin D
    <3>1. k - Len(n) + 1 \in 2 .. i - 1 /\ Len(n) + (k - Len(n) + 1) - 1 = k
      BY <1>1
    <3>2. k - Len(n) + 1 \in 2 .. Len(q)
      BY <1>1, <3>1
    <3> QED
      BY <3>1, <3>2, <2>1, <1>1
  <2>4. CASE d /\ \A k \in 1 .. Len(n) : n[k] \notin D
    <3>1. ASSUME NEW k \in 1 .. m - 1 PROVE r[k] \notin D
      <4>1. CASE k <= Len(n)
        <5>1. k \in 1 .. Len(n)
          BY <4>1, <1>1
        <5> QED
          BY <5>1, <2>4, <1>1
      <4>2. CASE k > Len(n)
        <5>1. k \in Len(n) + 1 .. m - 1
          BY <4>2, <1>1
        <5> QED
          BY <5>1, <2>3
      <4> QED
        BY <4>1, <4>2, <1>1
    <3> QED
      BY <3>1, <2>4 DEF Holds, r
  <2>5. CASE \E j \in 1 .. Len(n) : n[j] \in E /\ \A k \in j + 1 .. Len(n) : n[k] \notin D
    <3>1. PICK j \in 1 .. Len(n) : n[j] \in E /\ \A k \in j + 1 .. Len(n) : n[k] \notin D
      BY <2>5
    <3>2. ASSUME NEW k \in j + 1 .. m - 1 PROVE r[k] \notin D
      BY <2>3, <3>1, <1>1
    <3>3. r[j] \in E /\ j \in 1 .. m - 1
      BY <3>1, <1>1
    <3> QED
      BY <3>2, <3>3 DEF Holds, r
  <2>6. (Len(n) + 1) - 1 = Len(n)
    BY <1>1
  <2>7. \/ d /\ \A k \in 1 .. Len(n) : n[k] \notin D
        \/ \E j \in 1 .. Len(n) : n[j] \in E /\ \A k \in j + 1 .. Len(n) : n[k] \notin D
    BY <2>2, <2>6 DEF Ends, Holds
  <2> QED
    BY <2>7, <2>4, <2>5
<1> QED
  BY <1>3, <1>4

LEMMA EndsReplace ==
  ASSUME NEW Z, NEW q \in Seq(Z), q # << >>, NEW n \in Seq(Z), NEW c, NEW d, NEW E, NEW D,
         Ends(q, c, E, D),
         (c /\ q[1] \notin D) \/ q[1] \in E => Ends(n, d, E, D)
  PROVE  Ends(n \o Tail(q), d, E, D)
<1>1. Len(q) + 1 \in 2 .. Len(q) + 1 /\ Len(n \o Tail(q)) + 1 = Len(n) + (Len(q) + 1) - 1
  BY Replaced
<1>2. Holds(q, Len(q) + 1, c, E, D)
  BY DEF Ends
<1>3. Holds(n \o Tail(q), Len(n) + (Len(q) + 1) - 1, d, E, D)
  BY <1>1, <1>2, HoldsReplace
<1> QED
  BY <1>1, <1>3 DEF Ends

LEMMA HoldsPrefix ==
  ASSUME NEW p, NEW q, NEW i \in Nat, NEW c, NEW E, NEW D,
         \A k \in 1 .. i - 1 : q[k] = p[k], Holds(p, i, c, E, D)
  PROVE  Holds(q, i, c, E, D)
BY DEF Holds

LEMMA DueReplace ==
  ASSUME NEW Z, NEW q \in Seq(Z), q # << >>, NEW n \in Seq(Z), NEW c, NEW d, NEW E, NEW D, NEW G,
         Due(q, c, E, D, G),
         (c /\ q[1] \notin D) \/ q[1] \in E => Ends(n, d, E, D),
         Due(n, d, E, D, G)
  PROVE  Due(n \o Tail(q), d, E, D, G)
<1> DEFINE r == n \o Tail(q)
<1>1. /\ Len(q) \in Nat \ {0} /\ Len(n) \in Nat /\ Len(r) = Len(n) + Len(q) - 1
      /\ \A k \in 1 .. Len(n) : r[k] = n[k]
      /\ \A k \in 2 .. Len(q) : r[Len(n) + k - 1] = q[k]
  BY Replaced
<1> SUFFICES ASSUME NEW i \in 1 .. Len(r), r[i] \in G PROVE Holds(r, i, d, E, D)
  BY DEF Due
<1>2. CASE i <= Len(n)
  <2>1. Holds(n, i, d, E, D)
    BY <1>1, <1>2 DEF Due
  <2>2. i \in Nat /\ \A k \in 1 .. i - 1 : r[k] = n[k]
    BY <1>1, <1>2
  <2> HIDE DEF r
  <2> QED
    BY <2>1, <2>2, HoldsPrefix
<1>3. CASE i > Len(n)
  <2>1. i - Len(n) + 1 \in 2 .. Len(q) /\ i = Len(n) + (i - Len(n) + 1) - 1
    BY <1>1, <1>3
  <2>2. q[i - Len(n) + 1] \in G
    BY <2>1, <1>1
  <2>3. Holds(q, i - Len(n) + 1, c, E, D) /\ i - Len(n) + 1 \in 2 .. Len(q) + 1
    BY <2>1, <2>2, <1>1 DEF Due
  <2>4. Holds(n \o Tail(q), Len(n) + (i - Len(n) + 1) - 1, d, E, D)
    BY <2>3, HoldsReplace
  <2> QED
    BY <2>1, <2>4
<1> QED
  BY <1>1, <1>2, <1>3

LEMMA Empty ==
  ASSUME NEW c, NEW E, NEW D, NEW G
  PROVE  /\ Ends(<< >>, c, E, D) <=> c
         /\ Due(<< >>, c, E, D, G)
BY DEF Ends, Due, Holds

LEMMA Single ==
  ASSUME NEW x, NEW c, NEW E, NEW D, NEW G
  PROVE  /\ Ends(<< x >>, c, E, D) <=> x \in E \/ (c /\ x \notin D)
         /\ Due(<< x >>, c, E, D, G) <=> (x \in G => c)
<1>1. Len(<< x >>) = 1 /\ << x >>[1] = x /\ 1 .. (1 + 1) - 1 = {1} /\ 1 .. 1 - 1 = {} /\ 1 .. 1 = {1}
      /\ 1 + 1 .. (1 + 1) - 1 = {}
  OBVIOUS
<1> QED
  BY <1>1 DEF Ends, Due, Holds

LEMMA PopIsReplace ==
  ASSUME NEW Z, NEW q \in Seq(Z), q # << >>
  PROVE  Tail(q) = << >> \o Tail(q) /\ << >> \in Seq(Z)
OBVIOUS

LEMMA EndsPop ==
  ASSUME NEW Z, NEW q \in Seq(Z), q # << >>, NEW c, NEW d, NEW E, NEW D,
         Ends(q, c, E, D),
         (c /\ q[1] \notin D) \/ q[1] \in E => d
  PROVE  Ends(Tail(q), d, E, D)
<1>1. (c /\ q[1] \notin D) \/ q[1] \in E => Ends(<< >>, d, E, D)
  BY Empty
<1>2. Ends(<< >> \o Tail(q), d, E, D)
  BY <1>1, PopIsReplace, EndsReplace
<1> QED
  BY <1>2, PopIsReplace

LEMMA DuePop ==
  ASSUME NEW Z, NEW q \in Seq(Z), q # << >>, NEW c, NEW d, NEW E, NEW D, NEW G,
         Due(q, c, E, D, G),
         (c /\ q[1] \notin D) \/ q[1] \in E => d
  PROVE  Due(Tail(q), d, E, D, G)
<1>1. ((c /\ q[1] \notin D) \/ q[1] \in E => Ends(<< >>, d, E, D)) /\ Due(<< >>, d, E, D, G)
  BY Empty
<1>2. Due(<< >> \o Tail(q), d, E, D, G)
  BY <1>1, PopIsReplace, DueReplace
<1> QED
  BY <1>2, PopIsReplace

LEMMA DueHead ==
  ASSUME NEW Z, NEW q \in Seq(Z), q # << >>, NEW c, NEW E, NEW D, NEW G,
         Due(q, c, E, D, G), q[1] \in G
  PROVE  c
<1>1. 1 \in 1 .. Len(q) /\ 1 .. 1 - 1 = {}
  OBVIOUS
<1> QED
  BY <1>1 DEF Due, Holds

LEMMA Stronger ==
  ASSUME NEW q, NEW c, NEW d, NEW E, NEW D, NEW G, c => d
  PROVE  /\ Ends(q, c, E, D) => Ends(q, d, E, D)
         /\ Due(q, c, E, D, G) => Due(q, d, E, D, G)
BY DEF Ends, Due, Holds

(* Programs are put together from parts. *)
LEMMA EndsAvoid ==
  ASSUME NEW q, NEW c, NEW E, NEW D, c, Avoids(q, D), Len(q) \in Nat
  PROVE  Ends(q, c, E, D)
BY DEF Ends, Holds, Avoids

LEMMA DueAvoid ==
  ASSUME NEW q, NEW c, NEW E, NEW D, NEW G, Avoids(q, G)
  PROVE  Due(q, c, E, D, G)
BY DEF Due, Avoids

LEMMA AvoidsJoined ==
  ASSUME NEW Z, NEW p \in Seq(Z), NEW q \in Seq(Z), NEW D, Avoids(p, D), Avoids(q, D)
  PROVE  Avoids(p \o q, D)
<1> SUFFICES ASSUME NEW i \in 1 .. Len(p \o q) PROVE (p \o q)[i] \notin D
  BY DEF Avoids
<1>1. CASE i <= Len(p)
  BY <1>1, Joined DEF Avoids
<1>2. CASE i > Len(p)
  <2>1. i - Len(p) \in 1 .. Len(q) /\ i = Len(p) + (i - Len(p))
    BY <1>2, Joined
  <2>2. (p \o q)[Len(p) + (i - Len(p))] = q[i - Len(p)]
    BY <2>1, Joined
  <2> QED
    BY <2>1, <2>2 DEF Avoids
<1> QED
  BY <1>1, <1>2, Joined

LEMMA HoldsLater ==
  ASSUME NEW Z, NEW p \in Seq(Z), NEW q \in Seq(Z), NEW i \in 1 .. Len(q) + 1,
         NEW c, NEW E, NEW D,
         Holds(q, i, FALSE, E, D) \/
         (Ends(p, c, E, D) /\ \A k \in 1 .. i - 1 : q[k] \notin D)
  PROVE  Holds(p \o q, Len(p) + i, c, E, D)
<1> DEFINE r == p \o q
<1>1. /\ Len(p) \in Nat /\ Len(q) \in Nat
      /\ \A k \in 1 .. Len(p) : r[k] = p[k]
      /\ \A k \in 1 .. Len(q) : r[Len(p) + k] = q[k]
  BY Joined
<1> HIDE DEF r
<1>2. CASE Holds(q, i, FALSE, E, D)
  <2>1. PICK j \in 1 .. i - 1 : q[j] \in E /\ \A k \in j + 1 .. i - 1 : q[k] \notin D
    BY <1>2 DEF Holds
  <2>2. Len(p) + j \in 1 .. (Len(p) + i) - 1 /\ r[Len(p) + j] \in E
    BY <2>1, <1>1
  <2>3. ASSUME NEW k \in Len(p) + j + 1 .. (Len(p) + i) - 1 PROVE r[k] \notin D
    <3>1. k - Len(p) \in j + 1 .. i - 1 /\ k - Len(p) \in 1 .. Len(q) /\ Len(p) + (k - Len(p)) = k
      BY <1>1
    <3> QED
      BY <3>1, <2>1, <1>1
  <2> QED
    BY <2>2, <2>3 DEF Holds, r
<1>3. CASE Ends(p, c, E, D) /\ \A k \in 1 .. i - 1 : q[k] \notin D
  <2>1. ASSUME NEW k \in Len(p) + 1 .. (Len(p) + i) - 1 PROVE r[k] \notin D
    <3>1. k - Len(p) \in 1 .. i - 1 /\ k - Len(p) \in 1 .. Len(q) /\ Len(p) + (k - Len(p)) = k
      BY <1>1
    <3> QED
      BY <3>1, <1>3, <1>1
  <2>2. CASE c /\ \A k \in 1 .. (Len(p) + 1) - 1 : p[k] \notin D
    <3>1. ASSUME NEW k \in 1 .. (Len(p) + i) - 1 PROVE r[k] \notin D
      <4>1. CASE k <= Len(p)
        <5>1. k \in 1 .. (Len(p) + 1) - 1 /\ k \in 1 .. Len(p)
          BY <4>1, <1>1
        <5> QED
          BY <5>1, <2>2, <1>1
      <4>2. CASE k > Len(p)
        <5>1. k \in Len(p) + 1 .. (Len(p) + i) - 1
          BY <4>2, <1>1
        <5> QED
          BY <5>1, <2>1
      <4> QED
        BY <4>1, <4>2, <1>1
    <3> QED
      BY <3>1, <2>2 DEF Holds, r
  <2>3. CASE \E j \in 1 .. (Len(p) + 1) - 1 :
               p[j] \in E /\ \A k \in j + 1 .. (Len(p) + 1) - 1 : p[k] \notin D
    <3>1. PICK j \in 1 .. (Len(p) + 1) - 1 :
               p[j] \in E /\ \A k \in j + 1 .. (Len(p) + 1) - 1 : p[k] \notin D
      BY <2>3
    <3>2. ASSUME NEW k \in j + 1 .. (Len(p) + i) - 1 PROVE r[k] \notin D
      <4>1. CASE k <= Len(p)
        <5>1. k \in j + 1 .. (Len(p) + 1) - 1 /\ k \in 1 .. Len(p)
          BY <4>1, <1>1
        <5> QED
          BY <5>1, <3>1, <1>1
      <4>2. CASE k > Len(p)
        <5>1. k \in Len(p) + 1 .. (Len(p) + i) - 1
          BY <4>2, <1>1
        <5> QED
          BY <5>1, <2>1
      <4> QED
        BY <4>1, <4>2, <1>1
    <3>3. j \in 1 .. (Len(p) + i) - 1 /\ r[j] \in E
      BY <3>1, <1>1
    <3> QED
      BY <3>2, <3>3 DEF Holds, r
  <2> QED
    BY <1>3, <2>2, <2>3 DEF Ends, Holds
<1> QED
  BY <1>2, <1>3

LEMMA EndsJoined ==
  ASSUME NEW Z, NEW p \in Seq(Z), NEW q \in Seq(Z), NEW c, NEW E, NEW D,
         Ends(q, FALSE, E, D) \/ (Ends(p, c, E, D) /\ Avoids(q, D))
  PROVE  Ends(p \o q, c, E, D)
<1>1. Len(q) + 1 \in 1 .. Len(q) + 1 /\ Len(p \o q) + 1 = Len(p) + (Len(q) + 1) /\ Len(q) \in Nat
  BY Joined
<1>2. Holds(q, Len(q) + 1, FALSE, E, D) \/
      (Ends(p, c, E, D) /\ \A k \in 1 .. (Len(q) + 1) - 1 : q[k] \notin D)
  <2>1. (Len(q) + 1) - 1 = Len(q)
    BY <1>1
  <2> QED
    BY <2>1 DEF Ends, Avoids
<1>3. Holds(p \o q, Len(p) + (Len(q) + 1), c, E, D)
  BY <1>1, <1>2, HoldsLater
<1> QED
  BY <1>1, <1>3 DEF Ends

LEMMA DueJoined ==
  ASSUME NEW Z, NEW p \in Seq(Z), NEW q \in Seq(Z), NEW c, NEW E, NEW D, NEW G,
         Due(p, c, E, D, G),
         Due(q, FALSE, E, D, G) \/ (Ends(p, c, E, D) /\ Due(q, TRUE, E, D, G))
  PROVE  Due(p \o q, c, E, D, G)
<1> DEFINE r == p \o q
<1>1. /\ Len(p) \in Nat /\ Len(q) \in Nat /\ Len(r) = Len(p) + Len(q)
      /\ \A k \in 1 .. Len(p) : r[k] = p[k]
      /\ \A k \in 1 .. Len(q) : r[Len(p) + k] = q[k]
  BY Joined
<1> SUFFICES ASSUME NEW i \in 1 .. Len(r), r[i] \in G PROVE Holds(r, i, c, E, D)
  BY DEF Due
<1>2. CASE i <= Len(p)
  <2>1. Holds(p, i, c, E, D)
    BY <1>1, <1>2 DEF Due
  <2>2. i \in Nat /\ \A k \in 1 .. i - 1 : r[k] = p[k]
    BY <1>1, <1>2
  <2> HIDE DEF r
  <2> QED
    BY <2>1, <2>2, HoldsPrefix
<1>3. CASE i > Len(p)
  <2>1. i - Len(p) \in 1 .. Len(q) /\ i = Len(p) + (i - Len(p)) /\ q[i - Len(p)] \in G
    BY <1>1, <1>3
  <2>2. Holds(q, i - Len(p), FALSE, E, D) \/
        (Ends(p, c, E, D) /\ Holds(q, i - Len(p), TRUE, E, D))
    BY <2>1 DEF Due
  <2>3. Holds(q, i - Len(p), FALSE, E, D) \/
        (Ends(p, c, E, D) /\ \A k \in 1 .. (i - Len(p)) - 1 : q[k] \notin D)
    BY <2>2 DEF Holds
  <2>4. i - Len(p) \in 1 .. Len(q) + 1
    BY <2>1, <1>1
  <2>5. Holds(p \o q, Len(p) + (i - Len(p)), c, E, D)
    BY <2>3, <2>4, HoldsLater
  <2> QED
    BY <2>1, <2>5
<1> QED
  BY <1>1, <1>2, <1>3

-----------------------------------------------------------------------------
(* The steps of the handlers. *)
OnStream == {"halt", "close", "join", "type", "select", "restart", "begin", "bind", "ports"}
Alone == {"clear", "format", "ntp", "event", "bufferedport", "play", "hold", "pause", "unpause",
          "eventstop", "free"}
Steps == (OnStream \X Streams) \cup ({"create"} \X Tasks) \cup ({"key"} \X {"current", "session"})
         \cup ({"answer"} \X {"ok", "stream", "error"}) \cup (Alone \X {""})

Other(s) == IF s = "realtime" THEN "buffered" ELSE "realtime"
Only(op) == << op, "" >>
Error == << "answer", "error" >>
Told == << "answer", "stream" >>
Okay == << "answer", "ok" >>

Follow(q) ==
  /\ \A i \in 1 .. Len(q), s \in Streams :
       /\ q[i] = << "halt", s >> => i + 2 <= Len(q) /\ q[i + 1] = << "close", s >> /\ q[i + 2] = << "join", s >>
       /\ q[i] = << "close", s >> => i + 1 <= Len(q) /\ q[i + 1] = << "join", s >>
  /\ \A i \in 1 .. Len(q) :
       /\ q[i] = Only("eventstop") => i + 1 <= Len(q) /\ q[i + 1] = Only("free")
       /\ q[i] \in {Only("free"), Error} => i = Len(q)

Shape == todo \in Seq(Steps) /\ Follow(todo)

StartOf(s) == {<< "begin", s >>, << "bind", s >>}
Fallible == {<< "bind", s >> : s \in Streams} \cup {<< "begin", s >> : s \in Streams}
            \cup {<< "create", t >> : t \in Tasks} \cup {Only("ntp"), Only("event"), Error}

(* What a handler may do to the list of its steps. *)
Creates(s, control) ==
  IF s = "buffered" THEN << << "create", "buff" >> >>
  ELSE << << "create", "recv" >> >> \o IF control THEN << << "create", "ctrl" >> >> ELSE << >>

Pushed(h, n, st, run, control) ==
  \/ \E x \in Streams :
       /\ h = << "type", x >>
       /\ n = (IF x # st /\ run[st] THEN Stop(st) ELSE << >>) \o << << "select", x >> >>
  \/ \E x \in Streams : h = << "restart", x >> /\ run[x] /\ n = Stop(x)
  \/ \E x \in Streams : h = << "begin", x >> /\ ~run[x] /\ n = << << "bind", x >> >>
  \/ \E x \in Streams : h = << "bind", x >> /\ n = Creates(x, control)

Popped(q, r, run) ==
  /\ r = Tail(q) /\ q[1][1] \notin {"type", "bind"}
  /\ \A x \in Streams : /\ q[1] = << "begin", x >> => run[x]
                        /\ q[1] = << "restart", x >> => ~run[x]
Skipped(q, r, run) == \E s \in Streams : q[1] = << "halt", s >> /\ ~run[s] /\ r = Tail(Tail(Tail(q)))
Failed(q, r) ==
  /\ q[1] \in Fallible
  /\ \/ r = << Error >>
     \/ \E t \in Tasks : q[1] = << "create", t >> /\ r = << << "join", StreamOf(t) >>, Error >>
Stayed(q, r) == r = q /\ q[1] = Only("event")

Rewrites(q, r, st, run, control, kept, made, broke) ==
  \/ kept /\ Popped(q, r, run)
  \/ \E n \in Seq(Steps) : made /\ Pushed(q[1], n, st, run, control) /\ r = n \o Tail(q)
  \/ Skipped(q, r, run)
  \/ broke /\ Failed(q, r)
  \/ Stayed(q, r)

LEMMA StepIs ==
  ASSUME NEW h \in Steps
  PROVE  /\ h = << h[1], h[2] >>
         /\ h[1] \in OnStream => h[2] \in Streams
         /\ h[1] = "create" => h[2] \in Tasks
         /\ h[1] = "key" => h[2] \in {"current", "session"}
         /\ h[1] = "answer" => h[2] \in {"ok", "stream", "error"}
         /\ h[1] \in Alone => h[2] = ""
<1>1. CASE h \in OnStream \X Streams
  <2>1. PICK op \in OnStream, s \in Streams : h = << op, s >>
    BY <1>1
  <2> QED
    BY <2>1 DEF OnStream, Alone
<1>2. CASE h \in {"create"} \X Tasks
  <2>1. PICK t \in Tasks : h = << "create", t >>
    BY <1>2
  <2> QED
    BY <2>1 DEF OnStream, Alone
<1>3. CASE h \in {"key"} \X {"current", "session"}
  <2>1. PICK t \in {"current", "session"} : h = << "key", t >>
    BY <1>3
  <2> QED
    BY <2>1 DEF OnStream, Alone
<1>4. CASE h \in {"answer"} \X {"ok", "stream", "error"}
  <2>1. PICK t \in {"ok", "stream", "error"} : h = << "answer", t >>
    BY <1>4
  <2> QED
    BY <2>1 DEF OnStream, Alone
<1>5. CASE h \in Alone \X {""}
  <2>1. h = << h[1], h[2] >> /\ h[1] \in Alone /\ h[2] = ""
    BY <1>5, InProduct
  <2> QED
    BY <2>1 DEF OnStream, Alone
<1> QED
  BY <1>1, <1>2, <1>3, <1>4, <1>5 DEF Steps

LEMMA AreSteps ==
  /\ \A op \in OnStream, s \in Streams : << op, s >> \in Steps
  /\ \A t \in Tasks : << "create", t >> \in Steps
  /\ \A t \in {"current", "session"} : << "key", t >> \in Steps
  /\ \A t \in {"ok", "stream", "error"} : << "answer", t >> \in Steps
  /\ \A op \in Alone : << op, "" >> \in Steps
BY DEF Steps

LEMMA OneStep ==
  ASSUME NEW x \in Steps
  PROVE  << x >> \in Seq(Steps) /\ Len(<< x >>) = 1 /\ << x >>[1] = x
OBVIOUS

LEMMA HeadIs ==
  ASSUME Shape, NEW op, Doing(op)
  PROVE  /\ todo # << >> /\ Head(todo) = todo[1] /\ todo[1] \in Steps /\ todo[1][1] = op
         /\ todo[1] = << op, Arg >> /\ Op = op /\ Arg = todo[1][2]
         /\ op \in OnStream => Arg \in Streams
         /\ op = "create" => Arg \in Tasks
         /\ op = "key" => Arg \in {"current", "session"}
         /\ op = "answer" => Arg \in {"ok", "stream", "error"}
         /\ op \in Alone => Arg = ""
<1>1. todo # << >> /\ Head(todo) = todo[1] /\ todo[1] \in Steps
  BY DEF Shape, Doing
<1>2. Arg = todo[1][2] /\ Op = todo[1][1] /\ Op = op
  BY <1>1 DEF Arg, Op, Doing
<1> QED
  BY <1>1, <1>2, StepIs

LEMMA StopIs ==
  ASSUME NEW s \in Streams
  PROVE  /\ Stop(s) = << << "halt", s >>, << "close", s >>, << "join", s >> >>
         /\ Stop(s) \in Seq(Steps)
<1>1. Stop(s) = << << "halt", s >>, << "close", s >>, << "join", s >> >>
  BY DEF Stop
<1>2. << "halt", s >> \in Steps /\ << "close", s >> \in Steps /\ << "join", s >> \in Steps
  BY AreSteps DEF OnStream
<1> DEFINE a == << "halt", s >>
           b == << "close", s >>
           e == << "join", s >>
<1> HIDE DEF a, b, e
<1>3. << a, b, e >> \in Seq(Steps)
  <2>1. a \in Steps /\ b \in Steps /\ e \in Steps
    BY <1>2 DEF a, b, e
  <2> QED
    BY <2>1
<1> QED
  BY <1>1, <1>3 DEF a, b, e

LEMMA CreatesAre ==
  ASSUME NEW s \in Streams, NEW control
  PROVE  /\ Creates("buffered", control) = << << "create", "buff" >> >>
         /\ control => Creates("realtime", control) = << << "create", "recv" >>, << "create", "ctrl" >> >>
         /\ ~control => Creates("realtime", control) = << << "create", "recv" >> >>
         /\ Creates(s, control) \in Seq(Steps)
<1> DEFINE a == << "create", "recv" >>
           b == << "create", "ctrl" >>
           e == << "create", "buff" >>
<1>1. a \in Steps /\ b \in Steps /\ e \in Steps
  BY AreSteps DEF Tasks
<1>2. /\ Creates("buffered", control) = << e >>
      /\ Creates("realtime", control) = << a >> \o IF control THEN << b >> ELSE << >>
      /\ s = "realtime" \/ s = "buffered"
  BY DEF Creates, Streams
<1> HIDE DEF a, b, e
<1>3. << a >> \o << b >> = << a, b >> /\ << a >> \o << >> = << a >>
      /\ << a, b >> \in Seq(Steps) /\ << a >> \in Seq(Steps) /\ << e >> \in Seq(Steps)
  <2>1. << a >> \o << b >> = << a, b >>
    BY <1>1, PairJoined
  <2>2. << a >> \in Seq(Steps) /\ << e >> \in Seq(Steps)
    BY <1>1
  <2>3. << a, b >> \in Seq(Steps)
    BY <1>1
  <2>4. << a >> \o << >> = << a >>
    BY <2>2
  <2> QED
    BY <2>1, <2>2, <2>3, <2>4
<1>4. CASE control
  <2>1. Creates("realtime", control) = << a, b >>
    BY <1>2, <1>3, <1>4
  <2> QED
    BY <2>1, <1>2, <1>3, <1>4 DEF a, b, e
<1>5. CASE ~control
  <2>1. Creates("realtime", control) = << a >>
    BY <1>2, <1>3, <1>5
  <2> QED
    BY <2>1, <1>2, <1>3, <1>5 DEF a, b, e
<1> QED
  BY <1>4, <1>5

LEMMA PushedIs ==
  ASSUME NEW h, NEW n, NEW st \in Streams, NEW run, NEW control, Pushed(h, n, st, run, control)
  PROVE  n \in Seq(Steps)
<1>1. CASE \E x \in Streams :
             /\ h = << "type", x >>
             /\ n = (IF x # st /\ run[st] THEN Stop(st) ELSE << >>) \o << << "select", x >> >>
  <2>1. PICK x \in Streams :
             n = (IF x # st /\ run[st] THEN Stop(st) ELSE << >>) \o << << "select", x >> >>
    BY <1>1
  <2>2. << << "select", x >> >> \in Seq(Steps)
    BY AreSteps, OneStep DEF OnStream
  <2>3. (IF x # st /\ run[st] THEN Stop(st) ELSE << >>) \in Seq(Steps)
    BY StopIs
  <2> QED
    BY <2>1, <2>2, <2>3
<1>2. CASE \E x \in Streams : h = << "restart", x >> /\ run[x] /\ n = Stop(x)
  BY <1>2, StopIs
<1>3. CASE \E x \in Streams : h = << "begin", x >> /\ ~run[x] /\ n = << << "bind", x >> >>
  BY <1>3, AreSteps, OneStep DEF OnStream
<1>4. CASE \E x \in Streams : h = << "bind", x >> /\ n = Creates(x, control)
  BY <1>4, CreatesAre
<1> QED
  BY <1>1, <1>2, <1>3, <1>4 DEF Pushed

(* The types of what TypeOK leaves out. *)
Conn == [id : Nat, stream_type : {0, 96, 103}, paused : BOOLEAN, control_port : BOOLEAN,
         data_port : Ports \cup {0}, buffered_port : Ports \cup {0}, event_port : BOOLEAN]
Event == [handle : BOOLEAN, should_stop : BOOLEAN, listeners : SUBSET Nat]
Types ==
  /\ TypeOK /\ plan \in Scenario /\ conn \in Conn /\ event \in Event
  /\ promise \in [stream : Streams \cup {"none"}, port : Ports \cup {0}]
  /\ sender \in {"new", "announced", "setup", "streaming", "paused", "torn", "ended"}

(* A task that could not be made leaves its stream closed. *)
Broke == \A t \in Tasks :
           todo[1] = << "create", t >> => ~running'[StreamOf(t)] /\ port'[StreamOf(t)] = 0
(* A socket was bound, a task made. *)
Made == \A s \in Streams :
          todo[1] = << "bind", s >> =>
            /\ running' = [running EXCEPT ![s] = TRUE]
            /\ \E p \in IF Wanted(s) = 0 THEN Ports ELSE {Wanted(s)} : port' = [port EXCEPT ![s] = p]
Kept == \A t \in Tasks :
          todo[1] = << "create", t >> =>
            running' = running /\ port' = port /\ task' = [task EXCEPT ![t] = "check"]
Moves == todo # << >> /\ Rewrites(todo, todo', stream, running, conn.control_port, Kept, Made, Broke)

LEMMA HandlerMoves ==
  ASSUME Shape, Types, Handler
  PROVE  Moves
<1> USE DEF Moves
<1>1. stream \in Streams
  BY DEF Types, TypeOK
<1>2. ASSUME NEW op, Doing(op), op \notin {"type", "bind", "begin", "restart", "create"}, Done
      PROVE  Moves
  <2>1. todo # << >> /\ todo[1] = << op, Arg >>
    BY <1>2, HeadIs
  <2>2. Popped(todo, todo', running)
    BY <2>1, <1>2 DEF Popped, Done
  <2>3. Kept
    <3>1. todo[1][1] # "create"
      BY <1>2, HeadIs
    <3> QED
      BY <3>1 DEF Kept
  <2> QED
    BY <2>1, <2>2, <2>3 DEF Rewrites
<1>3. ASSUME NEW op, Doing(op), op \in {"bind", "begin", "ntp", "event"}, Fail
      PROVE  Moves
  <2>1. todo # << >> /\ todo[1] = << op, Arg >> /\ todo[1] \in Steps
        /\ (op \in OnStream => Arg \in Streams)
        /\ (op \in Alone => Arg = "")
    BY <1>3, HeadIs
  <2>2. todo[1] \in Fallible
    BY <2>1, <1>3 DEF Fallible, OnStream, Alone, Only
  <2>3. Broke
    <3>1. todo[1][1] = op /\ op # "create"
      BY <1>3, HeadIs
    <3>2. \A t \in Tasks : todo[1] # << "create", t >>
      BY <3>1
    <3> QED
      BY <3>2 DEF Broke
  <2>4. Failed(todo, todo')
    BY <2>2, <1>3 DEF Failed, Fail, Error
  <2> QED
    BY <2>1, <2>3, <2>4 DEF Rewrites
<1>4. ASSUME NEW op, Doing(op), NEW n, Pushed(todo[1], n, stream, running, conn.control_port),
             Then(n), op # "bind" \/ Made
      PROVE  Moves
  <2>1. n \in Seq(Steps)
    BY <1>1, <1>4, PushedIs
  <2>2. Made
    <3>1. CASE op # "bind"
      <4>1. todo[1][1] # "bind"
        BY <1>4, <3>1, HeadIs
      <4> QED
        BY <4>1 DEF Made
    <3> QED
      BY <1>4, <3>1
  <2> QED
    BY <2>1, <2>2, <1>4, HeadIs DEF Rewrites, Then
<1>5. ASSUME SwitchType PROVE Moves
  <2> DEFINE n == (IF Arg # stream /\ running[stream] THEN Stop(stream) ELSE << >>)
                  \o << << "select", Arg >> >>
  <2>1. Doing("type") /\ Then(n)
    BY <1>5 DEF SwitchType
  <2>2. todo[1] = << "type", Arg >> /\ Arg \in Streams
    BY <2>1, HeadIs DEF OnStream
  <2>3. Pushed(todo[1], n, stream, running, conn.control_port)
    BY <2>2 DEF Pushed
  <2> HIDE DEF n
  <2> QED
    BY <2>1, <2>3, <1>4
<1>6. ASSUME Restart PROVE Moves
  <2>1. Doing("restart") /\ Then(IF running[Arg] THEN Stop(Arg) ELSE << >>)
    BY <1>6 DEF Restart
  <2>2. todo # << >> /\ todo \in Seq(Steps) /\ todo[1] = << "restart", Arg >> /\ Arg \in Streams
    BY <2>1, HeadIs DEF OnStream, Shape
  <2>3. CASE running[Arg]
    BY <2>1, <2>2, <2>3, <1>4 DEF Pushed
  <2>4. CASE ~running[Arg]
    <3>1. todo' = Tail(todo)
      BY <2>1, <2>2, <2>4, PopIsReplace DEF Then
    <3>2. Kept
      BY <2>2 DEF Kept
    <3>3. Popped(todo, todo', running)
      BY <3>1, <2>2, <2>4 DEF Popped
    <3> QED
      BY <3>2, <3>3, <2>2 DEF Rewrites
  <2> QED
    BY <2>3, <2>4
<1>7. ASSUME Begin PROVE Moves
  <2>1. Doing("begin")
    BY <1>7 DEF Begin
  <2>2. todo # << >> /\ todo[1] = << "begin", Arg >> /\ Arg \in Streams
    BY <2>1, HeadIs DEF OnStream
  <2>3. CASE running[Arg] /\ Done
    <3>1. Kept
      BY <2>2 DEF Kept
    <3>2. Popped(todo, todo', running)
      BY <2>2, <2>3 DEF Popped, Done
    <3> QED
      BY <3>1, <3>2, <2>2 DEF Rewrites
  <2>4. CASE ~running[Arg] /\ Then(<< << "bind", Arg >> >>)
    <3>1. Pushed(todo[1], << << "bind", Arg >> >>, stream, running, conn.control_port)
      BY <2>2, <2>4 DEF Pushed
    <3> QED
      BY <2>1, <3>1, <2>4, <1>4
  <2>5. CASE Fail
    BY <2>1, <2>5, <1>3
  <2> QED
    BY <1>7, <2>3, <2>4, <2>5 DEF Begin
<1>8. ASSUME Bind PROVE Moves
  <2>1. Doing("bind")
    BY <1>8 DEF Bind
  <2>2. todo[1] = << "bind", Arg >> /\ Arg \in Streams
    BY <2>1, HeadIs DEF OnStream
  <2>3. CASE Fail
    BY <2>1, <2>3, <1>3
  <2>4. CASE ~Fail
    <3>1. Then(Creates(Arg, conn.control_port))
      BY <1>8, <2>4 DEF Bind, Creates
    <3>2. Pushed(todo[1], Creates(Arg, conn.control_port), stream, running, conn.control_port)
      BY <2>2 DEF Pushed
    <3>3. Made
      <4>1. /\ running' = [running EXCEPT ![Arg] = TRUE]
            /\ \E p \in IF Wanted(Arg) = 0 THEN Ports ELSE {Wanted(Arg)} : port' = [port EXCEPT ![Arg] = p]
        BY <1>8, <2>4 DEF Bind
      <4>2. \A s \in Streams : todo[1] = << "bind", s >> => s = Arg
        BY <2>2
      <4> QED
        BY <4>1, <4>2 DEF Made
    <3> QED
      BY <2>1, <3>1, <3>2, <3>3, <1>4
  <2> QED
    BY <2>3, <2>4
<1>9. ASSUME Create PROVE Moves
  <2>1. Doing("create")
    BY <1>9 DEF Create
  <2>2. todo # << >> /\ todo[1] = << "create", Arg >> /\ Arg \in Tasks
    BY <2>1, HeadIs
  <2>3. CASE task' = [task EXCEPT ![Arg] = "check"] /\ Done /\ running' = running /\ port' = port
    <3>1. Kept
      <4>1. \A t \in Tasks : todo[1] = << "create", t >> => t = Arg
        BY <2>2
      <4> QED
        BY <4>1, <2>3 DEF Kept
    <3>2. Popped(todo, todo', running)
      BY <2>2, <2>3 DEF Popped, Done
    <3> QED
      BY <3>1, <3>2, <2>2 DEF Rewrites
  <2>4. CASE ~(task' = [task EXCEPT ![Arg] = "check"] /\ Done /\ running' = running /\ port' = port)
    <3>1. /\ running' = [running EXCEPT ![StreamOf(Arg)] = FALSE]
          /\ port' = [port EXCEPT ![StreamOf(Arg)] = 0]
          /\ todo' = << << "join", StreamOf(Arg) >>, << "answer", "error" >> >>
      BY <1>9, <2>4 DEF Create
    <3>2. StreamOf(Arg) \in Streams /\ running \in [Streams -> BOOLEAN] /\ DOMAIN port = Streams
      BY DEF Types, TypeOK, StreamOf, Streams
    <3>3. ~running'[StreamOf(Arg)] /\ port'[StreamOf(Arg)] = 0
      BY <3>1, <3>2
    <3>4. Broke
      BY <2>2, <3>3 DEF Broke
    <3>5. todo[1] \in Fallible
      BY <2>2 DEF Fallible
    <3> QED
      BY <2>2, <3>1, <3>4, <3>5 DEF Rewrites, Failed, Error
  <2> QED
    BY <2>3, <2>4
<1>10. ASSUME Halt PROVE Moves
  <2>1. Doing("halt")
    BY <1>10 DEF Halt
  <2>2. todo # << >> /\ todo[1] = << "halt", Arg >> /\ Arg \in Streams
    BY <2>1, HeadIs DEF OnStream
  <2>3. CASE Done
    BY <2>1, <2>3, <1>2
  <2>4. CASE ~running[Arg] /\ todo' = Tail(Tail(Tail(todo)))
    BY <2>2, <2>4 DEF Rewrites, Skipped
  <2> QED
    BY <1>10, <2>3, <2>4 DEF Halt
<1>11. ASSUME EventPort PROVE Moves
  <2>1. Doing("event")
    BY <1>11 DEF EventPort
  <2>2. todo # << >> /\ todo[1] = Only("event")
    BY <2>1, HeadIs DEF Alone, Only
  <2>3. CASE Done
    BY <2>1, <2>3, <1>2
  <2>4. CASE Fail
    BY <2>1, <2>4, <1>3
  <2>5. CASE UNCHANGED todo
    BY <2>2, <2>5 DEF Rewrites, Stayed
  <2> QED
    BY <1>11, <2>3, <2>4, <2>5 DEF EventPort
<1>12. ASSUME StartNtp PROVE Moves
  <2>1. Doing("ntp") /\ (Done \/ Fail)
    BY <1>12 DEF StartNtp
  <2> QED
    BY <2>1, <1>2, <1>3
<1>13. ASSUME SetPlaying PROVE Moves
  <2>1. (Doing("play") \/ Doing("hold")) /\ Done
    BY <1>13 DEF SetPlaying
  <2> QED
    BY <2>1, <1>2
<1>14. ASSUME SetPaused PROVE Moves
  <2>1. (Doing("pause") \/ Doing("unpause")) /\ Done
    BY <1>14 DEF SetPaused
  <2> QED
    BY <2>1, <1>2
<1>15. ASSUME Select \/ Close \/ Join \/ Format \/ SetKey \/ ClearReceiver PROVE Moves
  <2>1. \E op \in {"select", "close", "join", "format", "key", "clear"} : Doing(op) /\ Done
    BY <1>15 DEF Select, Close, Join, Format, SetKey, ClearReceiver
  <2> QED
    BY <2>1, <1>2
<1>16. ASSUME EnsurePorts \/ TakeBufferedPort \/ StopEvent \/ Free \/ Answer PROVE Moves
  <2>1. \E op \in {"ports", "bufferedport", "eventstop", "free", "answer"} : Doing(op) /\ Done
    BY <1>16 DEF EnsurePorts, TakeBufferedPort, StopEvent, Free, Answer
  <2> QED
    BY <2>1, <1>2
<1> QED
  BY <1>5, <1>6, <1>7, <1>8, <1>9, <1>10, <1>11, <1>12, <1>13, <1>14, <1>15, <1>16
  DEF Handler, OnStreams, OnConnection

-----------------------------------------------------------------------------
(* What follows what. *)
Leading == {<< op, s >> : op \in {"halt", "close"}, s \in Streams} \cup {Only("eventstop")}
Closing == {Only("free"), Error}

(* What comes after the step at place i. *)
Rest(q, i, r) ==
  /\ \A s \in Streams :
       /\ q[i] = << "halt", s >> => 2 <= r /\ q[i + 1] = << "close", s >> /\ q[i + 2] = << "join", s >>
       /\ q[i] = << "close", s >> => 1 <= r /\ q[i + 1] = << "join", s >>
  /\ q[i] = Only("eventstop") => 1 <= r /\ q[i + 1] = Only("free")
  /\ q[i] \in Closing => r = 0

LEMMA FollowIs ==
  ASSUME NEW q \in Seq(Steps)
  PROVE  Follow(q) <=> \A i \in 1 .. Len(q) : Rest(q, i, Len(q) - i)
<1>1. \A i \in 1 .. Len(q) : /\ (i + 2 <= Len(q)) <=> (2 <= Len(q) - i)
                             /\ (i + 1 <= Len(q)) <=> (1 <= Len(q) - i)
                             /\ (i = Len(q)) <=> (Len(q) - i = 0)
  OBVIOUS
<1> QED
  BY <1>1 DEF Follow, Rest, Closing

LEMMA RestSame ==
  ASSUME NEW p, NEW q, NEW i, NEW j, NEW r \in Int, NEW t \in Int,
         q[j] = p[i], 1 <= r => q[j + 1] = p[i + 1], 2 <= r => q[j + 2] = p[i + 2],
         r = t, Rest(p, i, r)
  PROVE  Rest(q, j, t)
<1>1. 2 <= r => 1 <= r
  OBVIOUS
<1> QED
  BY <1>1 DEF Rest

LEMMA FollowTail ==
  ASSUME NEW q \in Seq(Steps), q # << >>, Follow(q)
  PROVE  Tail(q) \in Seq(Steps) /\ Follow(Tail(q))
<1> DEFINE r == Tail(q)
<1>1. /\ r \in Seq(Steps) /\ Len(r) = Len(q) - 1 /\ Len(q) \in Nat
      /\ \A i \in 1 .. Len(r) : r[i] = q[i + 1]
  OBVIOUS
<1> HIDE DEF r
<1>2. ASSUME NEW i \in 1 .. Len(r) PROVE Rest(r, i, Len(r) - i)
  <2>1. i + 1 \in 1 .. Len(q) /\ Len(q) - (i + 1) = Len(r) - i /\ Len(r) - i \in Int
    BY <1>1
  <2>2. Rest(q, i + 1, Len(r) - i)
    BY <2>1, FollowIs
  <2>3. r[i] = q[i + 1]
    BY <1>1
  <2>4. 1 <= Len(r) - i => r[i + 1] = q[(i + 1) + 1]
    BY <1>1
  <2>5. 2 <= Len(r) - i => r[i + 2] = q[(i + 1) + 2]
    <3> SUFFICES ASSUME 2 <= Len(r) - i PROVE r[i + 2] = q[(i + 1) + 2]
      OBVIOUS
    <3>1. i + 2 \in 1 .. Len(r) /\ (i + 2) + 1 = (i + 1) + 2
      BY <1>1
    <3>2. r[i + 2] = q[(i + 2) + 1]
      BY <3>1, <1>1
    <3> QED
      BY <3>1, <3>2
  <2> QED
    BY <2>1, <2>2, <2>3, <2>4, <2>5, RestSame
<1> QED
  BY <1>1, <1>2, FollowIs DEF r

LEMMA FollowJoined ==
  ASSUME NEW p \in Seq(Steps), NEW q \in Seq(Steps), Follow(p), Follow(q), Avoids(p, Closing)
  PROVE  p \o q \in Seq(Steps) /\ Follow(p \o q)
<1> DEFINE r == p \o q
           L == Len(p)
           M == Len(q)
<1>1. /\ r \in Seq(Steps) /\ Len(r) = L + M /\ L \in Nat /\ M \in Nat
      /\ \A i \in 1 .. L : r[i] = p[i]
      /\ \A i \in 1 .. M : r[L + i] = q[i]
  BY Joined
<1>a. (\A i \in 1 .. L : Rest(p, i, L - i)) /\ (\A i \in 1 .. M : Rest(q, i, M - i))
  BY FollowIs
<1>b. \A i \in 1 .. L : p[i] \notin Closing
  BY DEF Avoids
<1> HIDE DEF r, L, M
<1>2. ASSUME NEW i \in 1 .. L PROVE Rest(r, i, (L + M) - i)
  <2>1. r[i] = p[i] /\ r[i] \notin Closing /\ Rest(p, i, L - i)
    BY <1>1, <1>a, <1>b
  <2>2. 1 <= L - i => r[i + 1] = p[i + 1] /\ 1 <= (L + M) - i
    BY <1>1
  <2>3. 2 <= L - i => r[i + 2] = p[i + 2] /\ 2 <= (L + M) - i /\ 1 <= L - i
    BY <1>1
  <2> QED
    BY <2>1, <2>2, <2>3 DEF Rest
<1>3. ASSUME NEW k \in 1 .. M PROVE Rest(r, L + k, (L + M) - (L + k))
  <2>1. (L + M) - (L + k) = M - k /\ M - k \in Int /\ L + k + 1 = L + (k + 1) /\ L + k + 2 = L + (k + 2)
    BY <1>1
  <2>2. r[L + k] = q[k] /\ Rest(q, k, M - k)
    BY <1>1, <1>a
  <2>3. 1 <= M - k => r[L + k + 1] = q[k + 1]
    <3> SUFFICES ASSUME 1 <= M - k PROVE r[L + k + 1] = q[k + 1]
      OBVIOUS
    <3>1. k + 1 \in 1 .. M
      BY <1>1
    <3>2. r[L + (k + 1)] = q[k + 1]
      BY <3>1, <1>1
    <3> QED
      BY <3>2, <2>1
  <2>4. 2 <= M - k => r[L + k + 2] = q[k + 2]
    <3> SUFFICES ASSUME 2 <= M - k PROVE r[L + k + 2] = q[k + 2]
      OBVIOUS
    <3>1. k + 2 \in 1 .. M
      BY <1>1
    <3>2. r[L + (k + 2)] = q[k + 2]
      BY <3>1, <1>1
    <3> QED
      BY <3>2, <2>1
  <2>5. (L + M) - (L + k) \in Int
    BY <2>1
  <2> QED
    BY <2>1, <2>2, <2>3, <2>4, <2>5, RestSame
<1>4. ASSUME NEW i \in 1 .. L + M PROVE Rest(r, i, (L + M) - i)
  <2>1. CASE i <= L
    BY <2>1, <1>1, <1>2
  <2>2. CASE i > L
    <3>1. i - L \in 1 .. M /\ L + (i - L) = i
      BY <2>2, <1>1
    <3>2. Rest(r, L + (i - L), (L + M) - (L + (i - L)))
      BY <3>1, <1>3
    <3> QED
      BY <3>1, <3>2
  <2> QED
    BY <2>1, <2>2, <1>1
<1> QED
  BY <1>1, <1>4, FollowIs DEF r

LEMMA FollowPlain ==
  ASSUME NEW q, Avoids(q, Leading \cup Closing)
  PROVE  Follow(q)
<1>1. \A i \in 1 .. Len(q) : q[i] \notin Leading /\ q[i] \notin Closing
  BY DEF Avoids
<1>2. /\ \A s \in Streams : << "halt", s >> \in Leading /\ << "close", s >> \in Leading
      /\ Only("eventstop") \in Leading
  BY DEF Leading
<1> QED
  BY <1>1, <1>2 DEF Follow, Closing

(* Short sequences. *)
LEMMA AvoidShort ==
  ASSUME NEW D
  PROVE  /\ Avoids(<< >>, D)
         /\ \A x : x \notin D => Avoids(<< x >>, D)
         /\ \A x, y : x \notin D /\ y \notin D => Avoids(<< x, y >>, D)
         /\ \A x, y, z : x \notin D /\ y \notin D /\ z \notin D => Avoids(<< x, y, z >>, D)
<1>1. Avoids(<< >>, D) /\ \A x : x \notin D => Avoids(<< x >>, D)
  BY DEF Avoids
<1>2. ASSUME NEW x, NEW y, x \notin D, y \notin D PROVE Avoids(<< x, y >>, D)
  <2>1. 1 .. Len(<< x, y >>) = {1, 2} /\ << x, y >>[1] = x /\ << x, y >>[2] = y
    OBVIOUS
  <2> QED
    BY <1>2, <2>1 DEF Avoids
<1>3. ASSUME NEW x, NEW y, NEW z, x \notin D, y \notin D, z \notin D PROVE Avoids(<< x, y, z >>, D)
  <2>1. 1 .. Len(<< x, y, z >>) = {1, 2, 3} /\ << x, y, z >>[1] = x /\ << x, y, z >>[2] = y
        /\ << x, y, z >>[3] = z
    OBVIOUS
  <2> QED
    BY <1>3, <2>1 DEF Avoids
<1> QED
  BY <1>1, <1>2, <1>3

LEMMA FollowStop ==
  ASSUME NEW s \in Streams
  PROVE  Follow(Stop(s)) /\ Avoids(Stop(s), Closing)
<1> DEFINE q == Stop(s)
<1>1. /\ q \in Seq(Steps) /\ Len(q) = 3 /\ q[1] = << "halt", s >> /\ q[2] = << "close", s >>
      /\ q[3] = << "join", s >>
  BY StopIs
<1> HIDE DEF q
<1>2. 1 .. 3 = {1, 2, 3}
  OBVIOUS
<1>3. Avoids(q, Closing)
  <2>1. << "halt", s >> \notin Closing /\ << "close", s >> \notin Closing /\ << "join", s >> \notin Closing
    BY DEF Closing, Only, Error
  <2> QED
    BY <2>1, StopIs, AvoidShort DEF q
<1>4. Rest(q, 1, 3 - 1)
  BY <1>1 DEF Rest, Closing, Only, Error
<1>5. Rest(q, 2, 3 - 2)
  BY <1>1 DEF Rest, Closing, Only, Error
<1>6. Rest(q, 3, 3 - 3)
  BY <1>1 DEF Rest, Closing, Only, Error
<1>7. Follow(q)
  BY <1>1, <1>2, <1>4, <1>5, <1>6, FollowIs
<1> QED
  BY <1>3, <1>7 DEF q

LEMMA PairIs ==
  ASSUME NEW x, NEW y, NEW c, NEW E, NEW D, NEW G
  PROVE  /\ Ends(<< x, y >>, c, E, D) <=> y \in E \/ ((x \in E \/ (c /\ x \notin D)) /\ y \notin D)
         /\ Due(<< x, y >>, c, E, D, G) <=>
              (x \in G => c) /\ (y \in G => x \in E \/ (c /\ x \notin D))
<1> DEFINE q == << x, y >>
<1>1. /\ Len(q) = 2 /\ q[1] = x /\ q[2] = y /\ 1 .. (2 + 1) - 1 = {1, 2} /\ 1 .. 2 - 1 = {1} /\ 1 .. 1 - 1 = {}
      /\ 1 .. 2 = {1, 2} /\ 1 + 1 .. (2 + 1) - 1 = {2} /\ 2 + 1 .. (2 + 1) - 1 = {} /\ 1 + 1 .. 2 - 1 = {}
  OBVIOUS
<1> HIDE DEF q
<1>2. Ends(q, c, E, D) <=> y \in E \/ ((x \in E \/ (c /\ x \notin D)) /\ y \notin D)
  BY <1>1 DEF Ends, Holds
<1>3. Due(q, c, E, D, G) <=> (x \in G => c) /\ (y \in G => x \in E \/ (c /\ x \notin D))
  BY <1>1 DEF Due, Holds
<1> QED
  BY <1>2, <1>3 DEF q

LEMMA TripleIs ==
  ASSUME NEW x, NEW y, NEW z, NEW c, NEW E, NEW D, NEW G
  PROVE  /\ Ends(<< x, y, z >>, c, E, D) <=>
              z \in E \/ ((y \in E \/ ((x \in E \/ (c /\ x \notin D)) /\ y \notin D)) /\ z \notin D)
         /\ Due(<< x, y, z >>, c, E, D, G) <=>
              /\ x \in G => c
              /\ y \in G => x \in E \/ (c /\ x \notin D)
              /\ z \in G => y \in E \/ ((x \in E \/ (c /\ x \notin D)) /\ y \notin D)
<1> DEFINE q == << x, y, z >>
<1>1. /\ Len(q) = 3 /\ q[1] = x /\ q[2] = y /\ q[3] = z
      /\ 1 .. (3 + 1) - 1 = {1, 2, 3} /\ 1 .. 3 - 1 = {1, 2} /\ 1 .. 2 - 1 = {1} /\ 1 .. 1 - 1 = {}
      /\ 1 .. 3 = {1, 2, 3}
      /\ 1 + 1 .. (3 + 1) - 1 = {2, 3} /\ 2 + 1 .. (3 + 1) - 1 = {3} /\ 3 + 1 .. (3 + 1) - 1 = {}
      /\ 1 + 1 .. 3 - 1 = {2} /\ 2 + 1 .. 3 - 1 = {} /\ 1 + 1 .. 2 - 1 = {}
  OBVIOUS
<1> HIDE DEF q
<1>2. Ends(q, c, E, D) <=>
        z \in E \/ ((y \in E \/ ((x \in E \/ (c /\ x \notin D)) /\ y \notin D)) /\ z \notin D)
  BY <1>1 DEF Ends, Holds
<1>3. Due(q, c, E, D, G) <=>
              /\ x \in G => c
              /\ y \in G => x \in E \/ (c /\ x \notin D)
              /\ z \in G => y \in E \/ ((x \in E \/ (c /\ x \notin D)) /\ y \notin D)
  BY <1>1 DEF Due, Holds
<1> QED
  BY <1>2, <1>3 DEF q

-----------------------------------------------------------------------------
(* What the lists of steps are about, through a step of the handler. *)
Live(q, c, E, D) == (c /\ q[1] \notin D) \/ q[1] \in E

Internal == ({"halt", "close", "join", "select", "bind"} \X Streams) \cup ({"create"} \X Tasks)

LEMMA PushedInternal ==
  ASSUME NEW h, NEW n, NEW st \in Streams, NEW run, NEW control, Pushed(h, n, st, run, control),
         NEW D, \A x \in Internal : x \notin D
  PROVE  Len(n) \in Nat /\ Avoids(n, D)
<1>1. /\ \A s \in Streams : /\ << "halt", s >> \notin D /\ << "close", s >> \notin D /\ << "join", s >> \notin D
                            /\ << "select", s >> \notin D /\ << "bind", s >> \notin D
      /\ \A t \in Tasks : << "create", t >> \notin D
  BY DEF Internal
<1>2. Len(n) \in Nat
  BY PushedIs
<1>3. CASE \E x \in Streams :
             /\ h = << "type", x >>
             /\ n = (IF x # st /\ run[st] THEN Stop(st) ELSE << >>) \o << << "select", x >> >>
  <2>1. PICK x \in Streams :
             n = (IF x # st /\ run[st] THEN Stop(st) ELSE << >>) \o << << "select", x >> >>
    BY <1>3
  <2> DEFINE p == IF x # st /\ run[st] THEN Stop(st) ELSE << >>
             q == << << "select", x >> >>
  <2>2. p \in Seq(Steps) /\ q \in Seq(Steps)
    <3>1. << "select", x >> \in Steps
      BY AreSteps DEF OnStream
    <3>2. p \in Seq(Steps)
      BY StopIs
    <3> QED
      BY <3>1, <3>2, OneStep
  <2>3. Avoids(p, D) /\ Avoids(q, D)
    BY <1>1, StopIs, AvoidShort
  <2> HIDE DEF p, q
  <2>4. Avoids(p \o q, D)
    BY <2>2, <2>3, AvoidsJoined
  <2> QED
    BY <2>1, <2>4, <1>2 DEF p, q
<1>4. CASE \E x \in Streams : h = << "restart", x >> /\ run[x] /\ n = Stop(x)
  BY <1>1, <1>2, <1>4, StopIs, AvoidShort
<1>5. CASE \E x \in Streams : h = << "begin", x >> /\ ~run[x] /\ n = << << "bind", x >> >>
  BY <1>1, <1>2, <1>5, AvoidShort
<1>6. CASE \E x \in Streams : h = << "bind", x >> /\ n = Creates(x, control)
  <2>1. PICK x \in Streams : n = Creates(x, control)
    BY <1>6
  <2>2. x = "realtime" \/ x = "buffered"
    BY DEF Streams
  <2>3. "recv" \in Tasks /\ "ctrl" \in Tasks /\ "buff" \in Tasks
    BY DEF Tasks
  <2>4. \/ n = << << "create", "buff" >> >> \/ n = << << "create", "recv" >> >>
        \/ n = << << "create", "recv" >>, << "create", "ctrl" >> >>
    BY <2>1, <2>2, CreatesAre
  <2> QED
    BY <1>1, <1>2, <2>3, <2>4, AvoidShort
<1> QED
  BY <1>3, <1>4, <1>5, <1>6 DEF Pushed

LEMMA SkippedIs ==
  ASSUME NEW q \in Seq(Steps), q # << >>, Follow(q), NEW s \in Streams, q[1] = << "halt", s >>
  PROVE  /\ Tail(q) \in Seq(Steps) /\ Tail(q) # << >> /\ Tail(q)[1] = << "close", s >>
         /\ Tail(Tail(q)) \in Seq(Steps) /\ Tail(Tail(q)) # << >> /\ Tail(Tail(q))[1] = << "join", s >>
<1>1. 1 \in 1 .. Len(q) /\ Len(q) \in Nat
  OBVIOUS
<1>2. 1 + 2 <= Len(q) /\ q[1 + 1] = << "close", s >> /\ q[1 + 2] = << "join", s >>
  BY <1>1 DEF Follow
<1>3. Len(q) >= 3 /\ q[2] = << "close", s >> /\ q[3] = << "join", s >>
  BY <1>2, <1>1
<1> DEFINE t == Tail(q)
<1>4. /\ t \in Seq(Steps) /\ Len(t) = Len(q) - 1
      /\ \A k \in 1 .. Len(t) : t[k] = q[k + 1]
  OBVIOUS
<1> HIDE DEF t
<1>5. t # << >> /\ t[1] = q[2] /\ t[2] = q[3] /\ Len(t) >= 2
  <2>1. 1 \in 1 .. Len(t) /\ 2 \in 1 .. Len(t)
    BY <1>3, <1>4, <1>1
  <2>2. t[1] = q[1 + 1] /\ t[2] = q[2 + 1]
    BY <2>1, <1>4
  <2> QED
    BY <2>1, <2>2, <1>3, <1>4
<1> DEFINE u == Tail(t)
<1>6. /\ u \in Seq(Steps) /\ Len(u) = Len(t) - 1
      /\ \A k \in 1 .. Len(u) : u[k] = t[k + 1]
  BY <1>4, <1>5
<1> HIDE DEF u
<1>7. u # << >> /\ u[1] = t[2]
  <2>1. 1 \in 1 .. Len(u)
    BY <1>5, <1>6, <1>4
  <2>2. u[1] = t[1 + 1]
    BY <2>1, <1>6
  <2> QED
    BY <2>1, <2>2, <1>6
<1> QED
  BY <1>3, <1>4, <1>5, <1>6, <1>7 DEF t, u

LEMMA DueMoves ==
  ASSUME NEW q \in Seq(Steps), q # << >>, Follow(q), NEW r, NEW st \in Streams, NEW run, NEW control,
         NEW kept, NEW made, NEW broke, Rewrites(q, r, st, run, control, kept, made, broke),
         NEW c, NEW d, NEW E, NEW D, NEW G, Due(q, c, E, D, G),
         (kept /\ Popped(q, r, run)) \/ Skipped(q, r, run) => (Live(q, c, E, D) => d),
         \A n : made /\ Pushed(q[1], n, st, run, control) =>
                  (Live(q, c, E, D) => Ends(n, d, E, D)) /\ Due(n, d, E, D, G),
         Stayed(q, r) => (c => d),
         broke /\ Failed(q, r) => Due(r, d, E, D, G),
         \A s \in Streams : << "close", s >> \notin E /\ << "join", s >> \notin E
  PROVE  Due(r, d, E, D, G)
<1>1. CASE kept /\ Popped(q, r, run)
  <2>1. Live(q, c, E, D) => d
    BY <1>1
  <2>2. Due(Tail(q), d, E, D, G)
    BY <2>1, DuePop DEF Live
  <2> QED
    BY <2>2, <1>1 DEF Popped
<1>2. CASE \E n \in Seq(Steps) : made /\ Pushed(q[1], n, st, run, control) /\ r = n \o Tail(q)
  <2>1. PICK n \in Seq(Steps) : made /\ Pushed(q[1], n, st, run, control) /\ r = n \o Tail(q)
    BY <1>2
  <2>2. (Live(q, c, E, D) => Ends(n, d, E, D)) /\ Due(n, d, E, D, G)
    BY <2>1
  <2>3. Due(n \o Tail(q), d, E, D, G)
    BY <2>2, DueReplace DEF Live
  <2> QED
    BY <2>1, <2>3
<1>3. CASE Skipped(q, r, run)
  <2>1. PICK s \in Streams : q[1] = << "halt", s >> /\ r = Tail(Tail(Tail(q)))
    BY <1>3 DEF Skipped
  <2>2. Live(q, c, E, D) => d
    BY <1>3
  <2>3. Due(Tail(q), d, E, D, G)
    BY <2>2, DuePop DEF Live
  <2> DEFINE t == Tail(q)
             u == Tail(t)
  <2>4. t \in Seq(Steps) /\ t # << >> /\ t[1] = << "close", s >>
        /\ u \in Seq(Steps) /\ u # << >> /\ u[1] = << "join", s >>
    BY <2>1, SkippedIs
  <2>5. Due(t, d, E, D, G)
    BY <2>3
  <2> HIDE DEF t
  <2>6. (d /\ t[1] \notin D) \/ t[1] \in E => d
    BY <2>4
  <2>7. Due(u, d, E, D, G)
    BY <2>4, <2>5, <2>6, DuePop
  <2> HIDE DEF u
  <2>8. (d /\ u[1] \notin D) \/ u[1] \in E => d
    BY <2>4
  <2>9. Due(Tail(u), d, E, D, G)
    BY <2>4, <2>7, <2>8, DuePop
  <2> QED
    BY <2>9, <2>1 DEF t, u
<1>4. CASE broke /\ Failed(q, r)
  BY <1>4
<1>5. CASE Stayed(q, r)
  BY <1>5, Stronger DEF Stayed
<1> QED
  BY <1>1, <1>2, <1>3, <1>4, <1>5 DEF Rewrites

(* Which action takes the head, and what each leaves alone. *)
LEMMA ActionOf ==
  ASSUME Shape, Handler
  PROVE  LET op == todo[1][1]
         IN  /\ op = "type" => SwitchType
             /\ op = "select" => Select
             /\ op = "restart" => Restart
             /\ op = "begin" => Begin
             /\ op = "bind" => Bind
             /\ op = "create" => Create
             /\ op = "halt" => Halt
             /\ op = "close" => Close
             /\ op = "join" => Join
             /\ op = "format" => Format
             /\ op = "key" => SetKey
             /\ op = "clear" => ClearReceiver
             /\ op \in {"play", "hold"} => SetPlaying
             /\ op \in {"pause", "unpause"} => SetPaused
             /\ op = "ports" => EnsurePorts
             /\ op = "bufferedport" => TakeBufferedPort
             /\ op = "ntp" => StartNtp
             /\ op = "event" => EventPort
             /\ op = "eventstop" => StopEvent
             /\ op = "free" => Free
             /\ op = "answer" => Answer
<1>1. \A op : Doing(op) => todo[1][1] = op
  BY DEF Doing, Op, Shape
<1> QED
  BY <1>1 DEF Handler, OnStreams, OnConnection, SwitchType, Select, Restart, Begin, Bind, Create, Halt,
     Close, Join, Format, SetKey, ClearReceiver, SetPlaying, SetPaused, EnsurePorts,
     TakeBufferedPort, StartNtp, EventPort, StopEvent, Free, Answer

LEMMA Frame ==
  ASSUME Shape, Handler
  PROVE  LET op == todo[1][1]
         IN  /\ plan' = plan
             /\ op \notin {"bind", "create", "halt"} => running' = running
             /\ op \notin {"bind", "create", "close"} => port' = port
             /\ op # "select" => stream' = stream
             /\ op # "create" => task' = task
             /\ op \notin {"format", "clear"} => decoder' = decoder
             /\ op \notin {"type", "key", "clear"} => key' = key
             /\ op \notin {"play", "hold"} => playing' = playing
             /\ op \notin {"pause", "unpause", "ports", "bufferedport", "event", "free"} => conn' = conn
             /\ op \notin {"event", "eventstop"} => event' = event
             /\ op \notin {"answer", "free"} => promise' = promise
             /\ op # "answer" => sender' = sender
<1>1. \A op : Doing(op) => todo[1][1] = op
  BY DEF Doing, Op, Shape
<1> QED
  BY <1>1 DEF Handler, OnStreams, OnConnection, SwitchType, Select, Restart, Begin, Bind, Create, Halt,
     Close, Join, Format, SetKey, ClearReceiver, SetPlaying, SetPaused, EnsurePorts,
     TakeBufferedPort, StartNtp, EventPort, StopEvent, Free, Answer, outside, receiver

-----------------------------------------------------------------------------
(* The inductive invariant.  Stopped, Selected, Bound and Fresh say what the
   steps still to do rely on; StreamsInv what is true of sockets and tasks
   between them; EventInv the same of the event port. *)
At1(s) == todo # << >> /\ todo[1] = s

Quiet(s) ==
  {<< "close", s >>, << "join", s >>, << "select", Other(s) >>, Only("clear"), Only("free")}
  \cup (IF plan.orderly /\ sender \in {"torn", "ended"} THEN {Okay} ELSE {})

Stopped == \A s \in Streams : Due(todo, ~running[s], {<< "halt", s >>}, StartOf(s), Quiet(s))
Selected == \A s \in Streams :
  Due(todo, stream = s, {<< "type", s >>, << "select", s >>},
      {<< "type", Other(s) >>, << "select", Other(s) >>}, StartOf(s) \cup {<< "restart", s >>})

(* A socket is bound at once, and only for a stream that does not run. *)
Bound == \A s \in Streams : Due(todo, ~running[s], {}, Steps, {<< "bind", s >>})

StreamsInv ==
  /\ \A s \in Streams : running[s] => s = stream /\ port[s] # 0
  /\ \A s \in Streams : port[s] # 0 => s = stream /\ (running[s] \/ At1(<< "close", s >>))
  /\ \A t \in Tasks : task[t] = "decode" =>
       t # "ctrl" /\ StreamOf(t) = stream
       /\ (running[stream] \/ At1(<< "close", stream >>) \/ At1(<< "join", stream >>))
  /\ \A t \in {"recv", "buff"} : running[StreamOf(t)] /\ task[t] = "none" => At1(<< "create", t >>)

EventInv ==
  /\ conn.event_port /\ ~Doing("free")
       => event.handle /\ event.listeners = {conn.id} /\ ~event.should_stop
  /\ conn.id \in 1 .. plan.connections
  /\ event.listeners \subseteq 1 .. conn.id
  /\ event.handle <=> event.listeners # {}
  /\ \A m, n \in event.listeners : m = n
  /\ Due(todo, conn.id < plan.connections, {}, {}, {Only("free")})

(* A port for the buffered stream is answered only while its task runs; a
   realtime stream starts only after the one before it was halted. *)
Breaks(s) == {<< "halt", s >>, << "restart", s >>, << "type", Other(s) >>, << "select", Other(s) >>}
BufferedKnown ==
  Due(todo, running["buffered"], StartOf("buffered"), Breaks("buffered"), {Only("bufferedport")})
Ceases == {<< "halt", "realtime" >>, << "restart", "realtime" >>}
Fresh == Due(todo, ~running["realtime"], Ceases, StartOf("realtime"), StartOf("realtime"))

-----------------------------------------------------------------------------
(* A step of the handler. *)
LEMMA HandlerHead ==
  ASSUME Shape, Types, Handler
  PROVE  /\ todo # << >> /\ todo \in Seq(Steps) /\ Follow(todo) /\ todo[1] \in Steps
         /\ todo[1] = << todo[1][1], todo[1][2] >>
         /\ Rewrites(todo, todo', stream, running, conn.control_port, Kept, Made, Broke)
         /\ stream \in Streams
<1>1. Moves
  BY HandlerMoves
<1>2. todo # << >> /\ todo \in Seq(Steps) /\ Follow(todo)
  BY <1>1 DEF Moves, Shape
<1>3. todo[1] \in Steps
  BY <1>2
<1> QED
  BY <1>1, <1>2, <1>3, StepIs DEF Moves, Types, TypeOK

LEMMA HandlerDue ==
  ASSUME Shape, Types, Handler, NEW c, NEW d, NEW E, NEW D, NEW G, Due(todo, c, E, D, G),
         (Kept /\ Popped(todo, todo', running)) \/ Skipped(todo, todo', running) => (Live(todo, c, E, D) => d),
         \A n : Made /\ Pushed(todo[1], n, stream, running, conn.control_port) =>
                  (Live(todo, c, E, D) => Ends(n, d, E, D)) /\ Due(n, d, E, D, G),
         Stayed(todo, todo') => (c => d),
         Broke /\ Failed(todo, todo') => Due(todo', d, E, D, G),
         \A s \in Streams : << "close", s >> \notin E /\ << "join", s >> \notin E
  PROVE  Due(todo', d, E, D, G)
<1> DEFINE q == todo
           r == todo'
           control == conn.control_port
<1>1. /\ q \in Seq(Steps) /\ q # << >> /\ Follow(q) /\ stream \in Streams
      /\ Rewrites(q, r, stream, running, control, Kept, Made, Broke)
  BY HandlerHead
<1> QED
  BY <1>1, DueMoves

(* The stream a step of the handler starts or stops. *)
LEMMA RunningIs ==
  ASSUME Shape, Types, Handler, NEW s \in Streams
  PROVE  /\ running' \in [Streams -> BOOLEAN]
         /\ todo[1] = << "halt", s >> => ~running'[s]
         /\ running'[s] /\ ~running[s] => todo[1] = << "bind", s >>
         /\ running[s] /\ ~running'[s] =>
              \/ todo[1] = << "halt", s >>
              \/ \E t \in Tasks : /\ todo[1] = << "create", t >> /\ StreamOf(t) = s
                                  /\ todo' = << << "join", s >>, Error >>
<1>1. running \in [Streams -> BOOLEAN] /\ \A t \in Tasks : StreamOf(t) \in Streams
  BY DEF Types, TypeOK, StreamOf, Streams
<1>2. todo[1] = << todo[1][1], todo[1][2] >> /\ todo # << >> /\ todo[1] \in Steps
  BY HandlerHead
<1>3. CASE todo[1][1] = "halt"
  <2>1. Halt /\ Doing("halt")
    BY <1>3, ActionOf DEF Halt
  <2>2. Arg \in Streams /\ todo[1] = << "halt", Arg >>
    BY <2>1, HeadIs DEF OnStream
  <2>3. running' = [running EXCEPT ![Arg] = FALSE] \/ (~running[Arg] /\ running' = running)
    BY <2>1 DEF Halt
  <2>4. todo[1] = << "halt", s >> <=> Arg = s
    BY <2>2
  <2>5. running' \in [Streams -> BOOLEAN] /\ ~running'[Arg] /\ \A x \in Streams : x # Arg => running'[x] = running[x]
    BY <1>1, <2>2, <2>3
  <2> QED
    BY <2>4, <2>5
<1>4. CASE todo[1][1] = "bind"
  <2>1. Bind /\ Doing("bind")
    BY <1>4, ActionOf DEF Bind
  <2>2. Arg \in Streams /\ todo[1] = << "bind", Arg >>
    BY <2>1, HeadIs DEF OnStream
  <2>3. running' = [running EXCEPT ![Arg] = TRUE] \/ running' = running
    BY <2>1 DEF Bind
  <2>4. (todo[1] = << "bind", s >> <=> Arg = s) /\ todo[1] # << "halt", s >>
    BY <2>2
  <2>5. running' \in [Streams -> BOOLEAN] /\ (running[Arg] => running'[Arg])
        /\ \A x \in Streams : x # Arg => running'[x] = running[x]
    BY <1>1, <2>2, <2>3
  <2> QED
    BY <2>4, <2>5
<1>5. CASE todo[1][1] = "create"
  <2>1. Create /\ Doing("create")
    BY <1>5, ActionOf DEF Create
  <2>2. Arg \in Tasks /\ todo[1] = << "create", Arg >>
    BY <2>1, HeadIs
  <2>3. \/ /\ running' = [running EXCEPT ![StreamOf(Arg)] = FALSE]
           /\ todo' = << << "join", StreamOf(Arg) >>, Error >>
        \/ running' = running
    BY <2>1 DEF Create, Error
  <2>4. todo[1] # << "halt", s >>
    BY <2>2
  <2>5. StreamOf(Arg) \in Streams
    BY <2>2, <1>1
  <2>6. running' \in [Streams -> BOOLEAN]
        /\ \A x \in Streams : running'[x] # running[x] =>
             /\ x = StreamOf(Arg) /\ ~running'[x]
             /\ todo' = << << "join", x >>, Error >>
    BY <1>1, <2>3, <2>5
  <2> QED
    BY <2>2, <2>4, <2>6
<1>6. CASE todo[1][1] \notin {"halt", "bind", "create"}
  <2>1. running' = running
    BY <1>6, Frame
  <2>2. todo[1] # << "halt", s >>
    BY <1>6
  <2> QED
    BY <1>1, <2>1, <2>2
<1> QED
  BY <1>3, <1>4, <1>5, <1>6

LEMMA SenderIs ==
  ASSUME Shape, Types, Handler
  PROVE  plan' = plan /\ (sender' = sender \/ (todo' = << >> /\ todo[1] = Error))
<1>1. plan' = plan /\ (todo[1][1] # "answer" => sender' = sender)
  BY Frame
<1>2. CASE todo[1][1] = "answer"
  <2>1. Answer /\ Doing("answer")
    BY <1>2, ActionOf DEF Answer
  <2>2. todo[1] = << "answer", Arg >> /\ todo # << >> /\ todo \in Seq(Steps) /\ Follow(todo)
    BY <2>1, HeadIs DEF Shape
  <2>3. CASE Arg = "error"
    <3>1. todo[1] = Error /\ 1 \in 1 .. Len(todo)
      BY <2>2, <2>3 DEF Error
    <3>2. Len(todo) = 1
      BY <3>1, <2>2 DEF Follow
    <3>3. todo' = Tail(todo)
      BY <2>1 DEF Answer, Done
    <3>4. Tail(todo) = << >>
      BY <2>2, <3>2
    <3> QED
      BY <1>1, <3>1, <3>3, <3>4
  <2>4. CASE Arg # "error"
    BY <1>1, <2>1, <2>4 DEF Answer
  <2> QED
    BY <2>3, <2>4
<1> QED
  BY <1>1, <1>2

-----------------------------------------------------------------------------
(* The first families, through a step of the handler. *)
Past(x, c, E, D) == x \in E \/ (c /\ x \notin D)

LEMMA StopPair ==
  ASSUME NEW s \in Streams, NEW x \in Streams, NEW c, NEW E, NEW D, NEW G,
         << "close", s >> \notin D, << "join", s >> \notin D,
         Past(<< "halt", s >>, c, E, D)
  PROVE  /\ Ends(Stop(s), c, E, D)
         /\ (<< "halt", s >> \in G => c) => Due(Stop(s), c, E, D, G)
         /\ << "select", x >> \notin D \/ << "select", x >> \in E
              => Ends(Stop(s) \o << << "select", x >> >>, c, E, D)
         /\ (<< "halt", s >> \in G => c) => Due(Stop(s) \o << << "select", x >> >>, c, E, D, G)
<1> DEFINE h == << "halt", s >>
           e == << "close", s >>
           j == << "join", s >>
           y == << "select", x >>
           p == << h, e, j >>
           q == << y >>
<1>1. Stop(s) = p /\ Stop(s) \in Seq(Steps)
  BY StopIs
<1>2. y \in Steps /\ e \notin D /\ j \notin D /\ (h \in E \/ (c /\ h \notin D))
  BY AreSteps DEF OnStream, Past
<1> HIDE DEF h, e, j, y
<1>3. q \in Seq(Steps)
  BY <1>2
<1>4. Ends(p, c, E, D) /\ ((h \in G => c) => Due(p, c, E, D, G))
  BY <1>2, TripleIs
<1>5. Due(q, TRUE, E, D, G) /\ (y \notin D => Avoids(q, D)) /\ (y \in E => Ends(q, FALSE, E, D))
  BY Single, AvoidShort
<1> HIDE DEF p, q
<1>6. y \notin D \/ y \in E => Ends(p \o q, c, E, D)
  BY <1>1, <1>3, <1>4, <1>5, EndsJoined
<1>7. (h \in G => c) => Due(p \o q, c, E, D, G)
  BY <1>1, <1>3, <1>4, <1>5, DueJoined
<1> QED
  BY <1>1, <1>4, <1>6, <1>7 DEF h, y, q

(* A step that pushes steps: what it pushes. *)
HeadOp == todo[1][1]
HeadArg == todo[1][2]

LEMMA HeadPair ==
  ASSUME Shape, Types, Handler
  PROVE  /\ \A op, x : (todo[1] = << op, x >>) <=> (HeadOp = op /\ HeadArg = x)
         /\ HeadOp \in OnStream => HeadArg \in Streams
         /\ HeadOp = "create" => HeadArg \in Tasks
         /\ HeadOp \in Alone => HeadArg = ""
<1>1. todo[1] = << todo[1][1], todo[1][2] >> /\ todo[1] \in Steps
  BY HandlerHead
<1>2. todo[1] = << HeadOp, HeadArg >>
  BY <1>1 DEF HeadOp, HeadArg
<1>3. \A op, x : (<< HeadOp, HeadArg >> = << op, x >>) <=> (HeadOp = op /\ HeadArg = x)
  OBVIOUS
<1> QED
  BY <1>1, <1>2, <1>3, StepIs DEF HeadOp, HeadArg

LEMMA PushCases ==
  ASSUME Shape, Types, Handler, NEW n,
         Pushed(todo[1], n, stream, running, conn.control_port)
  PROVE  /\ n \in Seq(Steps) /\ Len(n) \in Nat
         /\ HeadArg \in Streams
         /\ \/ /\ HeadOp = "type" /\ HeadArg # stream /\ running[stream] /\ running' = running
               /\ n = Stop(stream) \o << << "select", HeadArg >> >>
            \/ /\ HeadOp = "type" /\ (HeadArg = stream \/ ~running[stream]) /\ running' = running
               /\ n = << << "select", HeadArg >> >>
            \/ HeadOp = "restart" /\ running[HeadArg] /\ n = Stop(HeadArg) /\ running' = running
            \/ /\ HeadOp = "begin" /\ ~running[HeadArg] /\ n = << << "bind", HeadArg >> >>
               /\ running' = running
            \/ /\ HeadOp = "bind"
               /\ n \in {<< << "create", "buff" >> >>, << << "create", "recv" >> >>,
                         << << "create", "recv" >>, << "create", "ctrl" >> >>}
               /\ n = Creates(HeadArg, conn.control_port)
<1>1. HeadOp \notin {"bind", "create", "halt"} => running' = running
  BY Frame DEF HeadOp
<1>2. \A op, x : (todo[1] = << op, x >>) <=> (HeadOp = op /\ HeadArg = x)
  BY HeadPair
<1>0. n \in Seq(Steps) /\ Len(n) \in Nat
  BY PushedIs DEF Types, TypeOK
<1>3. CASE \E x \in Streams :
             /\ todo[1] = << "type", x >>
             /\ n = (IF x # stream /\ running[stream] THEN Stop(stream) ELSE << >>) \o << << "select", x >> >>
  <2>1. PICK x \in Streams :
             /\ todo[1] = << "type", x >>
             /\ n = (IF x # stream /\ running[stream] THEN Stop(stream) ELSE << >>) \o << << "select", x >> >>
    BY <1>3
  <2>2. HeadArg = x /\ HeadOp = "type" /\ HeadArg \in Streams
    BY <2>1, <1>2
  <2> DEFINE y == << "select", HeadArg >>
  <2>3. n = (IF HeadArg # stream /\ running[stream] THEN Stop(stream) ELSE << >>) \o << y >>
    BY <2>1, <2>2
  <2>4. y \in Steps
    BY <2>2, AreSteps DEF OnStream
  <2> HIDE DEF y
  <2>5. << >> \o << y >> = << y >>
    BY <2>4
  <2>6. running' = running
    BY <1>1, <2>2
  <2>7. \/ HeadArg # stream /\ running[stream] /\ n = Stop(stream) \o << y >>
        \/ (HeadArg = stream \/ ~running[stream]) /\ n = << y >>
    BY <2>3, <2>5
  <2> QED
    BY <1>0, <2>2, <2>6, <2>7 DEF y
<1>4. CASE \E x \in Streams : todo[1] = << "restart", x >> /\ running[x] /\ n = Stop(x)
  <2>1. PICK x \in Streams : todo[1] = << "restart", x >> /\ running[x] /\ n = Stop(x)
    BY <1>4
  <2>2. HeadArg = x /\ HeadOp = "restart" /\ running' = running
    BY <2>1, <1>1, <1>2
  <2> QED
    BY <1>0, <2>1, <2>2
<1>5. CASE \E x \in Streams : todo[1] = << "begin", x >> /\ ~running[x] /\ n = << << "bind", x >> >>
  <2>1. PICK x \in Streams : todo[1] = << "begin", x >> /\ ~running[x] /\ n = << << "bind", x >> >>
    BY <1>5
  <2>2. HeadArg = x /\ HeadOp = "begin" /\ running' = running
    BY <2>1, <1>1, <1>2
  <2> QED
    BY <1>0, <2>1, <2>2
<1>6. CASE \E x \in Streams : todo[1] = << "bind", x >> /\ n = Creates(x, conn.control_port)
  <2>0. PICK x \in Streams : todo[1] = << "bind", x >> /\ n = Creates(x, conn.control_port)
    BY <1>6
  <2>1. HeadOp = "bind" /\ HeadArg \in Streams /\ n = Creates(HeadArg, conn.control_port)
    BY <1>2, <2>0
  <2>2. HeadArg = "realtime" \/ HeadArg = "buffered"
    BY <2>1 DEF Streams
  <2>3. n \in {<< << "create", "buff" >> >>, << << "create", "recv" >> >>,
               << << "create", "recv" >>, << "create", "ctrl" >> >>}
    BY <2>1, <2>2, CreatesAre
  <2> QED
    BY <1>0, <2>1, <2>3
<1> QED
  BY <1>3, <1>4, <1>5, <1>6 DEF Pushed

(* Steps of an inner list that no family but one is about. *)
LEMMA PushedAvoids ==
  ASSUME Shape, Types, Handler, NEW n, Pushed(todo[1], n, stream, running, conn.control_port),
         NEW D, \A s \in Streams : /\ << "halt", s >> \notin D /\ << "close", s >> \notin D
                                   /\ << "join", s >> \notin D,
         \A t \in Tasks : << "create", t >> \notin D
  PROVE  /\ HeadOp \notin {"type", "begin"} => Avoids(n, D)
         /\ HeadOp = "type" /\ << "select", HeadArg >> \notin D => Avoids(n, D)
         /\ HeadOp = "begin" /\ << "bind", HeadArg >> \notin D => Avoids(n, D)
<1> DEFINE y == << "select", HeadArg >>
           z == << "bind", HeadArg >>
           q == << y >>
<1>1. stream \in Streams /\ HeadArg \in Streams
  BY PushCases DEF Types, TypeOK
<1>2. y \in Steps
  BY <1>1, AreSteps DEF OnStream
<1>3. \A s \in Streams : Stop(s) \in Seq(Steps) /\ Avoids(Stop(s), D)
  <2> TAKE s \in Streams
  <2> QED
    BY StopIs, AvoidShort
<1>4. /\ Avoids(<< << "create", "buff" >> >>, D) /\ Avoids(<< << "create", "recv" >> >>, D)
      /\ Avoids(<< << "create", "recv" >>, << "create", "ctrl" >> >>, D)
  <2>1. "buff" \in Tasks /\ "recv" \in Tasks /\ "ctrl" \in Tasks
    BY DEF Tasks
  <2> QED
    BY <2>1, AvoidShort
<1>5. \/ HeadOp = "type" /\ n = Stop(stream) \o q
      \/ HeadOp = "type" /\ n = q
      \/ HeadOp = "restart" /\ n = Stop(HeadArg)
      \/ HeadOp = "begin" /\ n = << z >>
      \/ /\ HeadOp = "bind"
         /\ n \in {<< << "create", "buff" >> >>, << << "create", "recv" >> >>,
                   << << "create", "recv" >>, << "create", "ctrl" >> >>}
  BY PushCases
<1> HIDE DEF y, z
<1>a. q \in Seq(Steps)
  BY <1>2
<1>6. (y \notin D => Avoids(q, D)) /\ (z \notin D => Avoids(<< z >>, D))
  BY AvoidShort
<1> HIDE DEF q
<1>7. y \notin D => Avoids(Stop(stream) \o q, D)
  BY <1>1, <1>3, <1>a, <1>6, AvoidsJoined
<1> QED
  BY <1>1, <1>3, <1>4, <1>5, <1>6, <1>7 DEF y, z

LEMMA FailedIs ==
  ASSUME Shape, Types, Handler, Broke, Failed(todo, todo')
  PROVE  /\ todo[1] \in Fallible
         /\ \/ todo' = << Error >>
            \/ \E s \in Streams : /\ todo' = << << "join", s >>, Error >>
                                  /\ ~running'[s] /\ port'[s] = 0
<1>1. \A t \in Tasks : StreamOf(t) \in Streams
  BY DEF StreamOf, Streams
<1> QED
  BY <1>1 DEF Failed, Broke

LEMMA FailedDue ==
  ASSUME Shape, Types, Handler, Broke, Failed(todo, todo'), NEW d, NEW E, NEW D, NEW G,
         Error \notin G,
         \A s \in Streams : ~running'[s] /\ << "join", s >> \in G => d
  PROVE  Due(todo', d, E, D, G)
<1>1. CASE todo' = << Error >>
  BY <1>1, Single
<1>2. CASE \E s \in Streams : todo' = << << "join", s >>, Error >> /\ ~running'[s]
  <2>1. PICK s \in Streams : todo' = << << "join", s >>, Error >> /\ ~running'[s]
    BY <1>2
  <2> DEFINE j == << "join", s >>
  <2>2. (j \in G => d) /\ todo' = << j, Error >>
    BY <2>1
  <2> HIDE DEF j
  <2> QED
    BY <2>2, PairIs
<1> QED
  BY <1>1, <1>2, FailedIs

LEMMA StayedIs ==
  ASSUME Shape, Types, Handler, Stayed(todo, todo')
  PROVE  HeadOp = "event" /\ todo' = todo /\ running' = running /\ stream' = stream /\ port' = port
         /\ decoder' = decoder /\ key' = key /\ playing' = playing /\ task' = task
         /\ promise' = promise /\ sender' = sender
<1>1. todo[1] = << "event", "" >> /\ todo' = todo
  BY DEF Stayed, Only
<1>2. HeadOp = "event"
  BY <1>1, HeadPair
<1> QED
  BY <1>1, <1>2, Frame DEF HeadOp

(* A socket that was bound, a task that was made. *)
LEMMA MadeIs ==
  ASSUME Shape, Types, Handler, Made, HeadOp = "bind"
  PROVE  /\ HeadArg \in Streams
         /\ running' = [running EXCEPT ![HeadArg] = TRUE]
         /\ \E p \in IF Wanted(HeadArg) = 0 THEN Ports ELSE {Wanted(HeadArg)} :
              port' = [port EXCEPT ![HeadArg] = p]
         /\ running'[HeadArg]
<1>1. HeadArg \in Streams /\ todo[1] = << "bind", HeadArg >>
  BY HeadPair DEF OnStream
<1>2. running \in [Streams -> BOOLEAN]
  BY DEF Types, TypeOK
<1> QED
  BY <1>1, <1>2 DEF Made

LEMMA KeptIs ==
  ASSUME Shape, Types, Handler, Kept, NEW s \in Streams, running[s], ~running'[s]
  PROVE  todo[1] = << "halt", s >> /\ HeadOp = "halt" /\ HeadArg = s
<1>1. \A t \in Tasks : todo[1] # << "create", t >>
  BY DEF Kept
<1> QED
  BY <1>1, RunningIs, HeadPair

LEMMA QuietKept ==
  ASSUME Shape, Types, Handler, NEW s \in Streams, todo' # << >>
  PROVE  Quiet(s)' = Quiet(s)
BY SenderIs DEF Quiet

LEMMA StoppedKept ==
  ASSUME Shape, Types, StreamsInv, Stopped, Handler
  PROVE  Stopped'
<1> SUFFICES ASSUME NEW s \in Streams
             PROVE  Due(todo', ~running'[s], {<< "halt", s >>}, StartOf(s), Quiet(s)')
  BY DEF Stopped
<1>0. CASE todo' = << >>
  BY <1>0, Empty
<1>a. CASE todo' # << >>
  <2> DEFINE c == ~running[s]
             d == ~running'[s]
             E == {<< "halt", s >>}
             D == StartOf(s)
             G == Quiet(s)
  <2>1. Due(todo, c, E, D, G)
    BY DEF Stopped
  <2>2. /\ todo[1] = << "halt", s >> => ~running'[s]
        /\ running'[s] /\ ~running[s] => todo[1] = << "bind", s >>
    BY RunningIs
  <2>3. << "bind", s >> \in D /\ << "begin", s >> \in D /\ << "halt", s >> \notin D /\ << "halt", s >> \in E
        /\ \A x \in Streams : << "close", x >> \notin D /\ << "join", x >> \notin D /\ << "select", x >> \notin D
                              /\ << "halt", x >> \notin D
                              /\ << "close", x >> \notin E /\ << "join", x >> \notin E
    BY DEF StartOf
  <2>4. Live(todo, c, E, D) => d
    BY <2>2, <2>3 DEF Live
  <2>5. /\ \A t \in Tasks : << "create", t >> \notin G
        /\ \A x \in Streams : << "bind", x >> \notin G /\ << "halt", x >> \notin G
        /\ \A x \in Streams : << "select", x >> \in G => x # s
        /\ Error \notin G
    BY DEF Quiet, Only, Okay, Error, Other, Streams
  <2>6. ASSUME NEW n, Pushed(todo[1], n, stream, running, conn.control_port)
        PROVE  (Live(todo, c, E, D) => Ends(n, d, E, D)) /\ Due(n, d, E, D, G)
    <3>1. stream \in Streams /\ (running[s] => s = stream) /\ (\A x \in Streams : running[x] => x = stream)
      BY DEF Types, TypeOK, StreamsInv
    <3>2. HeadArg \in Streams /\ Len(n) \in Nat
      BY <2>6, PushCases
    <3>3. CASE /\ HeadOp = "type" /\ HeadArg # stream /\ running[stream] /\ running' = running
               /\ n = Stop(stream) \o << << "select", HeadArg >> >>
      <4>1. d \/ s = stream
        BY <3>1, <3>3
      <4>2. Past(<< "halt", stream >>, d, E, D)
        BY <4>1, <2>3, <3>1 DEF Past
      <4> QED
        BY <4>2, <3>1, <3>2, <3>3, <2>3, <2>5, StopPair
    <3>4. CASE /\ HeadOp = "type" /\ (HeadArg = stream \/ ~running[stream]) /\ running' = running
               /\ n = << << "select", HeadArg >> >>
      <4> DEFINE y == << "select", HeadArg >>
      <4>1. (y \in G => d) /\ y \notin D /\ n = << y >>
        BY <2>3, <2>5, <3>1, <3>2, <3>4 DEF Streams
      <4> HIDE DEF y, d, E, D, G
      <4> QED
        BY <4>1, <2>4, Single
    <3>5. CASE HeadOp = "restart" /\ running[HeadArg] /\ n = Stop(HeadArg) /\ running' = running
      <4>1. Past(<< "halt", HeadArg >>, d, E, D)
        BY <3>5, <2>3, <3>1, <3>2 DEF Past
      <4> QED
        BY <4>1, <3>2, <3>5, <2>3, <2>5, StopPair
    <3>6. CASE HeadOp = "begin" /\ n = << << "bind", HeadArg >> >>
      <4> DEFINE z == << "bind", HeadArg >>
      <4>1. z \notin G /\ n = << z >>
        BY <2>5, <3>2, <3>6
      <4>2. Live(todo, c, E, D) => d /\ z \notin D
        <5>1. todo[1] = << "begin", HeadArg >>
          BY <3>6, HeadPair
        <5> QED
          BY <5>1, <2>4 DEF Live, StartOf
      <4> HIDE DEF z, d, E, D, G
      <4> QED
        BY <4>1, <4>2, Single
    <3>7. CASE HeadOp = "bind"
      <4>1. \A t \in Tasks : << "create", t >> \notin D
        BY DEF StartOf
      <4>2. \A x \in Streams : << "close", x >> \notin D /\ << "join", x >> \notin D /\ << "halt", x >> \notin D
        BY <2>3
      <4>3. Avoids(n, D)
        BY <3>7, <4>1, <4>2, <2>6, PushedAvoids
      <4>4. Avoids(n, G)
        <5>1. "buff" \in Tasks /\ "recv" \in Tasks /\ "ctrl" \in Tasks
          BY DEF Tasks
        <5>2. n \in {<< << "create", "buff" >> >>, << << "create", "recv" >> >>,
                     << << "create", "recv" >>, << "create", "ctrl" >> >>}
          BY <2>6, <3>7, PushCases
        <5> HIDE DEF G
        <5> QED
          BY <5>1, <5>2, <2>5, AvoidShort
      <4> QED
        BY <4>3, <4>4, <2>4, <3>2, EndsAvoid, DueAvoid
    <3>8. \/ /\ HeadOp = "type" /\ HeadArg # stream /\ running[stream] /\ running' = running
             /\ n = Stop(stream) \o << << "select", HeadArg >> >>
          \/ /\ HeadOp = "type" /\ (HeadArg = stream \/ ~running[stream]) /\ running' = running
             /\ n = << << "select", HeadArg >> >>
          \/ HeadOp = "restart" /\ running[HeadArg] /\ n = Stop(HeadArg) /\ running' = running
          \/ HeadOp = "begin" /\ n = << << "bind", HeadArg >> >>
          \/ HeadOp = "bind"
      BY <2>6, PushCases
    <3> HIDE DEF c, d, E, D, G
    <3> QED
      BY <3>3, <3>4, <3>5, <3>6, <3>7, <3>8
  <2>7. Stayed(todo, todo') => (c => d)
    <3>1. Only("event") # << "bind", s >>
      BY DEF Only
    <3> QED
      BY <3>1, <2>2 DEF Stayed
  <2>8. Broke /\ Failed(todo, todo') => Due(todo', d, E, D, G)
    <3>1. \A x \in Streams : ~running'[x] /\ << "join", x >> \in G => d
      BY DEF Quiet, Only, Okay, Other
    <3> QED
      BY <3>1, <2>5, FailedDue
  <2> HIDE DEF c, d, E, D, G
  <2>9. Due(todo', d, E, D, G)
    BY <2>1, <2>3, <2>4, <2>6, <2>7, <2>8, HandlerDue
  <2> QED
    BY <1>a, <2>9, QuietKept DEF c, d, E, D, G
<1> QED
  BY <1>0, <1>a
LEMMA SelectedKept ==
  ASSUME Shape, Types, Selected, Handler
  PROVE  Selected'
<1> SUFFICES ASSUME NEW s \in Streams
             PROVE  Due(todo', stream' = s, {<< "type", s >>, << "select", s >>},
                        {<< "type", Other(s) >>, << "select", Other(s) >>}, StartOf(s) \cup {<< "restart", s >>})
  BY DEF Selected
<1> DEFINE c == stream = s
           d == stream' = s
           E == {<< "type", s >>, << "select", s >>}
           D == {<< "type", Other(s) >>, << "select", Other(s) >>}
           G == StartOf(s) \cup {<< "restart", s >>}
<1>1. Due(todo, c, E, D, G)
  BY DEF Selected
<1>2. todo \in Seq(Steps) /\ todo # << >> /\ \A op, x : (todo[1] = << op, x >>) <=> (HeadOp = op /\ HeadArg = x)
  BY HandlerHead, HeadPair
<1>3. /\ HeadOp # "select" => stream' = stream
      /\ HeadOp = "select" => stream' = HeadArg
  <2>1. CASE HeadOp = "select"
    <3>1. Select /\ Doing("select")
      BY <2>1, ActionOf DEF Select, HeadOp
    <3> QED
      BY <3>1, <2>1, HeadIs DEF Select, HeadArg
  <2> QED
    BY <2>1, Frame DEF HeadOp
<1>4. /\ Other(s) \in Streams /\ Other(s) # s /\ \A x \in Streams : x = s \/ x = Other(s)
  BY DEF Other, Streams
<1>5. HeadOp \in {"type", "select"} => HeadArg \in Streams
  BY HeadPair DEF OnStream
<1>6. HeadOp # "type" /\ Live(todo, c, E, D) => d
  <2> SUFFICES ASSUME HeadOp # "type", Live(todo, c, E, D) PROVE d
    OBVIOUS
  <2>1. CASE HeadOp = "select"
    <3>1. HeadArg \in Streams /\ stream' = HeadArg
      BY <2>1, <1>3, <1>5
    <3>2. HeadArg # Other(s)
      <4>1. << "select", Other(s) >> \notin E
        BY <1>4
      <4> QED
        BY <4>1, <2>1, <1>2 DEF Live
    <3> QED
      BY <3>1, <3>2, <1>4
  <2>2. CASE HeadOp # "select"
    <3>1. todo[1] \notin E
      BY <2>2, <1>2
    <3> QED
      BY <3>1, <2>2, <1>3 DEF Live
  <2> QED
    BY <2>1, <2>2
<1>7. /\ \A x \in Streams : /\ << "halt", x >> \notin D /\ << "close", x >> \notin D
                            /\ << "join", x >> \notin D /\ << "bind", x >> \notin D
                            /\ << "halt", x >> \notin G /\ << "close", x >> \notin G
                            /\ << "join", x >> \notin G /\ << "select", x >> \notin G
                            /\ << "close", x >> \notin E /\ << "join", x >> \notin E
                            /\ (<< "bind", x >> \in G => x = s)
      /\ \A t \in Tasks : << "create", t >> \notin D /\ << "create", t >> \notin G
      /\ Error \notin G
  BY DEF StartOf, Error
<1>8. ASSUME NEW n, Pushed(todo[1], n, stream, running, conn.control_port)
      PROVE  (Live(todo, c, E, D) => Ends(n, d, E, D)) /\ Due(n, d, E, D, G)
  <2>1. /\ HeadOp \notin {"type", "begin"} => Avoids(n, D) /\ Avoids(n, G)
        /\ HeadOp = "type" => Avoids(n, G)
        /\ HeadOp = "begin" => Avoids(n, D)
        /\ HeadArg \in Streams /\ Len(n) \in Nat
    <3>1. HeadArg \in Streams /\ n \in Seq(Steps) /\ Len(n) \in Nat
      BY <1>8, PushCases
    <3> HIDE DEF D, G
    <3> QED
      BY <3>1, <1>7, <1>8, PushedAvoids
  <2>2. CASE HeadOp = "type"
    <3>1. Due(n, d, E, D, G)
      BY <2>1, <2>2, DueAvoid
    <3>2. Live(todo, c, E, D) => HeadArg = s
      <4>1. Other(s) # s /\ << "type", Other(s) >> \notin E
        BY <1>4
      <4>2. HeadArg = Other(s) => todo[1] = << "type", Other(s) >>
        BY <2>2, <1>2
      <4> QED
        BY <4>1, <4>2, <2>1, <1>4 DEF Live
    <3>3. HeadArg = s => Ends(n, d, E, D)
      <4> DEFINE y == << "select", s >>
      <4> SUFFICES ASSUME HeadArg = s PROVE Ends(n, d, E, D)
        OBVIOUS
      <4>1. y \in E /\ stream \in Streams /\ y \in Steps
        BY AreSteps DEF Types, TypeOK, OnStream
      <4>2. n = << y >> \/ n = Stop(stream) \o << y >>
        BY <1>8, <2>2, PushCases
      <4> HIDE DEF y, E, D, d
      <4>3. << y >> \in Seq(Steps) /\ Stop(stream) \in Seq(Steps)
        BY <4>1, StopIs
      <4>4. Ends(<< y >>, FALSE, E, D) /\ Ends(<< y >>, d, E, D)
        BY <4>1, Single
      <4> HIDE DEF y
      <4>5. Ends(Stop(stream) \o << y >>, d, E, D)
        BY <4>3, <4>4, EndsJoined
      <4> QED
        BY <4>2, <4>4, <4>5
    <3> QED
      BY <3>1, <3>2, <3>3
  <2>3. CASE HeadOp = "begin"
    <3> DEFINE z == << "bind", HeadArg >>
    <3>1. n = << z >> /\ todo[1] = << "begin", HeadArg >>
      BY <1>2, <1>8, <2>3, PushCases
    <3>2. HeadArg = s => todo[1] \in G
      BY <3>1 DEF StartOf
    <3>3. HeadArg = s => c
      BY <3>2, <1>1, <1>2, DueHead
    <3>4. (c => d) /\ (z \in G => d)
      BY <2>1, <2>3, <1>3, <3>3, <1>7
    <3> HIDE DEF z, d, E, D, G
    <3>5. Due(n, d, E, D, G)
      BY <3>1, <3>4, Single
    <3> QED
      BY <2>1, <2>3, <3>5, <1>6, EndsAvoid
  <2>4. CASE HeadOp \notin {"type", "begin"}
    BY <2>1, <2>4, <1>6, EndsAvoid, DueAvoid
  <2> QED
    BY <2>2, <2>3, <2>4
<1>9. Stayed(todo, todo') => (c => d)
  BY StayedIs, <1>3
<1>10. Broke /\ Failed(todo, todo') => Due(todo', d, E, D, G)
  BY <1>7, FailedDue
<1>11. Popped(todo, todo', running) \/ Skipped(todo, todo', running) => HeadOp # "type"
  BY <1>2 DEF Popped, Skipped, HeadOp
<1> HIDE DEF c, d, E, D, G
<1>12. Due(todo', d, E, D, G)
  BY <1>1, <1>6, <1>7, <1>8, <1>9, <1>10, <1>11, HandlerDue
<1> QED
  BY <1>12 DEF c, d, E, D, G

LEMMA BoundKept ==
  ASSUME Shape, Types, Bound, Handler
  PROVE  Bound'
<1> SUFFICES ASSUME NEW s \in Streams
             PROVE  Due(todo', ~running'[s], {}, Steps, {<< "bind", s >>})
  BY DEF Bound
<1> DEFINE c == ~running[s]
           d == ~running'[s]
           E == {}
           D == Steps
           G == {<< "bind", s >>}
<1>1. Due(todo, c, E, D, G)
  BY DEF Bound
<1>2. ~Live(todo, c, E, D)
  BY HandlerHead DEF Live
<1>3. /\ \A x \in Streams : << "halt", x >> \notin G /\ << "close", x >> \notin G
                            /\ << "join", x >> \notin G /\ << "select", x >> \notin G
      /\ \A t \in Tasks : << "create", t >> \notin G
      /\ Error \notin G
  BY DEF Error
<1>4. ASSUME NEW n, Pushed(todo[1], n, stream, running, conn.control_port)
      PROVE  (Live(todo, c, E, D) => Ends(n, d, E, D)) /\ Due(n, d, E, D, G)
  <2>1. HeadArg \in Streams
    BY <1>4, PushCases
  <2>2. CASE HeadOp # "begin"
    <3>1. Avoids(n, G)
      <4> HIDE DEF G
      <4> QED
        BY <2>1, <2>2, <1>3, <1>4, PushedAvoids
    <3> QED
      BY <1>2, <3>1, DueAvoid
  <2>3. CASE HeadOp = "begin"
    <3> DEFINE z == << "bind", HeadArg >>
    <3>1. n = << z >> /\ ~running[HeadArg] /\ running' = running
      BY <1>4, <2>3, PushCases
    <3>2. z \in G => d
      BY <3>1
    <3> HIDE DEF z, d, E, D, G
    <3>3. Due(n, d, E, D, G)
      BY <3>1, <3>2, Single
    <3> QED
      BY <3>3, <1>2
  <2> QED
    BY <2>2, <2>3
<1>5. Stayed(todo, todo') => (c => d)
  BY StayedIs
<1>6. Broke /\ Failed(todo, todo') => Due(todo', d, E, D, G)
  BY <1>3, FailedDue
<1> HIDE DEF c, d, D, G
<1>7. Due(todo', d, E, D, G)
  BY <1>1, <1>2, <1>4, <1>5, <1>6, HandlerDue
<1> QED
  BY <1>7 DEF c, d, E, D, G

LEMMA FreshKept ==
  ASSUME Shape, Types, Fresh, Handler
  PROVE  Fresh'
<1> SUFFICES Due(todo', ~running'["realtime"], Ceases, StartOf("realtime"), StartOf("realtime"))
  BY DEF Fresh, Ceases, StartOf
<1> DEFINE c == ~running["realtime"]
           d == ~running'["realtime"]
           E == Ceases
           D == StartOf("realtime")
           G == StartOf("realtime")
<1>0. "realtime" \in Streams
  BY DEF Streams
<1>1. Due(todo, c, E, D, G)
  BY DEF Fresh
<1>2. /\ todo[1] = << "halt", "realtime" >> => d
      /\ ~d /\ c => todo[1] = << "bind", "realtime" >>
  BY <1>0, RunningIs
<1>3. /\ \A x \in Streams : /\ << "halt", x >> \notin G /\ << "close", x >> \notin G
                            /\ << "join", x >> \notin G /\ << "select", x >> \notin G
                            /\ << "halt", x >> \notin D /\ << "close", x >> \notin D
                            /\ << "join", x >> \notin D /\ << "select", x >> \notin D
                            /\ << "close", x >> \notin E /\ << "join", x >> \notin E
                            /\ (<< "bind", x >> \in G => x = "realtime")
                            /\ (<< "bind", x >> \in D => x = "realtime")
      /\ \A t \in Tasks : << "create", t >> \notin G /\ << "create", t >> \notin D
      /\ Error \notin G
  BY DEF Error, StartOf, Ceases
<1>4. \A op, x : (todo[1] = << op, x >>) <=> (HeadOp = op /\ HeadArg = x)
  BY HeadPair
<1>5. HeadOp # "restart" /\ Live(todo, c, E, D) => d
  BY <1>2, <1>4 DEF Live, Ceases, StartOf
<1>6. ASSUME NEW n, Pushed(todo[1], n, stream, running, conn.control_port)
      PROVE  (Live(todo, c, E, D) => Ends(n, d, E, D)) /\ Due(n, d, E, D, G)
  <2>1. HeadArg \in Streams /\ Len(n) \in Nat
    BY <1>6, PushCases
  <2>2. HeadOp # "begin" => Avoids(n, G) /\ Avoids(n, D)
    <3> HIDE DEF G, D
    <3> QED
      BY <2>1, <1>3, <1>6, PushedAvoids
  <2>3. CASE HeadOp = "begin"
    <3> DEFINE z == << "bind", HeadArg >>
    <3>1. n = << z >> /\ ~running[HeadArg] /\ running' = running
      BY <1>6, <2>3, PushCases
    <3>2. z \in G \/ z \in D => d
      BY <3>1, <2>1, <1>3
    <3>4. Live(todo, c, E, D) => d
      BY <2>3, <1>5
    <3>5. Live(todo, c, E, D) => z \notin D
      <4>1. HeadArg = "realtime" => todo[1] = << "begin", "realtime" >>
        BY <2>3, <1>4
      <4>2. << "begin", "realtime" >> \in D /\ << "begin", "realtime" >> \notin E
        BY DEF StartOf, Ceases
      <4> QED
        BY <4>1, <4>2, <2>1, <1>3 DEF Live
    <3> HIDE DEF z, d, E, D, G
    <3> QED
      BY <3>1, <3>2, <3>4, <3>5, Single
  <2>4. CASE HeadOp = "restart"
    <3>1. n = Stop(HeadArg) /\ running' = running
      BY <1>6, <2>4, PushCases
    <3>2. Live(todo, c, E, D) => Past(<< "halt", HeadArg >>, d, E, D)
      <4>1. HeadArg = "realtime" => << "halt", HeadArg >> \in E
        BY DEF Ceases
      <4>2. HeadArg # "realtime" /\ Live(todo, c, E, D) => d
        BY <2>4, <1>2, <1>4 DEF Live, Ceases
      <4>3. << "halt", HeadArg >> \notin D
        BY DEF StartOf
      <4> QED
        BY <4>1, <4>2, <4>3 DEF Past
    <3>3. Live(todo, c, E, D) => Ends(n, d, E, D)
      BY <2>1, <3>1, <3>2, <1>3, StopPair
    <3> QED
      BY <2>2, <2>4, <3>3, DueAvoid
  <2>5. CASE HeadOp \notin {"begin", "restart"}
    BY <2>1, <2>2, <2>5, <1>5, EndsAvoid, DueAvoid
  <2> QED
    BY <2>3, <2>4, <2>5
<1>7. Stayed(todo, todo') => (c => d)
  BY StayedIs
<1>8. Broke /\ Failed(todo, todo') => Due(todo', d, E, D, G)
  BY <1>3, FailedDue
<1>9. Popped(todo, todo', running) \/ Skipped(todo, todo', running) => (Live(todo, c, E, D) => d)
  <2>1. Popped(todo, todo', running) /\ HeadOp = "restart" /\ HeadArg = "realtime" => d
    <3> SUFFICES ASSUME Popped(todo, todo', running), HeadOp = "restart", HeadArg = "realtime" PROVE d
      OBVIOUS
    <3>1. todo[1] = << "restart", "realtime" >>
      BY <1>4
    <3>2. c
      BY <3>1, <1>0 DEF Popped
    <3> QED
      BY <3>1, <3>2, <1>2
  <2>2. HeadArg # "realtime" /\ HeadOp = "restart" /\ Live(todo, c, E, D) => d
    BY <1>2, <1>4 DEF Live, Ceases
  <2>3. Skipped(todo, todo', running) => HeadOp # "restart"
    BY <1>4 DEF Skipped
  <2> QED
    BY <2>1, <2>2, <2>3, <1>5
<1> HIDE DEF c, d, E, D, G
<1>10. Due(todo', d, E, D, G)
  BY <1>1, <1>3, <1>6, <1>7, <1>8, <1>9, HandlerDue
<1> QED
  BY <1>10 DEF c, d, E, D, G

LEMMA BufferedKnownKept ==
  ASSUME Shape, Types, StreamsInv, BufferedKnown, Handler
  PROVE  BufferedKnown'
<1> DEFINE b == "buffered"
           c == running[b]
           d == running'[b]
           E == StartOf(b)
           D == Breaks(b)
           G == {Only("bufferedport")}
<1> SUFFICES Due(todo', d, E, D, G)
  BY DEF BufferedKnown, Breaks, StartOf
<1>0. "buffered" \in Streams
  BY DEF Streams
<1>1. Due(todo, c, E, D, G)
  BY DEF BufferedKnown
<1>2. /\ Kept /\ c /\ ~d => todo[1] = << "halt", b >>
      /\ HeadOp \notin {"halt", "create", "bind"} => running' = running
  BY <1>0, KeptIs, Frame DEF HeadOp
<1>3. /\ \A x \in Streams : /\ << "halt", x >> \notin G /\ << "close", x >> \notin G
                            /\ << "join", x >> \notin G /\ << "select", x >> \notin G
                            /\ << "bind", x >> \notin G
                            /\ << "close", x >> \notin D
                            /\ << "join", x >> \notin D
                            /\ << "bind", x >> \notin D /\ << "begin", x >> \notin D
                            /\ << "close", x >> \notin E /\ << "join", x >> \notin E
                            /\ (<< "halt", x >> \in D => x = b)
                            /\ (<< "type", x >> \in D <=> x # b)
                            /\ (<< "select", x >> \in D => x # b)
                            /\ (<< "bind", x >> \in E <=> x = b)
      /\ \A t \in Tasks : << "create", t >> \notin G /\ << "create", t >> \notin D
      /\ Error \notin G
      /\ << "halt", b >> \in D /\ << "restart", b >> \in D
  BY DEF Error, StartOf, Breaks, Only, Other, Streams
<1>4. /\ \A op, x : (todo[1] = << op, x >>) <=> (HeadOp = op /\ HeadArg = x)
      /\ (HeadOp \in OnStream => HeadArg \in Streams)
  BY HeadPair
<1>5. Kept /\ HeadOp \notin {"begin", "bind"} /\ Live(todo, c, E, D) => c /\ d
  <2>1. HeadOp \notin {"begin", "bind"} => todo[1] \notin E
    BY <1>4 DEF StartOf
  <2> QED
    BY <2>1, <1>2, <1>3 DEF Live
<1>6. ASSUME NEW n, Made, Pushed(todo[1], n, stream, running, conn.control_port)
      PROVE  (Live(todo, c, E, D) => Ends(n, d, E, D)) /\ Due(n, d, E, D, G)
  <2>1. HeadArg \in Streams /\ Len(n) \in Nat /\ stream \in Streams
    BY <1>6, PushCases DEF Types, TypeOK
  <2>2. Avoids(n, G)
    <3> HIDE DEF G
    <3> QED
      BY <2>1, <1>3, <1>6, PushedAvoids
  <2> SUFFICES ASSUME Live(todo, c, E, D) PROVE Ends(n, d, E, D)
    BY <2>2, DueAvoid
  <2>3. CASE HeadOp = "begin"
    <3> DEFINE z == << "bind", HeadArg >>
    <3>1. n = << z >> /\ ~running[HeadArg] /\ running' = running
      BY <1>6, <2>3, PushCases
    <3>2. z \notin D /\ (HeadArg = b => z \in E)
      BY <2>1, <1>3
    <3>3. HeadArg # b => todo[1] \notin E
      BY <2>3, <1>4 DEF StartOf
    <3>4. z \in E \/ (d /\ z \notin D)
      BY <3>1, <3>2, <3>3 DEF Live
    <3> HIDE DEF z, d, E, D, G
    <3> QED
      BY <3>1, <3>4, Single
  <2>4. CASE HeadOp = "bind"
    <3>1. running' = [running EXCEPT ![HeadArg] = TRUE] /\ running \in [Streams -> BOOLEAN]
      BY <1>6, <2>4, MadeIs DEF Types, TypeOK
    <3>2. HeadArg # b => todo[1] \notin E
      BY <2>4, <1>4 DEF StartOf
    <3>3. d
      BY <1>0, <2>1, <3>1, <3>2 DEF Live
    <3>4. n \in {<< << "create", "buff" >> >>, << << "create", "recv" >> >>,
                 << << "create", "recv" >>, << "create", "ctrl" >> >>}
      BY <1>6, <2>4, PushCases
    <3>5. "buff" \in Tasks /\ "recv" \in Tasks /\ "ctrl" \in Tasks
      BY DEF Tasks
    <3>6. Avoids(n, D)
      <4> HIDE DEF D
      <4> QED
        BY <3>4, <3>5, <1>3, AvoidShort
    <3> QED
      BY <3>3, <3>6, <2>1, EndsAvoid
  <2>5. CASE HeadOp \in {"type", "restart"}
    <3>1. running' = running /\ todo[1] \notin E
      BY <2>5, <1>2, <1>4 DEF StartOf
    <3>2. c /\ d /\ todo[1] \notin D
      BY <3>1 DEF Live
    <3>3. stream = b
      BY <1>0, <3>2 DEF StreamsInv
    <3>4. CASE HeadOp = "type"
      <4>1. todo[1] = << "type", HeadArg >>
        BY <3>4, <1>4
      <4>2. HeadArg = b
        BY <4>1, <3>2, <2>1, <1>3
      <4> DEFINE y == << "select", b >>
      <4>3. n = << y >>
        BY <1>6, <3>3, <3>4, <4>2, PushCases
      <4>4. y \notin D
        BY <1>0, <1>3
      <4> HIDE DEF y, d, E, D
      <4> QED
        BY <4>3, <4>4, <3>2, Single
    <3>5. CASE HeadOp = "restart"
      <4>1. todo[1] = << "restart", HeadArg >> /\ n = Stop(HeadArg)
        BY <1>6, <3>5, <1>4, PushCases
      <4>2. HeadArg # b
        BY <4>1, <3>2, <1>3
      <4>3. << "halt", HeadArg >> \notin D /\ << "close", HeadArg >> \notin D /\ << "join", HeadArg >> \notin D
        BY <4>2, <2>1, <1>3
      <4>4. Past(<< "halt", HeadArg >>, d, E, D)
        BY <4>3, <3>2 DEF Past
      <4> HIDE DEF d, E, D
      <4> QED
        BY <4>1, <4>3, <4>4, <2>1, StopPair
    <3> QED
      BY <2>5, <3>4, <3>5
  <2> QED
    BY <1>6, PushCases, <2>3, <2>4, <2>5
<1>7. Stayed(todo, todo') => (c => d)
  BY StayedIs
<1>8. Broke /\ Failed(todo, todo') => Due(todo', d, E, D, G)
  BY <1>3, FailedDue
<1>9. (Kept /\ Popped(todo, todo', running)) \/ Skipped(todo, todo', running) => (Live(todo, c, E, D) => d)
  <2>1. Skipped(todo, todo', running) => HeadOp = "halt"
    BY <1>4 DEF Skipped
  <2>2. Skipped(todo, todo', running) => Kept
    BY <2>1, <1>4 DEF Kept
  <2>3. CASE HeadOp \notin {"begin", "bind"}
    BY <2>2, <2>3, <1>5
  <2>4. CASE HeadOp = "begin"
    <3>1. HeadArg \in Streams /\ todo[1] = << "begin", HeadArg >> /\ running' = running
      BY <2>4, <1>2, <1>4 DEF OnStream
    <3>2. Popped(todo, todo', running) => running[HeadArg]
      BY <3>1 DEF Popped
    <3>3. HeadArg # b => todo[1] \notin E
      BY <3>1 DEF StartOf
    <3> QED
      BY <2>1, <2>4, <3>1, <3>2, <3>3 DEF Live
  <2>5. CASE HeadOp = "bind"
    BY <2>1, <2>5 DEF Popped, HeadOp
  <2> QED
    BY <2>3, <2>4, <2>5
<1> HIDE DEF c, d, E, D, G
<1>10. \A s \in Streams : << "close", s >> \notin E /\ << "join", s >> \notin E
  BY <1>3
<1>11. \A n : Made /\ Pushed(todo[1], n, stream, running, conn.control_port) =>
                  (Live(todo, c, E, D) => Ends(n, d, E, D)) /\ Due(n, d, E, D, G)
  BY <1>6
<1> QED
  BY <1>1, <1>7, <1>8, <1>9, <1>10, <1>11, HandlerDue

LEMMA FollowError ==
  /\ << Error >> \in Seq(Steps) /\ Follow(<< Error >>)
  /\ \A s \in Streams : << << "join", s >>, Error >> \in Seq(Steps) /\ Follow(<< << "join", s >>, Error >>)
<1>1. Error \in Steps /\ \A s \in Streams : << "join", s >> \in Steps
  BY AreSteps DEF Error, OnStream
<1>2. << Error >> \in Seq(Steps) /\ Follow(<< Error >>)
  <2> DEFINE q == << Error >>
  <2>1. q \in Seq(Steps) /\ Len(q) = 1 /\ q[1] = Error /\ 1 .. 1 = {1}
    BY <1>1
  <2> HIDE DEF q
  <2>2. Error # Only("eventstop") /\ \A s \in Streams : Error # << "halt", s >> /\ Error # << "close", s >>
    BY DEF Error, Only
  <2> QED
    BY <2>1, <2>2 DEF Follow, q
<1>3. ASSUME NEW s \in Streams
      PROVE  << << "join", s >>, Error >> \in Seq(Steps) /\ Follow(<< << "join", s >>, Error >>)
  <2> DEFINE j == << "join", s >>
             q == << j, Error >>
  <2>1. Error # Only("eventstop") /\ \A x \in Streams : Error # << "halt", x >> /\ Error # << "close", x >>
    BY DEF Error, Only
  <2>2. /\ j # Only("eventstop") /\ j # Only("free") /\ j # Error /\ j \in Steps
        /\ \A x \in Streams : j # << "halt", x >> /\ j # << "close", x >>
    BY <1>1 DEF Error, Only
  <2> HIDE DEF j
  <2>3. q \in Seq(Steps) /\ Len(q) = 2 /\ q[1] = j /\ q[2] = Error /\ 1 .. 2 = {1, 2}
    BY <1>1, <2>2
  <2> HIDE DEF q
  <2>4. Follow(q)
    BY <2>1, <2>2, <2>3 DEF Follow
  <2> QED
    BY <2>3, <2>4 DEF q, j
<1> QED
  BY <1>2, <1>3

LEMMA FollowPushed ==
  ASSUME Shape, Types, Handler, NEW n, Pushed(todo[1], n, stream, running, conn.control_port)
  PROVE  n \in Seq(Steps) /\ Follow(n) /\ Avoids(n, Closing)
<1>1. HeadArg \in Streams /\ n \in Seq(Steps) /\ stream \in Streams
  BY PushCases DEF Types, TypeOK
<1>2. /\ \A s \in Streams : /\ << "select", s >> \notin Leading \cup Closing
                            /\ << "bind", s >> \notin Leading \cup Closing
                            /\ << "halt", s >> \notin Closing /\ << "close", s >> \notin Closing
                            /\ << "join", s >> \notin Closing
      /\ \A t \in Tasks : << "create", t >> \notin Leading \cup Closing
  BY DEF Leading, Closing, Only, Error
<1>3. Avoids(n, Closing)
  BY <1>1, <1>2, PushedAvoids
<1> DEFINE y == << "select", HeadArg >>
           z == << "bind", HeadArg >>
<1>4. y \in Steps /\ y \notin Leading \cup Closing /\ z \notin Leading \cup Closing
  BY <1>1, <1>2, AreSteps DEF OnStream
<1>5. \/ n = Stop(stream) \o << y >>
      \/ n = << y >>
      \/ n = Stop(HeadArg)
      \/ n = << z >>
      \/ n \in {<< << "create", "buff" >> >>, << << "create", "recv" >> >>,
                << << "create", "recv" >>, << "create", "ctrl" >> >>}
  BY PushCases
<1> HIDE DEF y, z
<1>6. << y >> \in Seq(Steps) /\ Follow(<< y >>) /\ Follow(<< z >>)
  <2>1. Avoids(<< y >>, Leading \cup Closing) /\ Avoids(<< z >>, Leading \cup Closing)
    BY <1>4, AvoidShort
  <2>2. << y >> \in Seq(Steps)
    BY <1>4
  <2> QED
    BY <2>1, <2>2, FollowPlain
<1>7. Follow(Stop(stream)) /\ Avoids(Stop(stream), Closing) /\ Stop(stream) \in Seq(Steps) /\ Follow(Stop(HeadArg))
  BY <1>1, FollowStop, StopIs
<1>8. Follow(Stop(stream) \o << y >>)
  BY <1>6, <1>7, FollowJoined
<1>9. CASE n \in {<< << "create", "buff" >> >>, << << "create", "recv" >> >>,
                << << "create", "recv" >>, << "create", "ctrl" >> >>}
  <2>1. "buff" \in Tasks /\ "recv" \in Tasks /\ "ctrl" \in Tasks
    BY DEF Tasks
  <2>2. Avoids(n, Leading \cup Closing)
    BY <1>2, <1>9, <2>1, AvoidShort
  <2> QED
    BY <1>1, <1>3, <2>2, FollowPlain
<1> QED
  BY <1>1, <1>3, <1>5, <1>6, <1>7, <1>8, <1>9

LEMMA ShapeKept ==
  ASSUME Shape, Types, Handler
  PROVE  Shape'
<1> SUFFICES todo' \in Seq(Steps) /\ Follow(todo')
  BY DEF Shape
<1>1. /\ todo # << >> /\ todo \in Seq(Steps) /\ Follow(todo)
      /\ Rewrites(todo, todo', stream, running, conn.control_port, Kept, Made, Broke)
  BY HandlerHead
<1>2. Tail(todo) \in Seq(Steps) /\ Follow(Tail(todo))
  BY <1>1, FollowTail
<1>3. CASE Popped(todo, todo', running)
  BY <1>2, <1>3 DEF Popped
<1>4. CASE \E n \in Seq(Steps) : /\ Pushed(todo[1], n, stream, running, conn.control_port)
                                 /\ todo' = n \o Tail(todo)
  <2>1. PICK n \in Seq(Steps) : /\ Pushed(todo[1], n, stream, running, conn.control_port)
                                /\ todo' = n \o Tail(todo)
    BY <1>4
  <2>2. Follow(n) /\ Avoids(n, Closing)
    BY <2>1, FollowPushed
  <2> QED
    BY <1>2, <2>1, <2>2, FollowJoined
<1>5. CASE Skipped(todo, todo', running)
  <2>1. PICK s \in Streams : todo[1] = << "halt", s >> /\ todo' = Tail(Tail(Tail(todo)))
    BY <1>5 DEF Skipped
  <2> DEFINE t == Tail(todo)
             u == Tail(t)
  <2>2. t # << >> /\ u \in Seq(Steps) /\ u # << >>
    BY <1>1, <2>1, SkippedIs
  <2>3. t \in Seq(Steps) /\ Follow(t)
    BY <1>2
  <2> HIDE DEF t
  <2>4. Follow(u)
    BY <2>2, <2>3, FollowTail
  <2> HIDE DEF u
  <2>5. Tail(u) \in Seq(Steps) /\ Follow(Tail(u))
    BY <2>2, <2>4, FollowTail
  <2> QED
    BY <2>1, <2>5 DEF t, u
<1>6. CASE Broke /\ Failed(todo, todo')
  BY <1>6, FailedIs, FollowError
<1>7. CASE Stayed(todo, todo')
  BY <1>1, <1>7 DEF Stayed
<1> QED
  BY <1>1, <1>3, <1>4, <1>5, <1>6, <1>7 DEF Rewrites

Then1(x) == todo' # << >> /\ todo'[1] = x

LEMMA AfterHead ==
  ASSUME Shape, Types, Handler, todo' = Tail(todo), NEW s \in Streams
  PROVE  /\ todo[1] = << "halt", s >> => Then1(<< "close", s >>)
         /\ todo[1] = << "close", s >> => Then1(<< "join", s >>)
         /\ todo[1] = Only("eventstop") => Doing("free")'
<1>1. todo # << >> /\ todo \in Seq(Steps) /\ Follow(todo)
  BY HandlerHead
<1>2. /\ Len(Tail(todo)) = Len(todo) - 1 /\ Tail(todo) \in Seq(Steps) /\ Len(todo) \in Nat
      /\ \A k \in 1 .. Len(todo) - 1 : Tail(todo)[k] = todo[k + 1]
      /\ 1 \in 1 .. Len(todo)
  BY <1>1
<1>3. 2 <= Len(todo) => Tail(todo) # << >> /\ Tail(todo)[1] = todo[1 + 1] /\ Head(Tail(todo)) = todo[1 + 1]
  <2> DEFINE t == Tail(todo)
  <2> SUFFICES ASSUME 2 <= Len(todo) PROVE t # << >> /\ t[1] = todo[1 + 1] /\ Head(t) = todo[1 + 1]
    OBVIOUS
  <2>1. 1 \in 1 .. Len(todo) - 1 /\ t \in Seq(Steps) /\ Len(t) >= 1
    BY <1>2
  <2>2. t[1] = todo[1 + 1]
    BY <1>2, <2>1
  <2> HIDE DEF t
  <2>3. t # << >> /\ Head(t) = t[1]
    BY <2>1
  <2> QED
    BY <2>2, <2>3
<1>4. CASE todo[1] = << "halt", s >>
  <2>1. 1 + 2 <= Len(todo) /\ todo[1 + 1] = << "close", s >>
    BY <1>1, <1>2, <1>4 DEF Follow
  <2>2. 2 <= Len(todo)
    BY <2>1, <1>2
  <2>3. << "close", s >> # << "join", s >> /\ todo[1] # << "close", s >> /\ todo[1] # Only("eventstop")
    BY <1>4 DEF Only
  <2> QED
    BY <1>3, <2>1, <2>2, <2>3 DEF Then1
<1>5. CASE todo[1] = << "close", s >>
  <2>1. 1 + 1 <= Len(todo) /\ todo[1 + 1] = << "join", s >>
    BY <1>1, <1>2, <1>5 DEF Follow
  <2>2. 2 <= Len(todo)
    BY <2>1, <1>2
  <2>3. todo[1] # << "halt", s >> /\ todo[1] # Only("eventstop")
    BY <1>5 DEF Only
  <2> QED
    BY <1>3, <2>1, <2>2, <2>3 DEF Then1
<1>6. CASE todo[1] = Only("eventstop")
  <2>1. 1 + 1 <= Len(todo) /\ todo[1 + 1] = Only("free")
    BY <1>1, <1>2, <1>6 DEF Follow
  <2>2. 2 <= Len(todo)
    BY <2>1, <1>2
  <2>3. todo[1] # << "halt", s >> /\ todo[1] # << "close", s >>
    <3>1. Only("eventstop") # << "halt", s >> /\ Only("eventstop") # << "close", s >>
      BY DEF Only
    <3> QED
      BY <1>6, <3>1
  <2>4. Head(todo')[1] = "free" /\ todo' # << >>
    <3>1. Head(todo') = Only("free") /\ todo' # << >>
      BY <1>3, <2>1, <2>2
    <3>2. Only("free")[1] = "free"
      BY DEF Only
    <3> QED
      BY <3>1, <3>2
  <2>5. Doing("free")'
    BY <2>4 DEF Doing, Op
  <2> QED
    BY <2>3, <2>5
<1> QED
  BY <1>4, <1>5, <1>6

(* What the families say of the step at the head. *)
LEMMA AtHead ==
  ASSUME Shape, Types, Handler, Stopped, Selected, Bound, Fresh
  PROVE  /\ HeadOp \in {"close", "join"} => ~running[HeadArg]
         /\ HeadOp = "select" => \A s \in Streams : running[s] => s = HeadArg
         /\ HeadOp \in {"clear", "free"} => \A s \in Streams : ~running[s]
         /\ HeadOp \in {"begin", "bind", "restart"} => stream = HeadArg
         /\ HeadOp = "bind" => ~running[HeadArg]
         /\ HeadOp = "begin" /\ HeadArg = "realtime" => ~running["realtime"]
<1>1. /\ todo \in Seq(Steps) /\ todo # << >> /\ (\A op, x : (todo[1] = << op, x >>) <=> (HeadOp = op /\ HeadArg = x))
      /\ (HeadOp \in OnStream => HeadArg \in Streams) /\ (HeadOp \in Alone => HeadArg = "")
  BY HandlerHead, HeadPair
<1>2. ASSUME NEW s \in Streams, todo[1] \in Quiet(s) PROVE ~running[s]
  BY <1>1, <1>2, DueHead DEF Stopped
<1>3. ASSUME HeadOp \in {"close", "join"} PROVE ~running[HeadArg]
  <2>1. HeadArg \in Streams /\ todo[1] \in {<< "close", HeadArg >>, << "join", HeadArg >>}
    BY <1>1, <1>3 DEF OnStream
  <2>2. todo[1] \in Quiet(HeadArg)
    BY <2>1 DEF Quiet
  <2> QED
    BY <2>1, <2>2, <1>2
<1>4. ASSUME HeadOp = "select", NEW s \in Streams, running[s] PROVE s = HeadArg
  <2>1. HeadArg \in Streams /\ todo[1] = << "select", HeadArg >>
    BY <1>1, <1>4 DEF OnStream
  <2>2. s # HeadArg => HeadArg = Other(s)
    BY <2>1 DEF Other, Streams
  <2>3. << "select", Other(s) >> \in Quiet(s)
    BY DEF Quiet
  <2> QED
    BY <2>1, <2>2, <2>3, <1>2, <1>4
<1>5. ASSUME HeadOp \in {"clear", "free"}, NEW s \in Streams PROVE ~running[s]
  <2>1. todo[1] \in {Only("clear"), Only("free")}
    BY <1>1, <1>5 DEF Alone, Only
  <2>2. todo[1] \in Quiet(s)
    BY <2>1 DEF Quiet
  <2> QED
    BY <2>2, <1>2
<1>6. ASSUME HeadOp \in {"begin", "bind", "restart"} PROVE stream = HeadArg
  <2>1. HeadArg \in Streams
        /\ todo[1] \in {<< "begin", HeadArg >>, << "bind", HeadArg >>, << "restart", HeadArg >>}
    BY <1>1, <1>6 DEF OnStream
  <2>2. todo[1] \in StartOf(HeadArg) \cup {<< "restart", HeadArg >>}
    BY <2>1 DEF StartOf
  <2> QED
    BY <2>1, <2>2, <1>1, DueHead DEF Selected
<1>7. ASSUME HeadOp = "bind" PROVE ~running[HeadArg]
  <2>1. HeadArg \in Streams /\ todo[1] = << "bind", HeadArg >>
    BY <1>1, <1>7 DEF OnStream
  <2>2. todo[1] \in {<< "bind", HeadArg >>}
    BY <2>1
  <2> QED
    BY <2>1, <2>2, <1>1, DueHead DEF Bound
<1>8. ASSUME HeadOp = "begin", HeadArg = "realtime" PROVE ~running["realtime"]
  <2>1. todo[1] = << "begin", "realtime" >>
    BY <1>1, <1>8
  <2>2. todo[1] \in StartOf("realtime")
    BY <2>1 DEF StartOf
  <2> QED
    BY <2>2, <1>1, DueHead DEF Fresh
<1> QED
  BY <1>3, <1>4, <1>5, <1>6, <1>7, <1>8

LEMMA StreamsKept ==
  ASSUME Shape, Types, Handler, Stopped, Selected, Bound, Fresh, StreamsInv
  PROVE  StreamsInv'
<1>0. /\ stream \in Streams /\ running \in [Streams -> BOOLEAN] /\ port \in [Streams -> Ports \cup {0}]
      /\ task \in [Tasks -> {"none", "check", "blocked", "decode"}]
      /\ conn.data_port \in Ports \cup {0} /\ conn.buffered_port \in Ports \cup {0} /\ 0 \notin Ports
      /\ \A t \in Tasks : StreamOf(t) \in Streams
  BY PortAssumption DEF Types, TypeOK, StreamOf, Streams
<1>1. /\ \A op, x : At1(<< op, x >>) <=> (HeadOp = op /\ HeadArg = x)
      /\ \A op, x : (todo[1] = << op, x >>) <=> (HeadOp = op /\ HeadArg = x)
      /\ (HeadOp \in OnStream => HeadArg \in Streams) /\ (HeadOp = "create" => HeadArg \in Tasks)
  BY HandlerHead, HeadPair DEF At1
<1>2. /\ HeadOp \notin {"bind", "create", "halt"} => running' = running
      /\ HeadOp \notin {"bind", "create", "close"} => port' = port
      /\ HeadOp # "select" => stream' = stream
      /\ HeadOp # "create" => task' = task
  BY Frame DEF HeadOp
<1>3. /\ \A s \in Streams : running[s] => s = stream /\ port[s] # 0
      /\ \A s \in Streams : port[s] # 0 => s = stream /\ (running[s] \/ (HeadOp = "close" /\ HeadArg = s))
      /\ \A t \in Tasks : task[t] = "decode" =>
           t # "ctrl" /\ StreamOf(t) = stream
           /\ (running[stream] \/ (HeadOp = "close" /\ HeadArg = stream) \/ (HeadOp = "join" /\ HeadArg = stream))
      /\ \A t \in {"recv", "buff"} : running[StreamOf(t)] /\ task[t] = "none" => (HeadOp = "create" /\ HeadArg = t)
  BY <1>1 DEF StreamsInv
<1>4. SUFFICES
      /\ \A s \in Streams : running'[s] => s = stream' /\ port'[s] # 0
      /\ \A s \in Streams : port'[s] # 0 => s = stream' /\ (running'[s] \/ Then1(<< "close", s >>))
      /\ \A t \in Tasks : task'[t] = "decode" =>
           t # "ctrl" /\ StreamOf(t) = stream'
           /\ (running'[stream'] \/ Then1(<< "close", stream' >>) \/ Then1(<< "join", stream' >>))
      /\ \A t \in {"recv", "buff"} : running'[StreamOf(t)] /\ task'[t] = "none" => Then1(<< "create", t >>)
  BY DEF StreamsInv, At1, Then1
<1>5. CASE HeadOp \notin {"select", "bind", "create", "halt", "close", "join"}
  BY <1>2, <1>3, <1>5
<1>6. CASE HeadOp = "select"
  <2>1. stream' = HeadArg
    <3>1. Select /\ Doing("select")
      BY <1>6, ActionOf DEF Select, HeadOp
    <3> QED
      BY <3>1, HeadIs DEF Select, HeadArg
  <2>2. \A s \in Streams : running[s] => s = HeadArg
    BY <1>6, AtHead
  <2> QED
    BY <1>0, <1>2, <1>3, <1>6, <2>1, <2>2
<1>7. CASE HeadOp = "bind"
  <2>1. Bind /\ Doing("bind")
    BY <1>7, ActionOf DEF Bind, HeadOp
  <2>2. Arg = HeadArg /\ HeadArg \in Streams /\ stream = HeadArg /\ ~running[HeadArg]
    BY <2>1, <1>1, <1>7, HeadIs, AtHead DEF HeadArg, OnStream
  <2>3. CASE UNCHANGED << port, running >>
    BY <1>2, <1>3, <1>7, <2>3
  <2>4. CASE ~UNCHANGED << port, running >>
    <3>1. /\ \E p \in IF Wanted(HeadArg) = 0 THEN Ports ELSE {Wanted(HeadArg)} :
                port' = [port EXCEPT ![HeadArg] = p]
          /\ running' = [running EXCEPT ![HeadArg] = TRUE]
          /\ Then(Creates(HeadArg, conn.control_port))
      BY <2>1, <2>2, <2>4 DEF Bind, Creates
    <3>2. PICK p \in Ports : port' = [port EXCEPT ![HeadArg] = p]
      BY <1>0, <3>1, <2>2 DEF Wanted, Asked
    <3>3. \A s \in Streams : /\ s = HeadArg => port'[s] # 0 /\ running'[s]
                             /\ s # HeadArg => port'[s] = 0 /\ ~running'[s]
      BY <1>0, <1>3, <1>7, <2>2, <3>1, <3>2
    <3>4. \A t \in {"recv", "buff"} : StreamOf(t) = HeadArg => Then1(<< "create", t >>)
      <4> DEFINE n == Creates(HeadArg, conn.control_port)
      <4>1. /\ n \in Seq(Steps) /\ n # << >>
            /\ HeadArg = "buffered" => n[1] = << "create", "buff" >>
            /\ HeadArg = "realtime" => n[1] = << "create", "recv" >>
        <5>1. /\ Creates("buffered", conn.control_port) = << << "create", "buff" >> >>
              /\ conn.control_port => Creates("realtime", conn.control_port) = << << "create", "recv" >>, << "create", "ctrl" >> >>
              /\ ~conn.control_port => Creates("realtime", conn.control_port) = << << "create", "recv" >> >>
              /\ Creates(HeadArg, conn.control_port) \in Seq(Steps)
          BY <2>2, CreatesAre
        <5>2. HeadArg = "buffered" \/ HeadArg = "realtime"
          BY <2>2 DEF Streams
        <5> QED
          BY <5>1, <5>2
      <4> HIDE DEF n
      <4>2. todo' = n \o Tail(todo) /\ todo # << >> /\ todo \in Seq(Steps)
        BY <3>1, HandlerHead DEF n, Then
      <4>3. 1 \in 1 .. Len(n) /\ Len(todo') >= 1 /\ todo' \in Seq(Steps)
        BY <4>1, <4>2, Replaced
      <4>4. todo'[1] = n[1] /\ todo' # << >>
        BY <4>1, <4>2, <4>3, Replaced
      <4> QED
        BY <4>1, <4>4 DEF Then1, StreamOf
    <3>5. \A t \in Tasks : task'[t] # "decode"
      BY <1>2, <1>3, <1>7, <2>2
    <3>6. \A t \in {"recv", "buff"} : running'[StreamOf(t)] => Then1(<< "create", t >>)
      <4>1. {"recv", "buff"} \subseteq Tasks
        BY DEF Tasks
      <4> QED
        BY <1>0, <3>3, <3>4, <4>1
    <3>7. \A s \in Streams : /\ running'[s] => s = stream' /\ port'[s] # 0
                             /\ port'[s] # 0 => s = stream' /\ running'[s]
      BY <1>2, <1>7, <2>2, <3>3
    <3> QED
      BY <3>5, <3>6, <3>7
  <2> QED
    BY <2>3, <2>4
<1>8. CASE HeadOp = "create"
  <2>1. Create /\ Doing("create")
    BY <1>8, ActionOf DEF Create, HeadOp
  <2>2. Arg = HeadArg /\ HeadArg \in Tasks /\ StreamOf(HeadArg) \in Streams
    BY <1>0, <2>1, <1>1, <1>8, HeadIs DEF HeadArg
  <2>3. CASE task' = [task EXCEPT ![HeadArg] = "check"] /\ UNCHANGED << running, port >>
    <3>1. \A t \in Tasks : (t = HeadArg => task'[t] = "check") /\ (t # HeadArg => task'[t] = task[t])
      BY <1>0, <2>2, <2>3
    <3>2. {"recv", "buff"} \subseteq Tasks
      BY DEF Tasks
    <3> QED
      BY <1>2, <1>3, <1>8, <2>3, <3>1, <3>2
  <2>4. CASE ~(task' = [task EXCEPT ![HeadArg] = "check"] /\ UNCHANGED << running, port >>)
    <3> DEFINE s == StreamOf(HeadArg)
    <3>1. /\ running' = [running EXCEPT ![s] = FALSE] /\ port' = [port EXCEPT ![s] = 0] /\ task' = task
          /\ todo' = << << "join", s >>, << "answer", "error" >> >>
      BY <2>1, <2>2, <2>4 DEF Create
    <3>2. Then1(<< "join", s >>)
      <4>1. todo' # << >> /\ todo'[1] = << "join", s >>
        BY <3>1
      <4> QED
        BY <4>1 DEF Then1
    <3> HIDE DEF s
    <3>3. s \in Streams
      BY <2>2 DEF s
    <3>4. \A x \in Streams : (x = s => ~running'[x] /\ port'[x] = 0)
                             /\ (x # s => running'[x] = running[x] /\ port'[x] = port[x])
      BY <1>0, <3>1, <3>3
    <3>5. \A t \in {"recv", "buff"} : running[StreamOf(t)] /\ task[t] = "none" => HeadArg = t
      BY <1>3
    <3>6. \A t \in {"recv", "buff"} : ~(running'[StreamOf(t)] /\ task'[t] = "none")
      <4> SUFFICES ASSUME NEW t \in {"recv", "buff"}, running'[StreamOf(t)], task'[t] = "none" PROVE FALSE
        OBVIOUS
      <4>1. StreamOf(t) \in Streams
        BY <1>0 DEF Tasks
      <4>2. running[StreamOf(t)] /\ StreamOf(t) # s
        BY <3>4, <4>1
      <4>3. HeadArg = t
        BY <3>1, <3>5, <4>2
      <4> QED
        BY <4>2, <4>3 DEF s
    <3>7. \A t \in Tasks : task'[t] = "decode" =>
           t # "ctrl" /\ StreamOf(t) = stream' /\ (running'[stream'] \/ Then1(<< "join", stream' >>))
      <4> SUFFICES ASSUME NEW t \in Tasks, task'[t] = "decode"
                   PROVE  t # "ctrl" /\ StreamOf(t) = stream' /\ (running'[stream'] \/ Then1(<< "join", stream' >>))
        OBVIOUS
      <4>1. t # "ctrl" /\ StreamOf(t) = stream /\ running[stream] /\ stream' = stream
        BY <1>2, <1>3, <1>8, <3>1
      <4> QED
        BY <1>0, <3>2, <3>4, <4>1
    <3>8. \A x \in Streams : port'[x] # 0 => x = stream' /\ running'[x]
      BY <1>2, <1>3, <1>8, <3>4
    <3>9. \A x \in Streams : running'[x] => x = stream' /\ port'[x] # 0
      BY <1>2, <1>3, <1>8, <3>4
    <3> QED
      BY <3>6, <3>7, <3>8, <3>9
  <2> QED
    BY <2>3, <2>4
<1>9. CASE HeadOp = "halt"
  <2>1. Halt /\ Doing("halt")
    BY <1>9, ActionOf DEF Halt, HeadOp
  <2>2. Arg = HeadArg /\ HeadArg \in Streams
    BY <2>1, <1>1, <1>9, HeadIs DEF HeadArg, OnStream
  <2>3. CASE running[HeadArg]
    <3>1. running' = [running EXCEPT ![HeadArg] = FALSE] /\ todo' = Tail(todo)
      BY <2>1, <2>2, <2>3 DEF Halt, Done
    <3>2. Then1(<< "close", HeadArg >>)
      BY <1>1, <1>9, <2>2, <3>1, AfterHead
    <3>3. stream = HeadArg /\ stream' = stream /\ port' = port /\ task' = task
      BY <1>2, <1>3, <1>9, <2>2, <2>3
    <3>4. \A s \in Streams : ~running'[s]
      BY <1>0, <1>3, <2>2, <3>1, <3>3
    <3>5. \A s \in Streams : port'[s] # 0 => s = stream' /\ Then1(<< "close", s >>)
      BY <1>3, <1>9, <3>2, <3>3
    <3>6. \A t \in Tasks : task'[t] = "decode" => t # "ctrl" /\ StreamOf(t) = stream' /\ Then1(<< "close", stream' >>)
      BY <1>3, <1>9, <3>2, <3>3
    <3>7. \A t \in {"recv", "buff"} : ~running'[StreamOf(t)]
      BY <1>0, <3>4 DEF Tasks
    <3> QED
      BY <3>4, <3>5, <3>6, <3>7
  <2>4. CASE ~running[HeadArg]
    <3>1. running' = running
      BY <1>0, <2>1, <2>2, <2>4 DEF Halt
    <3> QED
      BY <1>2, <1>3, <1>9, <3>1
  <2> QED
    BY <2>3, <2>4
<1>10. CASE HeadOp = "close"
  <2>1. Close /\ Doing("close")
    BY <1>10, ActionOf DEF Close, HeadOp
  <2>2. Arg = HeadArg /\ HeadArg \in Streams /\ ~running[HeadArg]
    BY <2>1, <1>1, <1>10, HeadIs, AtHead DEF HeadArg, OnStream
  <2>3. port' = [port EXCEPT ![HeadArg] = 0] /\ todo' = Tail(todo)
    BY <2>1, <2>2 DEF Close, Done
  <2>4. Then1(<< "join", HeadArg >>)
    BY <1>1, <1>10, <2>2, <2>3, AfterHead
  <2>5. \A s \in Streams : (s = HeadArg => port'[s] = 0) /\ (s # HeadArg => port'[s] = port[s])
    BY <1>0, <2>2, <2>3
  <2>6. \A s \in Streams : port'[s] # 0 => s = stream' /\ running'[s]
    BY <1>2, <1>3, <1>10, <2>5
  <2>7. \A s \in Streams : running'[s] => s = stream' /\ port'[s] # 0
    BY <1>2, <1>3, <1>10, <2>2, <2>5
  <2>8. \A t \in Tasks : task'[t] = "decode" =>
           t # "ctrl" /\ StreamOf(t) = stream' /\ (running'[stream'] \/ Then1(<< "join", stream' >>))
    <3>1. HeadArg = stream => Then1(<< "join", stream' >>)
      BY <1>2, <1>10, <2>4
    <3> QED
      BY <1>2, <1>3, <1>10, <3>1
  <2>9. \A t \in {"recv", "buff"} : ~(running'[StreamOf(t)] /\ task'[t] = "none")
    BY <1>2, <1>3, <1>10
  <2> QED
    BY <2>6, <2>7, <2>8, <2>9
<1>11. CASE HeadOp = "join"
  <2>1. Join /\ Doing("join")
    BY <1>11, ActionOf DEF Join, HeadOp
  <2>2. Arg = HeadArg /\ HeadArg \in Streams /\ Waited(HeadArg)
    BY <2>1, <1>1, <1>11, HeadIs DEF HeadArg, OnStream, Join
  <2>3. \A t \in Tasks : task[t] = "decode" => running[stream]
    <3> SUFFICES ASSUME NEW t \in Tasks, task[t] = "decode", ~running[stream] PROVE FALSE
      OBVIOUS
    <3>1. HeadArg = stream /\ StreamOf(t) = stream /\ t # "ctrl"
      BY <1>3, <1>11
    <3>2. t \in TasksOf(HeadArg)
      BY <3>1 DEF TasksOf, StreamOf, Tasks
    <3> QED
      BY <2>2, <3>2 DEF Waited
  <2> QED
    BY <1>2, <1>3, <1>11, <2>3
<1> QED
  BY <1>5, <1>6, <1>7, <1>8, <1>9, <1>10, <1>11

(* What no step of an inner list is about. *)
LEMMA HandlerDuePlain ==
  ASSUME Shape, Types, Handler, NEW c, NEW d, NEW E, NEW D, NEW G, Due(todo, c, E, D, G),
         ~(Broke /\ Failed(todo, todo')) /\ Live(todo, c, E, D) => d,
         Stayed(todo, todo') => (c => d),
         \A x \in Internal : x \notin E /\ x \notin D /\ x \notin G,
         Error \notin G
  PROVE  Due(todo', d, E, D, G)
<1>1. \A s \in Streams : << "close", s >> \notin E /\ << "join", s >> \notin E /\ << "join", s >> \notin G
  BY DEF Internal
<1>2. CASE Broke /\ Failed(todo, todo')
  <2> HIDE <1>1
  <2>1. \A s \in Streams : << "join", s >> \notin G
    BY <1>1
  <2> QED
    BY <1>2, <2>1, FailedDue
<1>3. CASE ~(Broke /\ Failed(todo, todo'))
  <2>1. Live(todo, c, E, D) => d
    BY <1>3
  <2>2. \A n : Made /\ Pushed(todo[1], n, stream, running, conn.control_port) =>
                  (Live(todo, c, E, D) => Ends(n, d, E, D)) /\ Due(n, d, E, D, G)
    <3> SUFFICES ASSUME NEW n, Pushed(todo[1], n, stream, running, conn.control_port)
                 PROVE  (Live(todo, c, E, D) => Ends(n, d, E, D)) /\ Due(n, d, E, D, G)
      OBVIOUS
    <3>1. stream \in Streams
      BY DEF Types, TypeOK
    <3>2. Len(n) \in Nat /\ Avoids(n, D) /\ Avoids(n, G)
      BY <3>1, PushedInternal
    <3> QED
      BY <2>1, <3>2, EndsAvoid, DueAvoid
  <2>3. \A s \in Streams : << "close", s >> \notin E /\ << "join", s >> \notin E
    BY <1>1
  <2> QED
    BY <1>3, <2>1, <2>2, <2>3, HandlerDue
<1> QED
  BY <1>2, <1>3

LEMMA PlainSteps ==
  ASSUME NEW x \in Internal
  PROVE  /\ x # Error /\ x # Told /\ x # Okay /\ x # << "key", "current" >> /\ x # << "key", "session" >>
         /\ \A op \in Alone : x # Only(op)
         /\ \A s \in Streams : x # << "ports", s >>
<1>1. x[1] \in {"halt", "close", "join", "select", "bind", "create"}
  <2>1. CASE x \in {"halt", "close", "join", "select", "bind"} \X Streams
    BY <2>1
  <2>2. CASE x \in {"create"} \X Tasks
    BY <2>2
  <2> QED
    BY <2>1, <2>2 DEF Internal
<1>2. Error[1] = "answer" /\ Told[1] = "answer" /\ Okay[1] = "answer"
  BY DEF Error, Told, Okay
<1>3. << "key", "current" >>[1] = "key" /\ << "key", "session" >>[1] = "key"
  OBVIOUS
<1>4. ASSUME NEW op \in Alone PROVE x # Only(op)
  <2>1. Only(op)[1] = op
    BY DEF Only
  <2> QED
    BY <1>1, <2>1 DEF Alone
<1>5. ASSUME NEW s \in Streams PROVE x # << "ports", s >>
  <2>1. << "ports", s >>[1] = "ports"
    OBVIOUS
  <2> QED
    BY <1>1, <2>1
<1> QED
  BY <1>1, <1>2, <1>3, <1>4, <1>5

LEMMA EventKept ==
  ASSUME Shape, Types, Handler, EventInv
  PROVE  EventInv'
<1>0. /\ conn \in Conn /\ event \in Event /\ plan \in Scenario /\ plan' = plan
      /\ conn.id \in Nat /\ plan.connections \in Nat /\ conn.id >= 1
  BY Frame DEF Types, Scenario, Conn, EventInv
<1>1. /\ \A op, x : (todo[1] = << op, x >>) <=> (HeadOp = op /\ HeadArg = x)
      /\ (HeadOp \in Alone => HeadArg = "")
      /\ \A op : Doing(op) <=> HeadOp = op
  <2>1. todo # << >> /\ Head(todo) = todo[1]
    BY HandlerHead
  <2>2. \A op : Doing(op) <=> HeadOp = op
    BY <2>1 DEF Doing, Op, HeadOp
  <2> QED
    BY <2>2, HeadPair
<1>2. /\ HeadOp \notin {"pause", "unpause", "ports", "bufferedport", "event", "free"} => conn' = conn
      /\ HeadOp \notin {"event", "eventstop"} => event' = event
  BY Frame DEF HeadOp
<1>3. HeadOp \notin {"event", "free"} => conn'.id = conn.id /\ conn'.event_port = conn.event_port
  <2>1. CASE HeadOp \in {"pause", "unpause"}
    <3>1. SetPaused
      BY <2>1, ActionOf DEF HeadOp
    <3> QED
      BY <1>0, <3>1 DEF SetPaused, Conn
  <2>2. CASE HeadOp = "ports"
    <3>1. EnsurePorts
      BY <2>2, ActionOf DEF HeadOp
    <3> QED
      BY <1>0, <3>1 DEF EnsurePorts, Conn
  <2>3. CASE HeadOp = "bufferedport"
    <3>1. TakeBufferedPort
      BY <2>3, ActionOf DEF HeadOp
    <3> QED
      BY <1>0, <3>1 DEF TakeBufferedPort, Conn
  <2> QED
    BY <1>2, <2>1, <2>2, <2>3
<1>4. CASE HeadOp = "free"
  <2>1. Free
    BY <1>4, ActionOf DEF HeadOp
  <2>2. todo[1] = Only("free") /\ todo \in Seq(Steps) /\ todo # << >>
    BY <1>1, <1>4, HandlerHead DEF Alone, Only
  <2>3. conn.id < plan.connections
    <3>1. todo[1] \in {Only("free")} /\ Due(todo, conn.id < plan.connections, {}, {}, {Only("free")})
      BY <2>2 DEF EventInv
    <3> DEFINE c == conn.id < plan.connections
    <3> HIDE DEF c
    <3>2. Due(todo, c, {}, {}, {Only("free")}) => c
      BY <2>2, <3>1, DueHead
    <3> QED
      BY <3>1, <3>2 DEF c
  <2>4. conn' = NewConn(conn.id + 1) /\ todo' = Tail(todo) /\ event' = event
    BY <2>1 DEF Free, Done
  <2>5. todo' = << >>
    <3>1. 1 \in 1 .. Len(todo) /\ Follow(todo)
      BY <2>2, HandlerHead
    <3>2. Len(todo) = 1
      BY <2>2, <3>1 DEF Follow
    <3> QED
      BY <2>2, <2>4, <3>2
  <2>6. conn'.id = conn.id + 1 /\ conn'.event_port = FALSE
    BY <2>4 DEF NewConn
  <2>7. Due(todo', conn'.id < plan'.connections, {}, {}, {Only("free")})
    BY <2>5, Empty
  <2>8. 1 .. conn.id \subseteq 1 .. conn'.id /\ conn'.id \in 1 .. plan'.connections
    BY <1>0, <2>3, <2>6
  <2> QED
    BY <2>4, <2>6, <2>7, <2>8 DEF EventInv
<1>5. CASE HeadOp # "free"
  <2>1. conn'.id = conn.id
    <3>1. CASE HeadOp = "event"
      <4>1. EventPort
        BY <3>1, ActionOf DEF HeadOp
      <4> QED
        BY <1>0, <4>1 DEF EventPort, Conn
    <3> QED
      BY <3>1, <1>3, <1>5
  <2>2. Due(todo', conn'.id < plan'.connections, {}, {}, {Only("free")})
    <3> DEFINE c == conn.id < plan.connections
               d == conn'.id < plan'.connections
    <3>1. c <=> d
      BY <1>0, <2>1
    <3>2. Due(todo, c, {}, {}, {Only("free")})
      BY DEF EventInv
    <3>3. Live(todo, c, {}, {}) => c
      BY DEF Live
    <3>4. \A x \in Internal : x \notin {} /\ x \notin {Only("free")}
      BY PlainSteps DEF Alone
    <3>5. Error \notin {Only("free")}
      BY DEF Error, Only
    <3> HIDE DEF c, d
    <3>6. Due(todo', d, {}, {}, {Only("free")})
      BY <3>1, <3>2, <3>3, <3>4, <3>5, HandlerDuePlain
    <3> QED
      BY <3>6 DEF d
  <2> SUFFICES
        /\ conn'.event_port /\ ~Doing("free")'
             => event'.handle /\ event'.listeners = {conn.id} /\ ~event'.should_stop
        /\ event'.listeners \subseteq 1 .. conn.id
        /\ event'.handle <=> event'.listeners # {}
        /\ \A m, n \in event'.listeners : m = n
    BY <1>0, <2>1, <2>2 DEF EventInv
  <2>3. /\ conn.event_port => event.handle /\ event.listeners = {conn.id} /\ ~event.should_stop
        /\ event.listeners \subseteq 1 .. conn.id
        /\ event.handle <=> event.listeners # {}
        /\ \A m, n \in event.listeners : m = n
    BY <1>1, <1>5 DEF EventInv
  <2>4. CASE HeadOp = "event"
    <3>1. EventPort
      BY <2>4, ActionOf DEF HeadOp
    <3>2. CASE conn.event_port /\ UNCHANGED << event, conn >>
      BY <2>3, <3>2
    <3>3. CASE /\ ~conn.event_port /\ event' = [event EXCEPT !.should_stop = TRUE] /\ UNCHANGED conn
      BY <1>0, <2>3, <3>3 DEF Event
    <3>4. CASE /\ ~conn.event_port /\ ~event.handle
               /\ event' = [handle |-> TRUE, should_stop |-> FALSE,
                            listeners |-> event.listeners \cup {conn.id}]
               /\ conn' = [conn EXCEPT !.event_port = TRUE]
      BY <1>0, <2>3, <3>4
    <3>5. CASE ~conn.event_port /\ UNCHANGED << event, conn >>
      BY <2>3, <3>5
    <3> QED
      BY <3>1, <3>2, <3>3, <3>4, <3>5 DEF EventPort
  <2>5. CASE HeadOp = "eventstop"
    <3>1. StopEvent
      BY <2>5, ActionOf DEF HeadOp
    <3>2. event' = [event EXCEPT !.should_stop = @ \/ event.handle] /\ todo' = Tail(todo)
      BY <3>1 DEF StopEvent, Done
    <3>3. todo[1] = Only("eventstop")
      BY <1>1, <2>5 DEF Alone, Only
    <3>4. Doing("free")'
      BY <3>2, <3>3, AfterHead DEF Streams
    <3> QED
      BY <1>0, <2>3, <3>2, <3>4 DEF Event
  <2>6. CASE HeadOp \notin {"event", "eventstop"}
    BY <1>2, <1>3, <1>5, <2>3, <2>6
  <2> QED
    BY <2>4, <2>5, <2>6
<1> QED
  BY <1>4, <1>5

-----------------------------------------------------------------------------
(* The types, through a step of the handler. *)
LEMMA ConnTyped ==
  ASSUME Shape, Types, Handler, EventInv
  PROVE  conn' \in Conn
<1>1. /\ conn \in Conn /\ conn.id \in Nat /\ Ports \subseteq Nat
      /\ conn.data_port \in Ports \cup {0} /\ conn.buffered_port \in Ports \cup {0}
      /\ port \in [Streams -> Ports \cup {0}] /\ "buffered" \in Streams
  BY PortAssumption DEF Types, TypeOK, Conn, Streams
<1>2. HeadOp \notin {"pause", "unpause", "ports", "bufferedport", "event", "free"} => conn' = conn
  BY Frame DEF HeadOp
<1>3. CASE HeadOp \in {"pause", "unpause"}
  <2>1. SetPaused
    BY <1>3, ActionOf DEF HeadOp
  <2> QED
    BY <1>1, <2>1 DEF SetPaused, Conn
<1>4. CASE HeadOp = "ports"
  <2>1. EnsurePorts
    BY <1>4, ActionOf DEF HeadOp
  <2>2. PICK p \in Ports :
          conn' = [conn EXCEPT !.control_port = TRUE,
                               !.data_port = IF Arg = "realtime" /\ @ = 0 THEN p ELSE @]
    BY <2>1 DEF EnsurePorts
  <2>3. PICK d \in Ports \cup {0} : conn' = [conn EXCEPT !.control_port = TRUE, !.data_port = d]
    <3>1. (IF Arg = "realtime" /\ conn.data_port = 0 THEN p ELSE conn.data_port) \in Ports \cup {0}
      BY <1>1
    <3> QED
      BY <2>2, <3>1
  <2> QED
    BY <1>1, <2>3 DEF Conn
<1>5. CASE HeadOp = "bufferedport"
  <2>1. TakeBufferedPort
    BY <1>5, ActionOf DEF HeadOp
  <2>2. conn' = [conn EXCEPT !.buffered_port = port["buffered"]] /\ port["buffered"] \in Ports \cup {0}
    BY <1>1, <2>1 DEF TakeBufferedPort
  <2> QED
    BY <1>1, <2>2 DEF Conn
<1>6. CASE HeadOp = "event"
  <2>1. EventPort
    BY <1>6, ActionOf DEF HeadOp
  <2>2. conn' = conn \/ conn' = [conn EXCEPT !.event_port = TRUE]
    BY <2>1 DEF EventPort
  <2>3. CASE conn' = conn
    BY <1>1, <2>3
  <2>4. CASE conn' = [conn EXCEPT !.event_port = TRUE]
    BY <1>1, <2>4 DEF Conn
  <2> QED
    BY <2>2, <2>3, <2>4
<1>7. CASE HeadOp = "free"
  <2>1. conn' = NewConn(conn.id + 1)
    BY <1>7, ActionOf DEF HeadOp, Free
  <2> QED
    BY <1>1, <2>1 DEF NewConn, Conn
<1> QED
  BY <1>1, <1>2, <1>3, <1>4, <1>5, <1>6, <1>7

LEMMA StreamsTyped ==
  ASSUME Shape, Types, Handler
  PROVE  /\ stream' \in Streams /\ running' \in [Streams -> BOOLEAN]
         /\ port' \in [Streams -> Ports \cup {0}]
         /\ task' \in [Tasks -> {"none", "check", "blocked", "decode"}]
         /\ decoder' \in BOOLEAN /\ playing' \in BOOLEAN
         /\ key' \in [Streams -> {"none", "current", "session"}]
<1>1. /\ stream \in Streams /\ port \in [Streams -> Ports \cup {0}]
      /\ task \in [Tasks -> {"none", "check", "blocked", "decode"}]
      /\ decoder \in BOOLEAN /\ playing \in BOOLEAN
      /\ key \in [Streams -> {"none", "current", "session"}]
      /\ \A t \in Tasks : StreamOf(t) \in Streams
      /\ \A s \in Streams : Asked(s) \in Ports \cup {0}
  BY DEF Types, TypeOK, StreamOf, Streams, Asked
<1>2. \A op : HeadOp = op /\ op \in OnStream => Doing(op) /\ Arg = HeadArg /\ Arg \in Streams
  <2> SUFFICES ASSUME HeadOp \in OnStream PROVE Doing(HeadOp) /\ Arg = HeadArg /\ Arg \in Streams
    OBVIOUS
  <2>1. Doing(HeadOp)
    BY HandlerHead DEF Doing, Op, HeadOp
  <2> QED
    BY <2>1, HeadIs DEF HeadArg
<1>3. stream' \in Streams
  <2>1. CASE HeadOp = "select"
    <3>1. Select
      BY <2>1, ActionOf DEF HeadOp
    <3> QED
      BY <1>2, <2>1, <3>1 DEF Select, OnStream
  <2>2. CASE HeadOp # "select"
    BY <1>1, <2>2, Frame DEF HeadOp
  <2> QED
    BY <2>1, <2>2
<1>4. running' \in [Streams -> BOOLEAN]
  BY <1>1, RunningIs
<1>5. port' \in [Streams -> Ports \cup {0}]
  <2>1. CASE HeadOp = "bind"
    <3>1. Bind
      BY <2>1, ActionOf DEF HeadOp
    <3>2. Arg \in Streams /\ Asked(Arg) \in Ports \cup {0}
      BY <1>1, <1>2, <2>1 DEF OnStream
    <3>3. Wanted(Arg) \in Ports \cup {0}
      BY <3>2 DEF Wanted
    <3> QED
      BY <1>1, <3>1, <3>2, <3>3 DEF Bind
  <2>2. CASE HeadOp = "create"
    <3>1. Create
      BY <2>2, ActionOf DEF HeadOp
    <3> QED
      BY <1>1, <3>1 DEF Create
  <2>3. CASE HeadOp = "close"
    <3>1. Close
      BY <2>3, ActionOf DEF HeadOp
    <3> QED
      BY <1>1, <3>1 DEF Close
  <2>4. CASE HeadOp \notin {"bind", "create", "close"}
    BY <1>1, <2>4, Frame DEF HeadOp
  <2> QED
    BY <2>1, <2>2, <2>3, <2>4
<1>6. task' \in [Tasks -> {"none", "check", "blocked", "decode"}]
  <2>1. CASE HeadOp = "create"
    <3>1. Create
      BY <2>1, ActionOf DEF HeadOp
    <3> QED
      BY <1>1, <3>1 DEF Create
  <2>2. CASE HeadOp # "create"
    BY <1>1, <2>2, Frame DEF HeadOp
  <2> QED
    BY <2>1, <2>2
<1>7. decoder' \in BOOLEAN
  <2>1. CASE HeadOp = "format"
    BY <2>1, ActionOf DEF HeadOp, Format
  <2>2. CASE HeadOp = "clear"
    BY <2>2, ActionOf DEF HeadOp, ClearReceiver
  <2>3. CASE HeadOp \notin {"format", "clear"}
    BY <1>1, <2>3, Frame DEF HeadOp
  <2> QED
    BY <2>1, <2>2, <2>3
<1>8. playing' \in BOOLEAN
  <2>1. CASE HeadOp \in {"play", "hold"}
    BY <2>1, ActionOf DEF HeadOp, SetPlaying
  <2>2. CASE HeadOp \notin {"play", "hold"}
    BY <1>1, <2>2, Frame DEF HeadOp
  <2> QED
    BY <2>1, <2>2
<1>9. key' \in [Streams -> {"none", "current", "session"}]
  <2>1. CASE HeadOp = "type"
    <3>1. SwitchType
      BY <2>1, ActionOf DEF HeadOp
    <3> QED
      BY <1>1, <1>2, <2>1, <3>1 DEF SwitchType, OnStream
  <2>2. CASE HeadOp = "key"
    <3>1. SetKey /\ Doing("key")
      BY <2>2, ActionOf DEF HeadOp, SetKey
    <3>2. Arg \in {"current", "session"}
      BY <3>1, HeadIs
    <3> QED
      BY <3>1, <3>2 DEF SetKey
  <2>3. CASE HeadOp = "clear"
    <3>1. ClearReceiver
      BY <2>3, ActionOf DEF HeadOp
    <3> QED
      BY <3>1 DEF ClearReceiver
  <2>4. CASE HeadOp \notin {"type", "key", "clear"}
    BY <1>1, <2>4, Frame DEF HeadOp
  <2> QED
    BY <2>1, <2>2, <2>3, <2>4
<1> QED
  BY <1>3, <1>4, <1>5, <1>6, <1>7, <1>8, <1>9

LEMMA TypesKept ==
  ASSUME Shape, Types, Handler, EventInv
  PROVE  Types'
<1>1. conn' \in Conn
  BY ConnTyped
<1>2. plan' = plan /\ plan \in Scenario /\ conn \in Conn /\ sender \in {"new", "announced", "setup", "streaming", "paused", "torn", "ended"}
      /\ promise \in [stream : Streams \cup {"none"}, port : Ports \cup {0}]
  BY Frame DEF Types
<1>3. event'.listeners \subseteq 1 .. plan'.connections
  <2>1. EventInv'
    BY EventKept
  <2>2. event'.listeners \subseteq 1 .. conn'.id /\ conn'.id \in 1 .. plan'.connections
    BY <2>1 DEF EventInv
  <2>3. plan'.connections \in Nat
    BY <1>2 DEF Scenario
  <2> QED
    BY <2>2, <2>3
<1>4. event' \in Event
  <2>1. event \in Event /\ conn.id \in Nat
    BY <1>2 DEF Types, Conn
  <2>2. CASE HeadOp = "event"
    <3>1. EventPort
      BY <2>2, ActionOf DEF HeadOp
    <3>2. \/ event' = event
          \/ event' = [event EXCEPT !.should_stop = TRUE]
          \/ event' = [handle |-> TRUE, should_stop |-> FALSE,
                       listeners |-> event.listeners \cup {conn.id}]
      BY <3>1 DEF EventPort
    <3>3. event.listeners \cup {conn.id} \in SUBSET Nat
      BY <2>1 DEF Event
    <3> QED
      <4>1. CASE event' = event
        BY <2>1, <4>1
      <4>2. CASE event' = [event EXCEPT !.should_stop = TRUE]
        BY <2>1, <4>2 DEF Event
      <4>3. CASE event' = [handle |-> TRUE, should_stop |-> FALSE,
                           listeners |-> event.listeners \cup {conn.id}]
        BY <3>3, <4>3 DEF Event
      <4> QED
        BY <3>2, <4>1, <4>2, <4>3
  <2>3. CASE HeadOp = "eventstop"
    <3>1. StopEvent
      BY <2>3, ActionOf DEF HeadOp
    <3> QED
      BY <2>1, <3>1 DEF StopEvent, Event
  <2>4. CASE HeadOp \notin {"event", "eventstop"}
    BY <2>1, <2>4, Frame DEF HeadOp
  <2> QED
    BY <2>2, <2>3, <2>4
<1>5. /\ promise' \in [stream : Streams \cup {"none"}, port : Ports \cup {0}]
      /\ sender' \in {"new", "announced", "setup", "streaming", "paused", "torn", "ended"}
  <2>1. Nothing \in [stream : Streams \cup {"none"}, port : Ports \cup {0}]
    BY DEF Nothing
  <2>2. CASE HeadOp = "answer"
    <3>1. Answer
      BY <2>2, ActionOf DEF HeadOp
    <3>2. StreamOfType(conn.stream_type) \in Streams /\ Asked(StreamOfType(conn.stream_type)) \in Ports \cup {0}
      BY <1>2 DEF StreamOfType, Streams, Asked, Conn
    <3> QED
      BY <1>2, <2>1, <3>1, <3>2 DEF Answer
  <2>3. CASE HeadOp = "free"
    BY <1>2, <2>1, <2>3, ActionOf DEF HeadOp, Free
  <2>4. CASE HeadOp \notin {"answer", "free"}
    BY <1>2, <2>4, Frame DEF HeadOp
  <2> QED
    BY <2>2, <2>3, <2>4
<1>6. TypeOK'
  BY <1>1, <1>3, StreamsTyped DEF TypeOK, Conn
<1> QED
  BY <1>1, <1>2, <1>4, <1>5, <1>6 DEF Types

-----------------------------------------------------------------------------
(* The stream tasks, and the task of the event port. *)
LEMMA TaskSteps ==
  ASSUME Types, Shape, StreamsInv, NEW t \in Tasks, StreamTask(t)
  PROVE  /\ UNCHANGED inside /\ Types' /\ StreamsInv'
         /\ task'[t] = "decode" => decoder /\ promise.port # 0
<1>1. task \in [Tasks -> {"none", "check", "blocked", "decode"}] /\ StreamOf(t) \in Streams
      /\ stream \in Streams /\ running \in [Streams -> BOOLEAN]
  BY DEF Types, TypeOK, StreamOf, Streams
<1>2. UNCHANGED inside
  BY DEF StreamTask, Check, Wake, Packet, Decoded
<1>3. PICK to \in {"none", "check", "blocked", "decode"} :
        /\ task' = [task EXCEPT ![t] = to] /\ task[t] # "none"
        /\ to = "none" => ~running[StreamOf(t)] \/ (t # "buff" /\ port[StreamOf(t)] = 0)
        /\ to = "decode" => decoder /\ promise.port # 0 /\ t # "ctrl" /\ port[StreamOf(t)] # 0
  <2>1. CASE Check(t)
    BY <2>1 DEF Check, Move
  <2>2. CASE Wake(t)
    BY <2>2 DEF Wake, Move
  <2>3. CASE Packet(t)
    BY <2>3 DEF Packet, Move
  <2>4. CASE Decoded(t)
    BY <2>4 DEF Decoded, Move
  <2> QED
    BY <2>1, <2>2, <2>3, <2>4 DEF StreamTask
<1>4. Types'
  BY <1>1, <1>2, <1>3 DEF Types, TypeOK, inside
<1>5. \A s : At1(s)' <=> At1(s)
  BY <1>2 DEF At1, inside
<1>6. /\ task'[t] = to /\ \A x \in Tasks : x # t => task'[x] = task[x]
      /\ running' = running /\ port' = port /\ stream' = stream
  BY <1>1, <1>2, <1>3 DEF inside
<1>7. StreamsInv'
  <2>1. ASSUME NEW x \in Tasks, task'[x] = "decode"
        PROVE  /\ x # "ctrl" /\ StreamOf(x) = stream
               /\ (running[stream] \/ At1(<< "close", stream >>) \/ At1(<< "join", stream >>))
    <3>1. CASE x = t
      <4>1. port[StreamOf(t)] # 0 /\ t # "ctrl"
        BY <2>1, <3>1, <1>3, <1>6
      <4>2. StreamOf(t) = stream /\ (running[StreamOf(t)] \/ At1(<< "close", StreamOf(t) >>))
        BY <4>1, <1>1 DEF StreamsInv
      <4> QED
        BY <3>1, <4>1, <4>2
    <3>2. CASE x # t
      BY <3>2, <2>1, <1>6 DEF StreamsInv
    <3> QED
      BY <3>1, <3>2
  <2>2. ASSUME NEW x \in {"recv", "buff"}, running[StreamOf(x)], task'[x] = "none"
        PROVE  At1(<< "create", x >>)
    <3>0. x \in Tasks /\ StreamOf(x) \in Streams
      BY DEF Tasks, StreamOf, Streams
    <3>1. CASE x = t
      <4>1. to = "none"
        BY <2>2, <3>1, <1>6
      <4>2. port[StreamOf(t)] = 0 /\ running[StreamOf(t)]
        BY <4>1, <1>3, <2>2, <3>1
      <4> QED
        BY <4>2, <1>1 DEF StreamsInv
    <3>2. CASE x # t
      BY <3>0, <3>2, <2>2, <1>6 DEF StreamsInv
    <3> QED
      BY <3>1, <3>2
  <2>3. /\ \A s \in Streams : running'[s] => s = stream' /\ port'[s] # 0
        /\ \A s \in Streams : port'[s] # 0 => s = stream' /\ (running'[s] \/ At1(<< "close", s >>)')
    BY <1>5, <1>6 DEF StreamsInv
  <2>4. /\ \A x \in Tasks : task'[x] = "decode" =>
             x # "ctrl" /\ StreamOf(x) = stream'
             /\ (running'[stream'] \/ At1(<< "close", stream >>)' \/ At1(<< "join", stream >>)')
        /\ \A x \in {"recv", "buff"} : running'[StreamOf(x)] /\ task'[x] = "none" => At1(<< "create", x >>)'
    BY <2>1, <2>2, <1>5, <1>6
  <2>5. << "close", stream >>' = << "close", stream >> /\ << "join", stream >>' = << "join", stream >>
    BY <1>6
  <2>6. (StreamsInv)'
    BY <2>3, <2>4, <1>5, <1>6 DEF StreamsInv, At1
  <2> QED
    BY <2>6
<1> QED
  BY <1>2, <1>3, <1>4, <1>6, <1>7

LEMMA EventTaskSteps ==
  ASSUME Types, EventInv, NEW n \in event.listeners, EventTaskEnds(n)
  PROVE  UNCHANGED << plan, sender, conn, promise, left, todo, receiver >> /\ Types' /\ EventInv'
<1>1. UNCHANGED << plan, sender, conn, promise, left, todo, receiver >>
  BY DEF EventTaskEnds
<1>2. /\ event \in Event /\ (event.should_stop \/ n # conn.id)
      /\ event' = [event EXCEPT !.handle = FALSE, !.listeners = @ \ {n}]
  BY DEF EventTaskEnds, Types
<1>3. event'.handle = FALSE /\ event'.listeners = event.listeners \ {n}
      /\ event'.should_stop = event.should_stop /\ event' \in Event
  BY <1>2 DEF Event
<1>4. Types'
  BY <1>1, <1>3 DEF Types, TypeOK, receiver
<1>5. event'.listeners = {}
  BY <1>3 DEF EventInv
<1>6. conn.event_port => Doing("free")
  BY <1>2 DEF EventInv
<1>7. Doing("free")' <=> Doing("free")
  BY <1>1 DEF Doing, Op
<1>8. plan' = plan /\ conn' = conn /\ todo' = todo
  BY <1>1
<1> QED
  BY <1>1, <1>3, <1>4, <1>5, <1>6, <1>7, <1>8 DEF EventInv

-----------------------------------------------------------------------------
(* The programs of the requests. *)
Firm == {"restart", "begin", "bind", "halt", "close", "join", "select", "create", "clear", "free",
         "eventstop", "bufferedport"}
Loud == {x \in Steps : x[1] \in Firm} \cup {Error}
Harmless == Steps \ Loud

LEMMA LoudSteps ==
  /\ \A s \in Streams : << "halt", s >> \in Loud /\ << "close", s >> \in Loud /\ << "join", s >> \in Loud
                        /\ << "select", s >> \in Loud /\ << "restart", s >> \in Loud
                        /\ << "begin", s >> \in Loud /\ << "bind", s >> \in Loud
  /\ Only("clear") \in Loud /\ Only("free") \in Loud /\ Only("eventstop") \in Loud
  /\ Only("bufferedport") \in Loud /\ Error \in Loud
<1>1. ASSUME NEW s \in Streams, NEW op \in {"halt", "close", "join", "select", "restart", "begin", "bind"}
      PROVE  << op, s >> \in Loud
  <2>1. << op, s >> \in Steps /\ << op, s >>[1] = op
    BY AreSteps DEF OnStream
  <2> QED
    BY <2>1 DEF Loud, Firm
<1>2. ASSUME NEW op \in {"clear", "free", "eventstop", "bufferedport"} PROVE Only(op) \in Loud
  <2>1. Only(op) \in Steps /\ Only(op)[1] = op
    BY AreSteps DEF Alone, Only
  <2> QED
    BY <2>1 DEF Loud, Firm
<1> QED
  BY <1>1, <1>2 DEF Loud

LEMMA HarmlessSteps ==
  /\ \A s \in Streams : << "type", s >> \in Harmless /\ << "ports", s >> \in Harmless
  /\ << "key", "current" >> \in Harmless /\ << "key", "session" >> \in Harmless
  /\ << "answer", "ok" >> \in Harmless /\ << "answer", "stream" >> \in Harmless
  /\ << "format", "" >> \in Harmless /\ << "ntp", "" >> \in Harmless /\ << "event", "" >> \in Harmless
  /\ << "play", "" >> \in Harmless /\ << "hold", "" >> \in Harmless
  /\ << "pause", "" >> \in Harmless /\ << "unpause", "" >> \in Harmless
<1>1. ASSUME NEW s \in Streams, NEW op \in {"type", "ports"} PROVE << op, s >> \in Harmless
  <2>1. << op, s >> \in Steps /\ << op, s >>[1] = op /\ << op, s >> # Error
    BY AreSteps DEF OnStream, Error
  <2> QED
    BY <2>1 DEF Harmless, Loud, Firm
<1>2. ASSUME NEW x \in {"current", "session"} PROVE << "key", x >> \in Harmless
  <2>1. << "key", x >> \in Steps /\ << "key", x >>[1] = "key" /\ << "key", x >> # Error
    BY AreSteps DEF Error
  <2> QED
    BY <2>1 DEF Harmless, Loud, Firm
<1>3. ASSUME NEW x \in {"ok", "stream"} PROVE << "answer", x >> \in Harmless
  <2>1. << "answer", x >> \in Steps /\ << "answer", x >>[1] = "answer" /\ << "answer", x >> # Error
    BY AreSteps DEF Error
  <2> QED
    BY <2>1 DEF Harmless, Loud, Firm
<1>4. ASSUME NEW op \in {"format", "ntp", "event", "play", "hold", "pause", "unpause"}
      PROVE  << op, "" >> \in Harmless
  <2>1. << op, "" >> \in Steps /\ << op, "" >>[1] = op /\ << op, "" >> # Error
    BY AreSteps DEF Alone, Error
  <2> QED
    BY <2>1 DEF Harmless, Loud, Firm
<1> QED
  BY <1>1, <1>2, <1>3, <1>4

LEMMA AvoidsPart ==
  ASSUME NEW q, NEW D, NEW X, Avoids(q, X), D \subseteq X
  PROVE  Avoids(q, D)
BY DEF Avoids

LEMMA DueSafe ==
  ASSUME NEW q, NEW c, NEW E, NEW D, NEW G, c, Avoids(q, D)
  PROVE  Due(q, c, E, D, G)
BY DEF Due, Holds, Avoids

Ending == {<< op, s >> : op \in {"close", "join", "select", "bind"}, s \in Streams}
          \cup {Only("clear"), Only("free")}

(* A list that needs nothing from before. *)
Clean(q) ==
  /\ q \in Seq(Steps) /\ Follow(q)
  /\ Avoids(q, Closing) /\ Avoids(q, Ending)
  /\ \A s \in Streams :
       Due(q, FALSE, {<< "type", s >>, << "select", s >>},
           {<< "type", Other(s) >>, << "select", Other(s) >>}, StartOf(s) \cup {<< "restart", s >>})
  /\ Due(q, FALSE, StartOf("buffered"), Breaks("buffered"), {Only("bufferedport")})
  /\ Due(q, FALSE, Ceases, StartOf("realtime"), StartOf("realtime"))

LEMMA CleanJoined ==
  ASSUME NEW p, NEW q, Clean(p), Clean(q)
  PROVE  Clean(p \o q)
<1>1. p \in Seq(Steps) /\ q \in Seq(Steps)
  BY DEF Clean
<1>2. p \o q \in Seq(Steps) /\ Follow(p \o q)
  BY <1>1, FollowJoined DEF Clean
<1>3. Avoids(p \o q, Closing) /\ Avoids(p \o q, Ending)
  BY <1>1, AvoidsJoined DEF Clean
<1>4. \A E, D, G : Due(p, FALSE, E, D, G) /\ Due(q, FALSE, E, D, G) => Due(p \o q, FALSE, E, D, G)
  BY <1>1, DueJoined
<1> QED
  BY <1>2, <1>3, <1>4 DEF Clean

LEMMA HarmlessClean ==
  ASSUME NEW q \in Seq(Harmless)
  PROVE  Clean(q) /\ Avoids(q, Loud)
<1>1. q \in Seq(Steps) /\ \A i \in 1 .. Len(q) : q[i] \in Harmless
  BY DEF Harmless
<1>2. Avoids(q, Loud)
  BY <1>1 DEF Avoids, Harmless
<1>3. Closing \subseteq Loud /\ Leading \cup Closing \subseteq Loud
  <2>1. \A op \in {"halt", "close"}, s \in Streams : << op, s >> \in Loud
    BY LoudSteps
  <2>2. {<< op, s >> : op \in {"halt", "close"}, s \in Streams} \subseteq Loud
    BY <2>1
  <2>3. Only("eventstop") \in Loud /\ Only("free") \in Loud /\ Error \in Loud
    BY LoudSteps
  <2> QED
    BY <2>2, <2>3 DEF Closing, Leading
<1>4. Ending \subseteq Loud
  <2>1. \A op \in {"close", "join", "select", "bind"}, s \in Streams : << op, s >> \in Loud
    BY LoudSteps
  <2>2. {<< op, s >> : op \in {"close", "join", "select", "bind"}, s \in Streams} \subseteq Loud
    BY <2>1
  <2>3. Only("clear") \in Loud /\ Only("free") \in Loud
    BY LoudSteps
  <2> QED
    BY <2>2, <2>3 DEF Ending
<1>5. /\ \A s \in Streams : StartOf(s) \cup {<< "restart", s >>} \subseteq Loud
      /\ {Only("bufferedport")} \subseteq Loud /\ StartOf("realtime") \subseteq Loud
  BY LoudSteps DEF StartOf, Streams
<1>6. Follow(q)
  BY <1>2, <1>3, AvoidsPart, FollowPlain
<1>7. \A G : G \subseteq Loud => Avoids(q, G)
  BY <1>2, AvoidsPart
<1>8. \A E, D, G : G \subseteq Loud => Due(q, FALSE, E, D, G)
  BY <1>7, DueAvoid
<1> QED
  BY <1>1, <1>2, <1>3, <1>4, <1>5, <1>6, <1>7, <1>8 DEF Clean

LEMMA Ready ==
  ASSUME NEW x, NEW y, NEW z, NEW E, NEW D, NEW G, x \notin G
  PROVE  /\ Due(<< x >>, FALSE, E, D, G)
         /\ y \notin G \/ x \in E => Due(<< x, y >>, FALSE, E, D, G)
         /\ y \in E => Ends(<< x, y >>, FALSE, E, D)
         /\ (y \notin G \/ x \in E) /\ (z \notin G \/ y \in E \/ (x \in E /\ y \notin D))
              => Due(<< x, y, z >>, FALSE, E, D, G)
<1> DEFINE c == FALSE
<1>1. ~c
  OBVIOUS
<1> HIDE DEF c
<1>2. Due(<< x >>, c, E, D, G)
  BY Single
<1>3. y \notin G \/ x \in E => Due(<< x, y >>, c, E, D, G)
  BY PairIs
<1>4. y \in E => Ends(<< x, y >>, c, E, D)
  BY PairIs
<1>5. (y \notin G \/ x \in E) /\ (z \notin G \/ y \in E \/ (x \in E /\ y \notin D)) => Due(<< x, y, z >>, c, E, D, G)
  BY TripleIs
<1> QED
  BY <1>2, <1>3, <1>4, <1>5 DEF c

(* The parts that start a stream, and those that stop both. *)
LEMMA StartClean ==
  /\ Clean(StartRealtime) /\ Clean(StartBuffered)
  /\ Clean(StartBuffered \o << << "bufferedport", "" >> >>)
<1> DEFINE r == << "type", "realtime" >>
           e == << "restart", "realtime" >>
           b == << "begin", "realtime" >>
           u == << "type", "buffered" >>
           v == << "begin", "buffered" >>
           w == << "bufferedport", "" >>
           B == Ending
           TypesOf(s) == {<< "type", s >>, << "select", s >>}
           Against(s) == {<< "type", Other(s) >>, << "select", Other(s) >>}
           Needs(s) == StartOf(s) \cup {<< "restart", s >>}
<1>1. /\ StartRealtime = << r, e, b >> /\ StartBuffered = << u, v >>
      /\ r \in Steps /\ e \in Steps /\ b \in Steps /\ u \in Steps /\ v \in Steps /\ w \in Steps
  BY AreSteps DEF StartRealtime, StartBuffered, OnStream, Streams, Alone
<1>2. \A x \in {r, e, b, u, v, w} : x \notin Leading \cup Closing /\ x \notin B
  <2>1. \A x \in {r, e, b, u, v, w} : x[1] \in {"type", "restart", "begin", "bufferedport"}
    <3>1. /\ r[1] = "type" /\ e[1] = "restart" /\ b[1] = "begin" /\ u[1] = "type" /\ v[1] = "begin"
          /\ w[1] = "bufferedport"
      OBVIOUS
    <3> HIDE DEF r, e, b, u, v, w
    <3> QED
      BY <3>1
  <2>2. ASSUME NEW y \in Leading \cup Closing
        PROVE  y[1] \in {"halt", "close", "eventstop", "free", "answer"}
    <3>1. CASE y \in {<< op, s >> : op \in {"halt", "close"}, s \in Streams}
      BY <3>1
    <3>2. CASE y \in {Only("eventstop"), Only("free"), Error}
      <4>1. Only("eventstop")[1] = "eventstop" /\ Only("free")[1] = "free" /\ Error[1] = "answer"
        BY DEF Only, Error
      <4> QED
        BY <3>2, <4>1
    <3> QED
      BY <3>1, <3>2 DEF Leading, Closing
  <2>3. ASSUME NEW y \in B PROVE y[1] \in {"close", "join", "select", "bind", "clear", "free"}
    <3>1. CASE y \in {<< op, s >> : op \in {"close", "join", "select", "bind"}, s \in Streams}
      BY <3>1
    <3>2. CASE y \in {Only("clear"), Only("free")}
      <4>1. Only("clear")[1] = "clear" /\ Only("free")[1] = "free"
        BY DEF Only
      <4> QED
        BY <3>2, <4>1
    <3> QED
      BY <3>1, <3>2 DEF Ending
  <2> HIDE DEF r, e, b, u, v, w, B
  <2> QED
    BY <2>1, <2>2, <2>3
<1>3. /\ r \in TypesOf("realtime") /\ e \notin Against("realtime") /\ r \notin Needs("realtime")
      /\ \A x \in {r, e, b} : x \notin Needs("buffered")
      /\ u \in TypesOf("buffered") /\ v \notin Against("buffered") /\ u \notin Needs("buffered")
      /\ \A x \in {u, v, w} : x \notin Needs("realtime")
      /\ w \notin Needs("buffered")
  BY DEF StartOf, Other
<1>4. /\ \A x \in {r, e, b, u, v} : x \notin {Only("bufferedport")}
      /\ v \in StartOf("buffered")
  BY DEF StartOf, Only
<1>5. /\ e \in Ceases /\ r \notin StartOf("realtime") /\ e \notin StartOf("realtime")
      /\ \A x \in {u, v, w} : x \notin StartOf("realtime")
  BY DEF StartOf, Ceases
<1> HIDE DEF r, e, b, u, v, w, B, TypesOf, Against, Needs
<1>6. << r, e, b >> \in Seq(Steps) /\ << u, v >> \in Seq(Steps) /\ << w >> \in Seq(Steps)
  BY <1>1
<1>7. ASSUME NEW D, \A x \in {r, e, b, u, v, w} : x \notin D
      PROVE  Avoids(<< r, e, b >>, D) /\ Avoids(<< u, v >>, D) /\ Avoids(<< w >>, D)
  BY <1>7, AvoidShort
<1>8. /\ Avoids(<< r, e, b >>, Closing) /\ Avoids(<< u, v >>, Closing) /\ Avoids(<< w >>, Closing)
      /\ Avoids(<< r, e, b >>, B) /\ Avoids(<< u, v >>, B) /\ Avoids(<< w >>, B)
      /\ Follow(<< r, e, b >>) /\ Follow(<< u, v >>) /\ Follow(<< w >>)
  <2>1. /\ Avoids(<< r, e, b >>, Leading \cup Closing) /\ Avoids(<< u, v >>, Leading \cup Closing)
        /\ Avoids(<< w >>, Leading \cup Closing)
    BY <1>2, <1>7
  <2>2. /\ Avoids(<< r, e, b >>, Closing) /\ Avoids(<< u, v >>, Closing) /\ Avoids(<< w >>, Closing)
        /\ Avoids(<< r, e, b >>, B) /\ Avoids(<< u, v >>, B) /\ Avoids(<< w >>, B)
    BY <1>2, <1>7
  <2> QED
    BY <2>1, <2>2, FollowPlain
<1>9. ASSUME NEW s \in Streams
      PROVE  /\ Due(<< r, e, b >>, FALSE, TypesOf(s), Against(s), Needs(s))
             /\ Due(<< u, v >>, FALSE, TypesOf(s), Against(s), Needs(s))
             /\ Due(<< w >>, FALSE, TypesOf(s), Against(s), Needs(s))
  <2>1. CASE s = "realtime"
    <3>1. /\ Due(<< r, e, b >>, FALSE, TypesOf("realtime"), Against("realtime"), Needs("realtime"))
      BY <1>3, Ready
    <3>2. /\ Due(<< u, v >>, FALSE, TypesOf("realtime"), Against("realtime"), Needs("realtime"))
          /\ Due(<< w >>, FALSE, TypesOf("realtime"), Against("realtime"), Needs("realtime"))
      BY <1>3, Ready
    <3> QED
      BY <2>1, <3>1, <3>2
  <2>2. CASE s = "buffered"
    <3>1. /\ Due(<< r, e, b >>, FALSE, TypesOf("buffered"), Against("buffered"), Needs("buffered"))
      BY <1>3, Ready
    <3>2. /\ Due(<< u, v >>, FALSE, TypesOf("buffered"), Against("buffered"), Needs("buffered"))
          /\ Due(<< w >>, FALSE, TypesOf("buffered"), Against("buffered"), Needs("buffered"))
      BY <1>3, Ready
    <3> QED
      BY <2>2, <3>1, <3>2
  <2> QED
    BY <2>1, <2>2 DEF Streams
<1>10. /\ Due(<< r, e, b >>, FALSE, StartOf("buffered"), Breaks("buffered"), {Only("bufferedport")})
       /\ Due(<< u, v >>, FALSE, StartOf("buffered"), Breaks("buffered"), {Only("bufferedport")})
       /\ Ends(<< u, v >>, FALSE, StartOf("buffered"), Breaks("buffered"))
  <2> DEFINE K == Breaks("buffered")
             T == StartOf("buffered")
             O == {Only("bufferedport")}
  <2>1. v \in T /\ \A x \in {r, e, b, u, v} : x \notin O
    BY <1>4
  <2> HIDE DEF K, T, O
  <2>2. Due(<< r, e, b >>, FALSE, T, K, O)
    BY <2>1, Ready
  <2>3. Due(<< u, v >>, FALSE, T, K, O) /\ Ends(<< u, v >>, FALSE, T, K)
    BY <2>1, Ready
  <2> QED
    BY <2>2, <2>3 DEF K, T, O
<1>11. /\ Due(<< r, e, b >>, FALSE, Ceases, StartOf("realtime"), StartOf("realtime"))
       /\ Due(<< u, v >>, FALSE, Ceases, StartOf("realtime"), StartOf("realtime"))
       /\ Due(<< w >>, FALSE, Ceases, StartOf("realtime"), StartOf("realtime"))
  <2> DEFINE T == StartOf("realtime")
  <2>1. e \in Ceases /\ r \notin T /\ e \notin T /\ \A x \in {u, v, w} : x \notin T
    BY <1>5
  <2> HIDE DEF T
  <2>2. Due(<< r, e, b >>, FALSE, Ceases, T, T)
    BY <2>1, Ready
  <2>3. Due(<< u, v >>, FALSE, Ceases, T, T) /\ Due(<< w >>, FALSE, Ceases, T, T)
    BY <2>1, Ready
  <2> QED
    BY <2>2, <2>3 DEF T
<1>12. Clean(<< r, e, b >>) /\ Clean(<< u, v >>)
  BY <1>6, <1>8, <1>9, <1>10, <1>11 DEF Clean, B, TypesOf, Against, Needs
<1>13. Clean(<< u, v >> \o << w >>)
  <2> DEFINE p == << u, v >>
             q == << w >>
  <2>1. p \in Seq(Steps) /\ q \in Seq(Steps)
    BY <1>6
  <2>2. p \o q \in Seq(Steps) /\ Follow(p \o q)
    BY <2>1, <1>8, FollowJoined
  <2>3. Avoids(p \o q, Closing) /\ Avoids(p \o q, B)
    BY <2>1, <1>8, AvoidsJoined
  <2>4. \A s \in Streams : Due(p \o q, FALSE, TypesOf(s), Against(s), Needs(s))
    BY <2>1, <1>9, DueJoined
  <2>5. Due(p \o q, FALSE, Ceases, StartOf("realtime"), StartOf("realtime"))
    BY <2>1, <1>11, DueJoined
  <2>6. Due(p \o q, FALSE, StartOf("buffered"), Breaks("buffered"), {Only("bufferedport")})
    <3>1. Due(q, TRUE, StartOf("buffered"), Breaks("buffered"), {Only("bufferedport")})
      BY Single
    <3> QED
      BY <2>1, <1>10, <3>1, DueJoined
  <2> QED
    BY <2>2, <2>3, <2>4, <2>5, <2>6 DEF Clean, B, TypesOf, Against, Needs
<1> QED
  BY <1>1, <1>12, <1>13 DEF w

LEMMA TypeClean ==
  ASSUME NEW type
  PROVE  Clean(Start(type))
<1>1. StreamOfType(type) \in Streams
  BY DEF StreamOfType, Streams
<1> DEFINE x == << "type", StreamOfType(type) >>
<1>2. x \in Harmless
  BY <1>1, HarmlessSteps
<1>3. Start(type) = << x >> \o IF type = 103 THEN StartBuffered ELSE StartRealtime
  BY DEF Start
<1> HIDE DEF x
<1>4. Clean(<< x >>)
  <2>1. << x >> \in Seq(Harmless)
    BY <1>2
  <2> QED
    BY <2>1, HarmlessClean
<1> QED
  BY <1>3, <1>4, StartClean, CleanJoined

(* The lists that stop both streams. *)
LEMMA ReceiverStopIs ==
  /\ ReceiverStop \in Seq(Steps) /\ Follow(ReceiverStop) /\ Avoids(ReceiverStop, Closing)
  /\ \A D : /\ \A s \in Streams : << "halt", s >> \notin D /\ << "close", s >> \notin D
                                  /\ << "join", s >> \notin D
            /\ Only("clear") \notin D
            => Avoids(ReceiverStop, D)
<1> DEFINE p == Stop("realtime")
           q == Stop("buffered")
           x == << "clear", "" >>
           r == << x >>
<1>0. "realtime" \in Streams /\ "buffered" \in Streams
  BY DEF Streams
<1>1. /\ p \in Seq(Steps) /\ q \in Seq(Steps) /\ x \in Steps /\ r \in Seq(Steps)
      /\ Follow(p) /\ Follow(q) /\ Avoids(p, Closing) /\ Avoids(q, Closing)
  <2>1. x \in Steps
    BY AreSteps DEF Alone
  <2>2. r \in Seq(Steps)
    BY <2>1, OneStep
  <2> HIDE DEF x, r
  <2> QED
    BY <1>0, <2>1, <2>2, StopIs, FollowStop
<1>2. ReceiverStop = (p \o q) \o r /\ x = Only("clear")
  BY DEF ReceiverStop, Only
<1>3. ASSUME NEW D, NEW s \in Streams, << "halt", s >> \notin D, << "close", s >> \notin D, << "join", s >> \notin D
      PROVE  Avoids(Stop(s), D)
  BY <1>3, StopIs, AvoidShort
<1>4. Follow(r) /\ Avoids(r, Closing)
  <2>1. x \notin Leading \cup Closing
    <3>1. Only("eventstop") # x /\ Only("free") # x /\ Error # x
      BY DEF Only, Error
    <3>2. x[1] = "clear" /\ \A op \in {"halt", "close"}, s \in Streams : << op, s >>[1] = op
      OBVIOUS
    <3>3. x \notin {<< op, s >> : op \in {"halt", "close"}, s \in Streams}
      <4> HIDE DEF x
      <4> QED
        BY <3>2
    <3> HIDE DEF x
    <3> QED
      BY <3>1, <3>3 DEF Leading, Closing
  <2>2. x \notin Closing
    BY <2>1
  <2> HIDE DEF x
  <2>3. Avoids(r, Leading \cup Closing) /\ Avoids(r, Closing)
    BY <2>1, <2>2, AvoidShort
  <2> QED
    BY <2>3, FollowPlain
<1>5. ASSUME NEW D, \A s \in Streams : << "halt", s >> \notin D /\ << "close", s >> \notin D /\ << "join", s >> \notin D,
             Only("clear") \notin D
      PROVE  Avoids((p \o q) \o r, D)
  <2>1. Avoids(p, D) /\ Avoids(q, D)
    BY <1>0, <1>3, <1>5
  <2>2. Avoids(r, D)
    BY <1>2, <1>5, AvoidShort
  <2> HIDE DEF p, q, r
  <2>3. Avoids(p \o q, D) /\ p \o q \in Seq(Steps)
    BY <1>1, <2>1, AvoidsJoined, Joined
  <2> QED
    BY <1>1, <2>2, <2>3, AvoidsJoined
<1> HIDE DEF p, q, r
<1>6. p \o q \in Seq(Steps) /\ Follow(p \o q) /\ Avoids(p \o q, Closing)
  BY <1>1, FollowJoined, AvoidsJoined
<1>7. (p \o q) \o r \in Seq(Steps) /\ Follow((p \o q) \o r) /\ Avoids((p \o q) \o r, Closing)
  BY <1>1, <1>4, <1>6, FollowJoined, AvoidsJoined
<1> QED
  BY <1>2, <1>5, <1>7

LEMMA ReceiverStopEnds ==
  ASSUME NEW s \in Streams, NEW E, NEW D, NEW G,
         << "halt", s >> \in E,
         \A x \in Streams : << "halt", x >> \notin G /\ << "halt", x >> \notin D
                            /\ << "close", x >> \notin D /\ << "join", x >> \notin D,
         Only("clear") \notin D,
         << "close", Other(s) >> \notin G, << "join", Other(s) >> \notin G
  PROVE  Due(ReceiverStop, FALSE, E, D, G) /\ Ends(ReceiverStop, FALSE, E, D)
<1> DEFINE p == Stop("realtime")
           q == Stop("buffered")
           x == << "clear", "" >>
           r == << x >>
           no == FALSE
<1>0. "realtime" \in Streams /\ "buffered" \in Streams /\ s \in {"realtime", "buffered"} /\ Other(s) \in Streams
      /\ (s = "realtime" => Other(s) = "buffered") /\ (s = "buffered" => Other(s) = "realtime")
  BY DEF Streams, Other
<1>1. p \in Seq(Steps) /\ q \in Seq(Steps) /\ x \in Steps /\ r \in Seq(Steps)
  <2>1. x \in Steps
    BY AreSteps DEF Alone
  <2>2. r \in Seq(Steps)
    BY <2>1, OneStep
  <2> HIDE DEF x, r
  <2> QED
    BY <1>0, <2>1, <2>2, StopIs
<1>2. ReceiverStop = (p \o q) \o r /\ x = Only("clear")
  BY DEF ReceiverStop, Only
<1>3. Due(r, TRUE, E, D, G) /\ Avoids(r, D)
  BY <1>2, Single, AvoidShort
<1>4. Ends(Stop(s), FALSE, E, D) /\ Due(Stop(s), FALSE, E, D, G)
  <2>0. ~no
    OBVIOUS
  <2>1. Past(<< "halt", s >>, no, E, D)
    BY DEF Past
  <2>2. << "halt", s >> \notin G /\ << "close", s >> \notin D /\ << "join", s >> \notin D
    OBVIOUS
  <2> HIDE DEF no
  <2>3. Ends(Stop(s), no, E, D) /\ Due(Stop(s), no, E, D, G)
    BY <2>1, <2>2, StopPair
  <2> QED
    BY <2>3 DEF no
<1>5. Avoids(Stop(Other(s)), G)
  BY <1>0, StopIs, AvoidShort
<1>6. Avoids(Stop("buffered"), D)
  BY <1>0, StopIs, AvoidShort
<1>7. Due(Stop(Other(s)), FALSE, E, D, G) /\ Due(Stop("buffered"), TRUE, E, D, G)
  BY <1>5, <1>6, DueAvoid, DueSafe
<1>8. Due(p \o q, FALSE, E, D, G) /\ Ends(p \o q, FALSE, E, D)
  <2>1. CASE s = "realtime"
    <3>1. Ends(p, FALSE, E, D) /\ Due(p, FALSE, E, D, G) /\ Due(q, TRUE, E, D, G) /\ Avoids(q, D)
      BY <1>4, <1>6, <1>7, <2>1
    <3> HIDE DEF p, q
    <3> QED
      BY <1>1, <3>1, DueJoined, EndsJoined
  <2>2. CASE s = "buffered"
    <3>1. Due(p, FALSE, E, D, G) /\ Due(q, FALSE, E, D, G) /\ Ends(q, FALSE, E, D)
      BY <1>0, <1>4, <1>7, <2>2
    <3> HIDE DEF p, q
    <3> QED
      BY <1>1, <3>1, DueJoined, EndsJoined
  <2> QED
    BY <1>0, <2>1, <2>2
<1> HIDE DEF p, q, r
<1>9. p \o q \in Seq(Steps)
  BY <1>1, Joined
<1>10. Due((p \o q) \o r, FALSE, E, D, G) /\ Ends((p \o q) \o r, FALSE, E, D)
  BY <1>1, <1>3, <1>8, <1>9, DueJoined, EndsJoined
<1> QED
  BY <1>2, <1>10

-----------------------------------------------------------------------------
(* A request. *)
Senders == {"new", "announced", "setup", "streaming", "paused", "torn", "ended"}
Stops(q) == \/ \E op \in {"pause", "unpause"} : q = ReceiverStop \o << Only(op), Okay >>
            \/ /\ conn.id < plan.connections
               /\ q = ReceiverStop \o << Only("eventstop"), Only("free") >>

LEMMA CleanList ==
  /\ \A x \in Harmless : Clean(<< x >>)
  /\ \A x, y \in Harmless : Clean(<< x, y >>)
  /\ \A x, y, z \in Harmless : Clean(<< x, y, z >>)
<1>1. ASSUME NEW x \in Harmless PROVE Clean(<< x >>)
  <2>1. << x >> \in Seq(Harmless)
    OBVIOUS
  <2> QED
    BY <2>1, HarmlessClean
<1>2. ASSUME NEW x \in Harmless, NEW y \in Harmless PROVE Clean(<< x, y >>)
  <2>1. << x, y >> \in Seq(Harmless)
    OBVIOUS
  <2> QED
    BY <2>1, HarmlessClean
<1>3. ASSUME NEW x \in Harmless, NEW y \in Harmless, NEW z \in Harmless PROVE Clean(<< x, y, z >>)
  <2>1. << x, y, z >> \in Seq(Harmless)
    OBVIOUS
  <2> QED
    BY <2>1, HarmlessClean
<1> QED
  BY <1>1, <1>2, <1>3

LEMMA SetupClean ==
  ASSUME NEW type \in {96, 103}
  PROVE  Clean(StreamInfo(type) \o StreamKey("current") \o NeedEventPort
             \o (IF type = 103 THEN StartBuffered \o << << "bufferedport", "" >> >> ELSE << >>)
             \o << << "ports", StreamOfType(type) >> >> \o Start(type)
             \o << << "answer", "stream" >>, << "play", "" >>, << "unpause", "" >> >>)
<1> DEFINE a == StreamInfo(type)
           b == StreamKey("current")
           e == NeedEventPort
           f == IF type = 103 THEN StartBuffered \o << << "bufferedport", "" >> >> ELSE << >>
           g == << << "ports", StreamOfType(type) >> >>
           h == Start(type)
           i == << << "answer", "stream" >>, << "play", "" >>, << "unpause", "" >> >>
<1>1. StreamOfType(type) \in Streams
  BY DEF StreamOfType, Streams
<1>2. Clean(a) /\ Clean(b) /\ Clean(e) /\ Clean(g) /\ Clean(i)
  BY <1>1, HarmlessSteps, CleanList DEF StreamInfo, StreamKey, NeedEventPort
<1>3. Clean(f)
  <2>1. << >> \in Seq(Harmless)
    OBVIOUS
  <2>2. Clean(<< >>)
    BY <2>1, HarmlessClean
  <2> QED
    BY <2>2, StartClean
<1>4. Clean(h)
  BY TypeClean
<1> HIDE DEF a, b, e, f, g, h, i
<1>5. Clean(a \o b \o e \o f \o g \o h \o i)
  BY <1>2, <1>3, <1>4, CleanJoined
<1> QED
  BY <1>5 DEF a, b, e, f, g, h, i

LEMMA RecordClean ==
  ASSUME NEW x \in {"stream", "ok"}
  PROVE  Clean((IF conn.paused THEN << >> ELSE Start(conn.stream_type))
             \o << << "play", "" >>, << "unpause", "" >>, << "answer", x >> >>)
<1> DEFINE p == IF conn.paused THEN << >> ELSE Start(conn.stream_type)
           q == << << "play", "" >>, << "unpause", "" >>, << "answer", x >> >>
<1>1. Clean(p)
  <2>1. << >> \in Seq(Harmless)
    OBVIOUS
  <2>2. Clean(<< >>)
    BY <2>1, HarmlessClean
  <2> QED
    BY <2>2, TypeClean
<1>2. Clean(q)
  BY HarmlessSteps, CleanList
<1> HIDE DEF p, q
<1>3. Clean(p \o q)
  BY <1>1, <1>2, CleanJoined
<1> QED
  BY <1>3 DEF p, q

LEMMA RequestIs ==
  ASSUME Types, Request
  PROVE  /\ todo = << >> /\ UNCHANGED << plan, receiver, event, promise >>
         /\ conn' \in Conn /\ conn'.id = conn.id /\ conn'.event_port = conn.event_port
         /\ sender' \in Senders
         /\ \/ Clean(todo') /\ (plan.orderly => sender' \notin {"torn", "ended"})
            \/ Stops(todo')
<1>1. conn \in Conn /\ sender \in Senders
  BY DEF Types, Senders
<1> DEFINE Goal == /\ todo = << >> /\ UNCHANGED << plan, receiver, event, promise >>
                   /\ conn' \in Conn /\ conn'.id = conn.id /\ conn'.event_port = conn.event_port
                   /\ sender' \in Senders
                   /\ \/ Clean(todo') /\ (plan.orderly => sender' \notin {"torn", "ended"})
                      \/ Stops(todo')
<1>2. CASE ANNOUNCE
  <2>1. Clean(<< << "format", "" >>, << "key", "current" >>, << "answer", "ok" >> >>)
    BY HarmlessSteps, CleanList
  <2> QED
    BY <1>1, <1>2, <2>1 DEF ANNOUNCE, Receive, Senders
<1>3. CASE SETUP1
  <2> DEFINE q == << << "ntp", "" >>, << "ports", "realtime" >>, << "format", "" >>,
                     << "type", "realtime" >>, << "answer", "ok" >> >>
  <2>1. Clean(q)
    <3> DEFINE a == << "ntp", "" >>
               b == << "ports", "realtime" >>
               e == << "format", "" >>
               f == << "type", "realtime" >>
               g == << "answer", "ok" >>
    <3>1. a \in Harmless /\ b \in Harmless /\ e \in Harmless /\ f \in Harmless /\ g \in Harmless
      BY HarmlessSteps DEF Streams
    <3> HIDE DEF a, b, e, f, g
    <3>2. << a, b, e, f, g >> \in Seq(Harmless)
      BY <3>1
    <3>3. Clean(<< a, b, e, f, g >>)
      BY <3>2, HarmlessClean
    <3> QED
      BY <3>3 DEF a, b, e, f, g
  <2>2. /\ todo = << >> /\ todo' = q /\ sender' = "setup" /\ UNCHANGED << plan, receiver, event, promise >>
        /\ conn' = [conn EXCEPT !.stream_type = 96]
    BY <1>3 DEF SETUP1, Receive
  <2>3. conn' \in Conn /\ conn'.id = conn.id /\ conn'.event_port = conn.event_port
    BY <1>1, <2>2 DEF Conn
  <2> QED
    BY <2>1, <2>2, <2>3 DEF Senders
<1>4. CASE SETUP2
  <2>1. Clean(StreamKey("session") \o NeedEventPort \o << << "answer", "ok" >> >>)
    <3> DEFINE a == StreamKey("session")
               b == NeedEventPort
               e == << << "answer", "ok" >> >>
    <3>1. Clean(a) /\ Clean(b) /\ Clean(e)
      BY HarmlessSteps, CleanList DEF StreamKey, NeedEventPort
    <3> HIDE DEF a, b, e
    <3>2. Clean(a \o b \o e)
      BY <3>1, CleanJoined
    <3> QED
      BY <3>2 DEF a, b, e
  <2> QED
    BY <1>1, <1>4, <2>1 DEF SETUP2, Receive, Senders
<1>5. ASSUME NEW type \in {96, 103}, SETUPStreams(type) PROVE Goal
  <2> DEFINE q == StreamInfo(type) \o StreamKey("current") \o NeedEventPort
             \o (IF type = 103 THEN StartBuffered \o << << "bufferedport", "" >> >> ELSE << >>)
             \o << << "ports", StreamOfType(type) >> >> \o Start(type)
             \o << << "answer", "stream" >>, << "play", "" >>, << "unpause", "" >> >>
  <2>1. Clean(q)
    BY SetupClean
  <2>2. /\ todo = << >> /\ todo' = q /\ sender' = "streaming" /\ UNCHANGED << plan, receiver, event, promise >>
        /\ conn' = [conn EXCEPT !.stream_type = type]
    BY <1>5 DEF SETUPStreams, Receive
  <2> HIDE DEF q
  <2>3. conn' \in Conn /\ conn'.id = conn.id /\ conn'.event_port = conn.event_port
    BY <1>1, <2>2 DEF Conn
  <2> QED
    BY <2>1, <2>2, <2>3 DEF Senders
<1>6. CASE RECORD
  <2> DEFINE x == IF plan.protocol = 1 THEN "stream" ELSE "ok"
             q == (IF conn.paused THEN << >> ELSE Start(conn.stream_type))
                  \o << << "play", "" >>, << "unpause", "" >>, << "answer", x >> >>
  <2>1. Clean(q)
    <3>1. x \in {"stream", "ok"}
      OBVIOUS
    <3> HIDE DEF x
    <3> QED
      BY <3>1, RecordClean
  <2>2. /\ todo = << >> /\ todo' = q /\ UNCHANGED << plan, receiver, event, promise, conn >>
    BY <1>6 DEF RECORD, Receive
  <2>3. sender' \in Senders /\ (plan.orderly => sender' \notin {"torn", "ended"})
    BY <1>1, <1>6 DEF RECORD, At, Senders
  <2> HIDE DEF q
  <2> QED
    BY <1>1, <2>1, <2>2, <2>3
<1>7. CASE PAUSE
  <2>1. Clean(<< << "hold", "" >>, << "pause", "" >>, << "answer", "ok" >> >>)
    BY HarmlessSteps, CleanList
  <2> QED
    BY <1>1, <1>7, <2>1 DEF PAUSE, Receive, Senders
<1>8. ASSUME NEW rate \in {0, 1}, SETRATEANCHORTIME(rate) PROVE Goal
  <2>1. /\ Clean(<< << "pause", "" >>, << "hold", "" >>, << "answer", "ok" >> >>)
        /\ Clean(<< << "unpause", "" >>, << "play", "" >>, << "answer", "ok" >> >>)
    BY HarmlessSteps, CleanList
  <2> QED
    BY <1>1, <1>8, <2>1 DEF SETRATEANCHORTIME, Receive, Senders
<1>9. ASSUME NEW has_streams \in BOOLEAN, TEARDOWN(has_streams) PROVE Goal
  <2>1. /\ todo = << >> /\ UNCHANGED << plan, receiver, event, promise, conn >> /\ sender' \in Senders
        /\ todo' = ReceiverStop \o << << IF has_streams THEN "pause" ELSE "unpause", "" >>,
                                      << "answer", "ok" >> >>
    BY <1>9 DEF TEARDOWN, Receive, Senders
  <2>2. Stops(todo')
    BY <2>1 DEF Stops, Only, Okay
  <2> QED
    BY <1>1, <2>1, <2>2
<1>10. CASE DISCONNECT
  <2>1. Stops(todo')
    BY <1>10 DEF DISCONNECT, EndOfConnection, Receive, Stops, Only
  <2> QED
    BY <1>1, <1>10, <2>1 DEF DISCONNECT, Receive, Senders
<1> QED
  BY <1>2, <1>3, <1>4, <1>5, <1>6, <1>7, <1>8, <1>9, <1>10 DEF Request

Core == /\ Types /\ Shape /\ Stopped /\ Selected /\ StreamsInv /\ EventInv /\ BufferedKnown /\ Fresh
        /\ Bound

Ended(s) == {<< "close", s >>, << "join", s >>, << "select", Other(s) >>, Only("clear"), Only("free"), Okay}

LEMMA QuietIs ==
  ASSUME NEW s \in Streams
  PROVE  /\ Quiet(s)' \subseteq Ended(s)
         /\ \A x \in Streams : << "halt", x >> \notin Ended(s)
         /\ << "close", Other(s) >> \notin Ended(s) /\ << "join", Other(s) >> \notin Ended(s)
<1>1. Other(s) \in Streams /\ Other(s) # s
  BY DEF Other, Streams
<1>2. Quiet(s)' \subseteq Ended(s)
  BY DEF Quiet, Ended
<1>3. ASSUME NEW x \in Streams PROVE << "halt", x >> \notin Ended(s)
  <2>1. /\ << "halt", x >>[1] = "halt" /\ << "close", s >>[1] = "close" /\ << "join", s >>[1] = "join"
        /\ << "select", Other(s) >>[1] = "select" /\ Only("clear")[1] = "clear"
        /\ Only("free")[1] = "free" /\ Okay[1] = "answer"
    BY DEF Only, Okay
  <2> QED
    BY <2>1 DEF Ended
<1>4. ASSUME NEW op \in {"close", "join"} PROVE << op, Other(s) >> \notin Ended(s)
  <2>1. /\ << op, Other(s) >> # << "close", s >> /\ << op, Other(s) >> # << "join", s >>
        /\ << op, Other(s) >> # << "select", Other(s) >> /\ << op, Other(s) >> # Only("clear")
        /\ << op, Other(s) >> # Only("free") /\ << op, Other(s) >> # Okay
    BY <1>1 DEF Only, Okay
  <2> QED
    BY <2>1 DEF Ended
<1> QED
  BY <1>2, <1>3, <1>4

(* What a list may owe to the state before it. *)
Owed(q) ==
  /\ q \in Seq(Steps) /\ Follow(q)
  /\ \A s \in Streams :
       /\ Due(q, FALSE, {<< "halt", s >>}, StartOf(s), Quiet(s)')
       /\ Due(q, FALSE, {<< "type", s >>, << "select", s >>},
              {<< "type", Other(s) >>, << "select", Other(s) >>}, StartOf(s) \cup {<< "restart", s >>})
       /\ Due(q, FALSE, {}, Steps, {<< "bind", s >>})
  /\ Due(q, FALSE, StartOf("buffered"), Breaks("buffered"), {Only("bufferedport")})
  /\ Due(q, FALSE, Ceases, StartOf("realtime"), StartOf("realtime"))
  /\ Due(q, conn.id < plan.connections, {}, {}, {Only("free")})

LEMMA CleanOwed ==
  ASSUME Clean(todo'), plan' = plan, plan.orderly => sender' \notin {"torn", "ended"}
  PROVE  Owed(todo')
<1> DEFINE q == todo'
<1>1. /\ q \in Seq(Steps) /\ Follow(q) /\ Avoids(q, Closing) /\ Avoids(q, Ending)
      /\ \A s \in Streams :
           Due(q, FALSE, {<< "type", s >>, << "select", s >>},
              {<< "type", Other(s) >>, << "select", Other(s) >>}, StartOf(s) \cup {<< "restart", s >>})
      /\ Due(q, FALSE, StartOf("buffered"), Breaks("buffered"), {Only("bufferedport")})
      /\ Due(q, FALSE, Ceases, StartOf("realtime"), StartOf("realtime"))
  BY DEF Clean
<1>2. ASSUME NEW s \in Streams PROVE Quiet(s)' \subseteq Ending
  <2>1. (plan'.orderly => sender' \notin {"torn", "ended"}) => Quiet(s)' \subseteq Ending
    <3>1. /\ \A op \in {"close", "join", "select", "bind"}, x \in Streams : << op, x >> \in Ending
          /\ Only("clear") \in Ending /\ Only("free") \in Ending
      BY DEF Ending
    <3>2. Other(s) \in Streams
      BY DEF Other, Streams
    <3> QED
      BY <3>1, <3>2 DEF Quiet
  <2> QED
    BY <2>1
<1>3. ASSUME NEW s \in Streams PROVE {<< "bind", s >>} \subseteq Ending
  BY DEF Ending
<1>4. {Only("free")} \subseteq Closing
  BY DEF Closing
<1> HIDE DEF q
<1>5. ASSUME NEW s \in Streams PROVE Due(q, FALSE, {<< "halt", s >>}, StartOf(s), Quiet(s)')
  <2>1. Avoids(q, Quiet(s)')
    BY <1>1, <1>2, AvoidsPart
  <2> QED
    BY <2>1, DueAvoid
<1>6. ASSUME NEW s \in Streams PROVE Due(q, FALSE, {}, Steps, {<< "bind", s >>})
  <2>1. Avoids(q, {<< "bind", s >>})
    BY <1>1, <1>3, AvoidsPart
  <2> QED
    BY <2>1, DueAvoid
<1>7. Due(q, conn.id < plan.connections, {}, {}, {Only("free")})
  <2>1. Avoids(q, {Only("free")})
    BY <1>1, <1>4, AvoidsPart
  <2> QED
    BY <2>1, DueAvoid
<1> QED
  BY <1>1, <1>5, <1>6, <1>7 DEF Owed, q

LEMMA StopsOwed ==
  ASSUME Stops(todo')
  PROVE  Owed(todo')
<1>1. PICK x, y : /\ todo' = ReceiverStop \o << x, y >>
                  /\ \/ x \in {Only("pause"), Only("unpause")} /\ y = Okay
                     \/ x = Only("eventstop") /\ y = Only("free") /\ conn.id < plan.connections
  BY DEF Stops
<1> DEFINE p == ReceiverStop
           q == << x, y >>
           Tails == {"pause", "unpause", "eventstop", "free", "answer"}
<1>2. x[1] \in Tails /\ y[1] \in Tails /\ x \in Steps /\ y \in Steps
  <2>1. /\ \A op \in Alone : Only(op)[1] = op /\ Only(op) \in Steps
        /\ Okay[1] = "answer" /\ Okay \in Steps
    BY AreSteps DEF Only, Okay
  <2>2. "pause" \in Alone /\ "unpause" \in Alone /\ "eventstop" \in Alone /\ "free" \in Alone
    BY DEF Alone
  <2> QED
    BY <1>1, <2>1, <2>2
<1>3. q \in Seq(Steps) /\ Len(q) = 2 /\ q[1] = x /\ q[2] = y
  BY <1>2
<1>4. \A D : x \notin D /\ y \notin D => Avoids(q, D)
  BY AvoidShort
<1>5. p \in Seq(Steps) /\ Follow(p) /\ Avoids(p, Closing)
  BY ReceiverStopIs
<1>6. \A s \in Streams, op \in OnStream : x # << op, s >> /\ y # << op, s >>
  <2>1. \A s \in Streams, op \in OnStream : << op, s >>[1] = op
    OBVIOUS
  <2> QED
    BY <1>2, <2>1 DEF OnStream
<1>7. Follow(q)
  <2>1. y # Only("eventstop") /\ x # Only("free") /\ x # Error
        /\ (x = Only("eventstop") => y = Only("free"))
    <3>1. Only("pause") # Only("eventstop") /\ Only("unpause") # Only("eventstop") /\ Okay # Only("eventstop")
          /\ Only("pause") # Only("free") /\ Only("unpause") # Only("free") /\ Only("eventstop") # Only("free")
          /\ Only("pause") # Error /\ Only("unpause") # Error /\ Only("eventstop") # Error
      BY DEF Only, Okay, Error
    <3> QED
      BY <1>1, <3>1
  <2>2. 1 .. Len(q) = {1, 2} /\ Len(q) = 2 /\ q[1] = x /\ q[2] = y
    BY <1>3
  <2> HIDE DEF q
  <2>3. \A s \in Streams : x # << "halt", s >> /\ x # << "close", s >> /\ y # << "halt", s >> /\ y # << "close", s >>
    BY <1>6 DEF OnStream
  <2>4. \A i \in 1 .. Len(q) :
          /\ q[i] = Only("eventstop") => i + 1 <= Len(q) /\ q[i + 1] = Only("free")
          /\ q[i] \in {Only("free"), Error} => i = Len(q)
    BY <2>1, <2>2
  <2>5. \A i \in 1 .. Len(q), s \in Streams : q[i] # << "halt", s >> /\ q[i] # << "close", s >>
    BY <2>2, <2>3
  <2> QED
    BY <2>4, <2>5 DEF Follow
<1> HIDE DEF p, q
<1>8. p \o q \in Seq(Steps) /\ Follow(p \o q)
  BY <1>3, <1>5, <1>7, FollowJoined
<1>9. ASSUME NEW G, \A s \in Streams : << "halt", s >> \notin G /\ << "close", s >> \notin G
                                       /\ << "join", s >> \notin G,
             Only("clear") \notin G, x \notin G, y \notin G
      PROVE  Avoids(p \o q, G)
  <2>1. Avoids(p, G)
    BY <1>9, ReceiverStopIs DEF p
  <2>2. Avoids(q, G)
    BY <1>4, <1>9
  <2> QED
    BY <1>3, <1>5, <2>1, <2>2, AvoidsJoined
<1>10. ASSUME NEW s \in Streams PROVE Due(p \o q, FALSE, {<< "halt", s >>}, StartOf(s), Quiet(s)')
  <2> DEFINE E == {<< "halt", s >>}
             D == StartOf(s)
             G == Quiet(s)'
  <2>1. << "halt", s >> \in E
    OBVIOUS
  <2>2. \A z \in Streams : << "halt", z >> \notin D /\ << "close", z >> \notin D /\ << "join", z >> \notin D
    BY DEF StartOf
  <2>3. Only("clear") \notin D
    BY DEF StartOf, Only
  <2>4. /\ \A z \in Streams : << "halt", z >> \notin G
        /\ << "close", Other(s) >> \notin G /\ << "join", Other(s) >> \notin G
    BY QuietIs
  <2>5. x \notin D /\ y \notin D
    BY <1>6 DEF StartOf, OnStream
  <2> HIDE DEF E, D, G
  <2>6. Due(p, FALSE, E, D, G) /\ Ends(p, FALSE, E, D)
    BY <2>1, <2>2, <2>3, <2>4, ReceiverStopEnds DEF p
  <2>7. Due(q, TRUE, E, D, G)
    <3>1. Avoids(q, D)
      BY <1>4, <2>5
    <3> QED
      BY <3>1, DueSafe
  <2>8. Due(p \o q, FALSE, E, D, G)
    BY <1>3, <1>5, <2>6, <2>7, DueJoined
  <2> QED
    BY <2>8 DEF E, D, G
<1>11. ASSUME NEW s \in Streams
       PROVE  /\ Avoids(p \o q, StartOf(s) \cup {<< "restart", s >>})
              /\ Avoids(p \o q, {<< "bind", s >>}) /\ Avoids(p \o q, StartOf(s))
  <2> DEFINE G == {<< "begin", s >>, << "bind", s >>, << "restart", s >>}
  <2>1. \A z \in Streams : << "halt", z >> \notin G /\ << "close", z >> \notin G /\ << "join", z >> \notin G
    OBVIOUS
  <2>2. Only("clear") \notin G
    BY DEF Only
  <2>3. x \notin G /\ y \notin G
    BY <1>6 DEF OnStream
  <2>a. StartOf(s) \cup {<< "restart", s >>} \subseteq G /\ {<< "bind", s >>} \subseteq G /\ StartOf(s) \subseteq G
    BY DEF StartOf
  <2> HIDE DEF G
  <2>4. Avoids(p \o q, G)
    BY <1>9, <2>1, <2>2, <2>3
  <2> QED
    BY <2>4, <2>a, AvoidsPart
<1>12. Avoids(p \o q, {Only("bufferedport")})
  <2>1. \A z \in Streams, op \in OnStream : << op, z >> # Only("bufferedport")
    BY DEF Only, OnStream
  <2>2. Only("clear") # Only("bufferedport")
    BY DEF Only
  <2>3. Only("bufferedport")[1] = "bufferedport"
    BY DEF Only
  <2>4. x # Only("bufferedport") /\ y # Only("bufferedport")
    BY <1>2, <2>3
  <2> QED
    BY <1>9, <2>1, <2>2, <2>4 DEF OnStream
<1>13. Due(p \o q, conn.id < plan.connections, {}, {}, {Only("free")})
  <2>1. CASE conn.id < plan.connections
    <3>1. Avoids(p \o q, {})
      BY DEF Avoids
    <3> QED
      BY <2>1, <3>1, DueSafe
  <2>2. CASE ~(conn.id < plan.connections)
    <3>1. Only("pause") # Only("free") /\ Only("unpause") # Only("free") /\ Okay # Only("free")
          /\ Only("clear") # Only("free")
      BY DEF Only, Okay
    <3>2. x # Only("free") /\ y # Only("free")
      BY <1>1, <2>2, <3>1
    <3>3. \A z \in Streams : << "halt", z >> # Only("free") /\ << "close", z >> # Only("free")
                             /\ << "join", z >> # Only("free")
      BY DEF Only
    <3>4. Avoids(p \o q, {Only("free")})
      BY <1>9, <3>1, <3>2, <3>3
    <3> QED
      BY <3>4, DueAvoid
  <2> QED
    BY <2>1, <2>2
<1>14. /\ \A s \in Streams :
            /\ Due(p \o q, FALSE, {<< "type", s >>, << "select", s >>},
                   {<< "type", Other(s) >>, << "select", Other(s) >>}, StartOf(s) \cup {<< "restart", s >>})
            /\ Due(p \o q, FALSE, {}, Steps, {<< "bind", s >>})
       /\ Due(p \o q, FALSE, StartOf("buffered"), Breaks("buffered"), {Only("bufferedport")})
       /\ Due(p \o q, FALSE, Ceases, StartOf("realtime"), StartOf("realtime"))
  <2>1. "realtime" \in Streams
    BY DEF Streams
  <2> QED
    BY <1>11, <1>12, <2>1, DueAvoid
<1> QED
  BY <1>1, <1>8, <1>10, <1>13, <1>14 DEF Owed, p, q

LEMMA CoreRequest ==
  ASSUME Core, Request
  PROVE  Core'
<1>1. /\ todo = << >> /\ UNCHANGED << plan, receiver, event, promise >>
      /\ conn' \in Conn /\ conn'.id = conn.id /\ conn'.event_port = conn.event_port
      /\ sender' \in Senders
      /\ \/ Clean(todo') /\ (plan.orderly => sender' \notin {"torn", "ended"})
         \/ Stops(todo')
  BY RequestIs DEF Core
<1>2. Owed(todo')
  BY <1>1, CleanOwed, StopsOwed
<1>3. /\ stream' = stream /\ running' = running /\ port' = port /\ task' = task
      /\ decoder' = decoder /\ key' = key /\ playing' = playing /\ plan' = plan
      /\ event' = event /\ promise' = promise
  BY <1>1 DEF receiver
<1>4. Types'
  BY <1>1, <1>3 DEF Core, Types, TypeOK, Conn, Senders
<1>5. Shape'
  BY <1>2 DEF Owed, Shape
<1>6. Stopped' /\ Selected' /\ Bound' /\ BufferedKnown' /\ Fresh'
  <2>1. \A c, E, D, G : Due(todo', FALSE, E, D, G) => Due(todo', c, E, D, G)
    BY Stronger
  <2>2. \A s \in Streams : Other(s)' = Other(s) /\ StartOf(s)' = StartOf(s)
    BY DEF Other, StartOf
  <2>3. Stopped'
    BY <1>2, <2>1 DEF Owed, Stopped
  <2>4. Selected'
    BY <1>2, <2>1 DEF Owed, Selected
  <2>5. Bound'
    BY <1>2, <2>1 DEF Owed, Bound
  <2>6. BufferedKnown'
    BY <1>2, <2>1 DEF Owed, BufferedKnown
  <2>7. Fresh'
    BY <1>2, <2>1 DEF Owed, Fresh
  <2> QED
    BY <2>3, <2>4, <2>5, <2>6, <2>7
<1>7. \A x : ~At1(x)
  BY <1>1 DEF At1
<1>8. StreamsInv'
  BY <1>3, <1>7 DEF Core, StreamsInv
<1>9. EventInv'
  <2>1. ~Doing("free")
    BY <1>1 DEF Doing
  <2> QED
    BY <1>1, <1>2, <1>3, <2>1 DEF Core, EventInv, Owed
<1> QED
  BY <1>4, <1>5, <1>6, <1>8, <1>9 DEF Core

-----------------------------------------------------------------------------
LEMMA CoreInit ==
  ASSUME Init
  PROVE  Core
<1>1. /\ plan \in Scenario /\ conn = NewConn(1) /\ todo = << >> /\ stream = "realtime"
      /\ running = [s \in Streams |-> FALSE] /\ port = [s \in Streams |-> 0]
      /\ task = [t \in Tasks |-> "none"] /\ decoder = FALSE /\ playing = FALSE
      /\ key = [s \in Streams |-> "none"]
      /\ event = [handle |-> FALSE, should_stop |-> FALSE, listeners |-> {}]
      /\ promise = Nothing /\ sender = "new"
  BY ScenarioAssumption DEF Init
<1>2. Types
  <2>1. conn \in Conn
    BY <1>1 DEF NewConn, Conn
  <2>2. event \in Event
    BY <1>1 DEF Event
  <2>3. promise \in [stream : Streams \cup {"none"}, port : Ports \cup {0}]
    BY <1>1 DEF Nothing
  <2>4. TypeOK
    BY <1>1, <2>1 DEF TypeOK, Conn, Streams
  <2> QED
    BY <1>1, <2>1, <2>2, <2>3, <2>4 DEF Types
<1>3. Shape
  <2>1. << >> \in Seq(Harmless)
    OBVIOUS
  <2> QED
    BY <1>1, <2>1, HarmlessClean DEF Clean, Shape
<1>4. \A c, E, D, G : Due(todo, c, E, D, G)
  BY <1>1, Empty
<1>5. Stopped /\ Selected /\ BufferedKnown /\ Fresh /\ Bound
  BY <1>4 DEF Stopped, Selected, BufferedKnown, Fresh, Bound
<1>6. StreamsInv
  <2>1. \A t \in Tasks : StreamOf(t) \in Streams /\ task[t] = "none"
    BY <1>1 DEF StreamOf, Streams
  <2>2. \A t \in {"recv", "buff"} : t \in Tasks
    BY DEF Tasks
  <2> QED
    BY <1>1, <2>1, <2>2 DEF StreamsInv
<1>7. EventInv
  <2>1. conn.id = 1 /\ conn.event_port = FALSE /\ plan.connections \in Nat \ {0}
    BY <1>1 DEF NewConn, Scenario
  <2> QED
    BY <1>1, <1>4, <2>1 DEF EventInv
<1> QED
  BY <1>2, <1>3, <1>5, <1>6, <1>7 DEF Core

LEMMA CoreStep ==
  ASSUME Core, [Next]_vars
  PROVE  Core'
<1>1. CASE Request
  BY <1>1, CoreRequest
<1>2. CASE Handler
  <2>1. Types' /\ Shape' /\ Stopped' /\ Selected' /\ StreamsInv' /\ EventInv' /\ BufferedKnown' /\ Fresh' /\ Bound'
    BY <1>2, TypesKept, ShapeKept, StoppedKept, SelectedKept, StreamsKept, EventKept, BufferedKnownKept,
       FreshKept, BoundKept DEF Core
  <2> QED
    BY <2>1 DEF Core
<1>3. CASE \E t \in Tasks : StreamTask(t)
  <2>1. PICK t \in Tasks : StreamTask(t)
    BY <1>3
  <2>2. UNCHANGED inside /\ Types' /\ StreamsInv'
    BY <2>1, TaskSteps DEF Core
  <2>3. /\ todo' = todo /\ stream' = stream /\ running' = running /\ conn' = conn /\ event' = event
        /\ plan' = plan /\ sender' = sender
    BY <2>2 DEF inside
  <2>4. Shape' /\ Stopped' /\ Selected' /\ BufferedKnown' /\ Fresh' /\ Bound'
    BY <2>3 DEF Core, Shape, Stopped, Selected, BufferedKnown, Fresh, Bound, Quiet, Other
  <2>5. EventInv'
    BY <2>3 DEF Core, EventInv, Doing, Op
  <2> QED
    BY <2>2, <2>4, <2>5 DEF Core
<1>4. CASE \E n \in event.listeners : EventTaskEnds(n)
  <2>1. PICK n \in event.listeners : EventTaskEnds(n)
    BY <1>4
  <2>2. UNCHANGED << plan, sender, conn, promise, left, todo, receiver >> /\ Types' /\ EventInv'
    BY <2>1, EventTaskSteps DEF Core
  <2>3. Shape' /\ Stopped' /\ Selected' /\ BufferedKnown' /\ Fresh' /\ Bound'
    BY <2>2 DEF Core, Shape, Stopped, Selected, BufferedKnown, Fresh, Bound, Quiet, Other, receiver
  <2>4. StreamsInv'
    BY <2>2 DEF Core, StreamsInv, At1, receiver
  <2> QED
    BY <2>2, <2>3, <2>4 DEF Core
<1>5. CASE UNCHANGED vars
  <2>1. /\ todo' = todo /\ stream' = stream /\ running' = running /\ conn' = conn /\ event' = event
        /\ plan' = plan /\ sender' = sender /\ port' = port /\ task' = task /\ decoder' = decoder
        /\ key' = key /\ playing' = playing /\ promise' = promise
    BY <1>5 DEF vars, receiver
  <2>2. Types' /\ StreamsInv' /\ EventInv'
    BY <2>1 DEF Core, Types, TypeOK, StreamsInv, At1, EventInv, Doing, Op
  <2>3. Shape' /\ Stopped' /\ Selected' /\ BufferedKnown' /\ Fresh' /\ Bound'
    BY <2>1 DEF Core, Shape, Stopped, Selected, BufferedKnown, Fresh, Bound, Quiet, Other
  <2> QED
    BY <2>2, <2>3 DEF Core
<1> QED
  BY <1>1, <1>2, <1>3, <1>4, <1>5 DEF Next

LEMMA AlwaysCore == Spec => []Core
<1> QED
  BY CoreInit, CoreStep, PTL DEF Spec

(* A connection that was given an event port keeps the one listener and the
   handle of its task (rtsp_events.c) until its cleanup frees the connection,
   though each SETUP may stop and start the task; types and the rest of
   SessionInv with it.  *)
THEOREM OneEventPort == Spec => []SessionInv
<1>1. Core => SessionInv
  <2> SUFFICES ASSUME Core PROVE SessionInv
    OBVIOUS
  <2>1. TypeOK
    BY DEF Core, Types
  <2>2. Cardinality(event.listeners) <= 1
    <3>1. CASE event.listeners = {}
      <4>1. Cardinality(event.listeners) = 0
        BY <3>1, FS_EmptySet
      <4> QED
        BY <4>1
    <3>2. CASE event.listeners # {}
      <4>1. PICK n \in event.listeners : TRUE
        BY <3>2
      <4>2. event.listeners = {n}
        BY <4>1 DEF Core, EventInv
      <4>3. Cardinality({n}) = 1
        BY FS_Singleton
      <4> QED
        BY <4>2, <4>3
    <3> QED
      BY <3>1, <3>2
  <2>3. EventPortServed
    BY <2>2 DEF Core, EventInv, EventPortServed
  <2> QED
    BY <2>1, <2>3 DEF SessionInv
<1> QED
  BY <1>1, AlwaysCore, PTL

-----------------------------------------------------------------------------
(* The streams implement Feeder. *)
OpenStreams == {s \in Streams : port[s] # 0}
FeedingTasks == {t \in Tasks : task[t] = "decode"}

LEMMA OneAtMost ==
  ASSUME Core
  PROVE  /\ \A s \in OpenStreams : s = stream
         /\ \A t \in FeedingTasks : t = (IF stream = "realtime" THEN "recv" ELSE "buff")
<1>1. \A t \in Tasks : t # "ctrl" /\ StreamOf(t) = stream => t = (IF stream = "realtime" THEN "recv" ELSE "buff")
  BY DEF Tasks, StreamOf
<1> QED
  BY <1>1 DEF Core, StreamsInv, OpenStreams, FeedingTasks

LEMMA FeederStep ==
  ASSUME Core, Next
  PROVE  F!Next \/ UNCHANGED << OpenStreams, FeedingTasks >>
<1>0. /\ stream \in Streams /\ running \in [Streams -> BOOLEAN] /\ port \in [Streams -> Ports \cup {0}]
      /\ task \in [Tasks -> {"none", "check", "blocked", "decode"}] /\ 0 \notin Ports
      /\ \A t \in Tasks : StreamOf(t) \in Streams
      /\ conn.data_port \in Ports \cup {0} /\ conn.buffered_port \in Ports \cup {0}
  BY PortAssumption DEF Core, Types, TypeOK, StreamOf, Streams
<1>1. /\ \A s \in Streams : F!Open(s) <=> OpenStreams = {} /\ FeedingTasks = {} /\ OpenStreams' = {s}
                                          /\ FeedingTasks' = FeedingTasks
      /\ \A s \in Streams : F!Close(s) <=> s \in OpenStreams /\ OpenStreams' = OpenStreams \ {s}
                                           /\ FeedingTasks' = FeedingTasks
      /\ \A t \in Tasks : F!Take(t) <=> OpenStreams # {} /\ FeedingTasks = {} /\ FeedingTasks' = {t}
                                        /\ OpenStreams' = OpenStreams
      /\ \A t \in Tasks : F!Deliver(t) <=> t \in FeedingTasks /\ FeedingTasks' = FeedingTasks \ {t}
                                           /\ OpenStreams' = OpenStreams
  BY DEF F!Open, F!Close, F!Take, F!Deliver, OpenStreams, FeedingTasks
<1>2. F!Next <=> \/ \E s \in Streams : F!Open(s) \/ F!Close(s)
                 \/ \E t \in Tasks : F!Take(t) \/ F!Deliver(t)
  BY DEF F!Next
<1>3. /\ port' = port => OpenStreams' = OpenStreams
      /\ task' = task => FeedingTasks' = FeedingTasks
  BY DEF OpenStreams, FeedingTasks
<1>4. ASSUME NEW s \in Streams, port' = [port EXCEPT ![s] = 0], task' = task
      PROVE  F!Next \/ UNCHANGED << OpenStreams, FeedingTasks >>
  <2>1. OpenStreams' = OpenStreams \ {s}
    BY <1>0, <1>4 DEF OpenStreams
  <2> QED
    BY <1>1, <1>2, <1>3, <1>4, <2>1
<1>5. CASE Request
  <2>1. port' = port /\ task' = task
    BY <1>5, RequestIs DEF Core, receiver
  <2> QED
    BY <2>1, <1>3
<1>6. CASE \E n \in event.listeners : EventTaskEnds(n)
  <2>1. port' = port /\ task' = task
    BY <1>6 DEF EventTaskEnds, receiver
  <2> QED
    BY <2>1, <1>3
<1>7. ASSUME NEW t \in Tasks, StreamTask(t)
      PROVE  F!Next \/ UNCHANGED << OpenStreams, FeedingTasks >>
  <2>1. port' = port
    BY <1>7 DEF StreamTask, Check, Wake, Packet, Decoded, inside
  <2>2. CASE Check(t) \/ Wake(t)
    <3>1. PICK to \in {"none", "check", "blocked"} : task' = [task EXCEPT ![t] = to] /\ task[t] # "decode"
      BY <2>2 DEF Check, Wake, Move
    <3>2. FeedingTasks' = FeedingTasks
      BY <1>0, <3>1 DEF FeedingTasks
    <3> QED
      BY <2>1, <3>2, <1>3
  <2>3. CASE Decoded(t)
    <3>1. task[t] = "decode" /\ task' = [task EXCEPT ![t] = "check"]
      BY <2>3 DEF Decoded, Move
    <3>2. FeedingTasks' = FeedingTasks \ {t} /\ t \in FeedingTasks
      BY <1>0, <3>1 DEF FeedingTasks
    <3> QED
      BY <1>1, <1>2, <1>3, <2>1, <3>2
  <2>4. CASE Packet(t)
    <3>1. task[t] = "blocked" /\ task' = [task EXCEPT ![t] = "decode"] /\ t # "ctrl" /\ port[StreamOf(t)] # 0
      BY <2>4 DEF Packet, Move
    <3>2. StreamOf(t) \in OpenStreams
      BY <1>0, <3>1 DEF OpenStreams
    <3>3. t = (IF stream = "realtime" THEN "recv" ELSE "buff")
      <4>1. StreamOf(t) = stream
        BY <3>2, OneAtMost
      <4> QED
        BY <3>1, <4>1 DEF Tasks, StreamOf
    <3>4. FeedingTasks = {}
      <4>1. t \notin FeedingTasks
        BY <3>1 DEF FeedingTasks
      <4> QED
        BY <3>3, <4>1, OneAtMost
    <3>5. FeedingTasks' = {t}
      BY <1>0, <3>1, <3>4 DEF FeedingTasks
    <3> QED
      BY <1>1, <1>2, <1>3, <2>1, <3>2, <3>4, <3>5
  <2> QED
    BY <1>7, <2>2, <2>3, <2>4 DEF StreamTask
<1>8. CASE Handler
  <2>0. Shape /\ Types /\ StreamsInv
    BY DEF Core
  <2>1. CASE HeadOp \notin {"bind", "create", "close"}
    <3>1. port' = port /\ task' = task
      BY <1>8, <2>0, <2>1, Frame DEF HeadOp
    <3> QED
      BY <3>1, <1>3
  <2>2. CASE HeadOp = "close"
    <3>1. Close /\ Doing("close") /\ task' = task
      BY <1>8, <2>0, <2>2, ActionOf, Frame DEF HeadOp, Close
    <3>2. Arg \in Streams /\ port' = [port EXCEPT ![Arg] = 0]
      BY <2>0, <3>1, HeadIs DEF Close, OnStream
    <3> QED
      BY <3>1, <3>2, <1>4
  <2>3. CASE HeadOp = "create"
    <3>1. Create /\ Doing("create")
      BY <1>8, <2>0, <2>3, ActionOf DEF HeadOp, Create
    <3>2. Arg \in Tasks
      BY <2>0, <3>1, HeadIs
    <3>3. CASE port' = [port EXCEPT ![StreamOf(Arg)] = 0] /\ task' = task
      BY <1>0, <3>2, <3>3, <1>4
    <3>4. CASE task' = [task EXCEPT ![Arg] = "check"] /\ port' = port
      <4>1. FeedingTasks' = FeedingTasks \ {Arg}
        BY <1>0, <3>2, <3>4 DEF FeedingTasks
      <4>2. CASE Arg \in FeedingTasks
        BY <1>1, <1>2, <1>3, <3>2, <3>4, <4>1, <4>2
      <4>3. CASE Arg \notin FeedingTasks
        BY <1>3, <3>4, <4>1, <4>3
      <4> QED
        BY <4>2, <4>3
    <3> QED
      BY <3>1, <3>3, <3>4 DEF Create
  <2>4. CASE HeadOp = "bind"
    <3>1. Bind /\ Doing("bind") /\ task' = task
      BY <1>8, <2>0, <2>4, ActionOf, Frame DEF HeadOp, Bind
    <3>2. Arg = HeadArg /\ Arg \in Streams
      BY <2>0, <3>1, HeadIs DEF OnStream, HeadArg
    <3>3. CASE port' = port
      BY <1>3, <3>1, <3>3
    <3>4. CASE port' # port
      <4>1. PICK p \in IF Wanted(Arg) = 0 THEN Ports ELSE {Wanted(Arg)} : port' = [port EXCEPT ![Arg] = p]
        BY <3>1, <3>4 DEF Bind
      <4>2. p # 0
        BY <1>0, <4>1
      <4>3. stream = Arg /\ ~running[Arg]
        BY <1>8, <2>4, <3>2, AtHead DEF Core
      <4>4. \A x : todo[1] # << "close", x >> /\ todo[1] # << "join", x >>
        BY <1>8, <2>0, <2>4, HeadPair
      <4>5. OpenStreams = {}
        BY <1>0, <2>0, <4>3, <4>4 DEF OpenStreams, StreamsInv, At1
      <4>6. FeedingTasks = {}
        BY <1>0, <2>0, <4>3, <4>4 DEF FeedingTasks, StreamsInv, At1
      <4>7. OpenStreams' = {Arg}
        <5>1. port'[Arg] = p /\ \A s \in Streams : s # Arg => port'[s] = port[s]
          BY <1>0, <3>2, <4>1
        <5> QED
          BY <3>2, <4>2, <4>5, <5>1 DEF OpenStreams
      <4> QED
        BY <1>1, <1>2, <1>3, <3>1, <3>2, <4>5, <4>6, <4>7
    <3> QED
      BY <3>3, <3>4
  <2> QED
    BY <2>1, <2>2, <2>3, <2>4
<1> QED
  BY <1>5, <1>6, <1>7, <1>8 DEF Next

(* One of the two streams (audio_stream_realtime.c, audio_stream_buffered.c) has a socket
   open at a time, and its task alone takes audio from it: this is what keeps
   the decoder and the buffers they share whole without a lock.  Each step of
   a session is a step of Feeder or changes nothing that Feeder sees. *)
THEOREM StreamsFeedOne == Spec => OneFeeder
<1>1. Init => F!Init
  BY DEF Init, F!Init
<1>2. Core /\ [Next]_vars => [F!Next]_<< OpenStreams, FeedingTasks >>
  <2> SUFFICES ASSUME Core, [Next]_vars PROVE F!Next \/ UNCHANGED << OpenStreams, FeedingTasks >>
    OBVIOUS
  <2>1. CASE Next
    BY <2>1, FeederStep
  <2>2. CASE UNCHANGED vars
    BY <2>2 DEF vars, receiver, OpenStreams, FeedingTasks
  <2> QED
    BY <2>1, <2>2
<1>3. Spec => F!Spec
  <2>1. Init => F!Init
    BY <1>1
  <2>2. F!Spec <=> F!Init /\ [][F!Next]_<< OpenStreams, FeedingTasks >>
    BY DEF F!Spec, OpenStreams, FeedingTasks
  <2> QED
    BY <1>1, <1>2, <2>2, AlwaysCore, PTL DEF Spec
<1> QED
  BY <1>3 DEF OneFeeder

-----------------------------------------------------------------------------
(* What is there when the list is done, through a step of the handler. *)
LEMMA EndsMoves ==
  ASSUME NEW q \in Seq(Steps), q # << >>, Follow(q), NEW r, NEW st \in Streams, NEW run, NEW control,
         NEW kept, NEW made, NEW broke, Rewrites(q, r, st, run, control, kept, made, broke),
         NEW c, NEW d, NEW E, NEW D, Ends(q, c, E, D),
         (kept /\ Popped(q, r, run)) \/ Skipped(q, r, run) => (Live(q, c, E, D) => d),
         \A n : made /\ Pushed(q[1], n, st, run, control) => (Live(q, c, E, D) => Ends(n, d, E, D)),
         Stayed(q, r) => (c => d),
         broke /\ Failed(q, r) => Ends(r, d, E, D),
         \A s \in Streams : << "close", s >> \notin E /\ << "join", s >> \notin E
  PROVE  Ends(r, d, E, D)
<1>1. CASE kept /\ Popped(q, r, run)
  <2>1. Live(q, c, E, D) => d
    BY <1>1
  <2>2. Ends(Tail(q), d, E, D)
    BY <2>1, EndsPop DEF Live
  <2> QED
    BY <2>2, <1>1 DEF Popped
<1>2. CASE \E n \in Seq(Steps) : made /\ Pushed(q[1], n, st, run, control) /\ r = n \o Tail(q)
  <2>1. PICK n \in Seq(Steps) : made /\ Pushed(q[1], n, st, run, control) /\ r = n \o Tail(q)
    BY <1>2
  <2>2. Live(q, c, E, D) => Ends(n, d, E, D)
    BY <2>1
  <2>3. Ends(n \o Tail(q), d, E, D)
    BY <2>2, EndsReplace DEF Live
  <2> QED
    BY <2>1, <2>3
<1>3. CASE Skipped(q, r, run)
  <2>1. PICK s \in Streams : q[1] = << "halt", s >> /\ r = Tail(Tail(Tail(q)))
    BY <1>3 DEF Skipped
  <2>2. Live(q, c, E, D) => d
    BY <1>3
  <2>3. Ends(Tail(q), d, E, D)
    BY <2>2, EndsPop DEF Live
  <2> DEFINE t == Tail(q)
             u == Tail(t)
  <2>4. t \in Seq(Steps) /\ t # << >> /\ t[1] = << "close", s >>
        /\ u \in Seq(Steps) /\ u # << >> /\ u[1] = << "join", s >>
    BY <2>1, SkippedIs
  <2>5. Ends(t, d, E, D)
    BY <2>3
  <2> HIDE DEF t
  <2>6. (d /\ t[1] \notin D) \/ t[1] \in E => d
    BY <2>4
  <2>7. Ends(u, d, E, D)
    BY <2>4, <2>5, <2>6, EndsPop
  <2> HIDE DEF u
  <2>8. (d /\ u[1] \notin D) \/ u[1] \in E => d
    BY <2>4
  <2>9. Ends(Tail(u), d, E, D)
    BY <2>4, <2>7, <2>8, EndsPop
  <2> QED
    BY <2>9, <2>1 DEF t, u
<1>4. CASE broke /\ Failed(q, r)
  BY <1>4
<1>5. CASE Stayed(q, r)
  BY <1>5, Stronger DEF Stayed
<1> QED
  BY <1>1, <1>2, <1>3, <1>4, <1>5 DEF Rewrites

LEMMA HandlerEnds ==
  ASSUME Shape, Types, Handler, NEW c, NEW d, NEW E, NEW D, Ends(todo, c, E, D),
         (Kept /\ Popped(todo, todo', running)) \/ Skipped(todo, todo', running) => (Live(todo, c, E, D) => d),
         \A n : Made /\ Pushed(todo[1], n, stream, running, conn.control_port) =>
                  (Live(todo, c, E, D) => Ends(n, d, E, D)),
         Stayed(todo, todo') => (c => d),
         Broke /\ Failed(todo, todo') => Ends(todo', d, E, D),
         \A s \in Streams : << "close", s >> \notin E /\ << "join", s >> \notin E
  PROVE  Ends(todo', d, E, D)
<1> DEFINE q == todo
           r == todo'
           control == conn.control_port
<1>1. /\ q \in Seq(Steps) /\ q # << >> /\ Follow(q) /\ stream \in Streams
      /\ Rewrites(q, r, stream, running, control, Kept, Made, Broke)
  BY HandlerHead
<1> QED
  BY <1>1, EndsMoves

(* A family that no step of an inner list is about. *)
LEMMA HandlerEndsPlain ==
  ASSUME Shape, Types, Handler, NEW c, NEW d, NEW E, NEW D, Ends(todo, c, E, D),
         ~(Broke /\ Failed(todo, todo')) /\ Live(todo, c, E, D) => d,
         Stayed(todo, todo') => (c => d),
         \A x \in Internal : x \notin E /\ x \notin D
  PROVE  Ends(todo', d, E, D) \/ (Broke /\ Failed(todo, todo'))
<1>1. \A s \in Streams : << "close", s >> \notin E /\ << "join", s >> \notin E
  BY DEF Internal
<1> SUFFICES ASSUME ~(Broke /\ Failed(todo, todo')) PROVE Ends(todo', d, E, D)
  OBVIOUS
<1>2. Live(todo, c, E, D) => d
  OBVIOUS
<1>3. \A n : Made /\ Pushed(todo[1], n, stream, running, conn.control_port) =>
                (Live(todo, c, E, D) => Ends(n, d, E, D))
  <2> SUFFICES ASSUME NEW n, Pushed(todo[1], n, stream, running, conn.control_port)
               PROVE  Live(todo, c, E, D) => Ends(n, d, E, D)
    OBVIOUS
  <2>1. stream \in Streams
    BY DEF Types, TypeOK
  <2>2. Len(n) \in Nat /\ Avoids(n, D)
    BY <2>1, PushedInternal
  <2> QED
    BY <1>2, <2>2, EndsAvoid
<1> QED
  BY <1>1, <1>2, <1>3, HandlerEnds

-----------------------------------------------------------------------------
(* The invariant of an orderly sender (OrderlyInv), one who sets streams up only
   when they are not.
     Served: it asked for a stream, and has not torn it down.  Refused: the
       answer to come is an error.
     Leaving: the connection is freed for a sender that is gone.
     Unpromised: a step that may fail, or replaces the decoder, comes before
       anything was promised.  Withdrawn: without a stream, nothing is promised
       when the handler is done.  DecodesPromised: a task decodes only what was
       promised.
     Heard: when the handler that sets a stream up, or changes its rate, is done,
       the promise is the stream's (Answering), with its key, its codec, the task
       that runs, and the ports that were answered (BufferedFits, RealtimeFits).
     AirPlay1: RECORD, which takes codec, key and ports from ANNOUNCE and SETUP,
       finds them.  PausedInPeace: nothing of a pause can fail. *)
Served == sender \in {"streaming", "paused"}
Refused == Ends(todo, FALSE, {Error}, {})
Leaving == Due(todo, sender = "new", {}, {}, {Only("free")})

Unpromised == Due(todo, promise = Nothing, {}, {Told}, Fallible \cup {Only("format")})
Withdraws == {Error, Only("free")} \cup (IF sender \in {"torn", "ended"} THEN {Okay} ELSE {})
Withdrawn == ~Served => Ends(todo, promise = Nothing, Withdraws, {Told})
DecodesPromised == \A t \in Tasks : task[t] = "decode" => promise # Nothing

S == StreamOfType(conn.stream_type)
CurrentKey == \A s \in Streams : key[s] = "current"
Keyed == Ends(todo, CurrentKey, {<< "key", "current" >>}, {<< "key", "session" >>, Only("clear")})
Codec == Ends(todo, decoder, {Only("format")}, {Only("clear")})
Runs(s) == Ends(todo, running[s], StartOf(s), Breaks(s))
BufferedFits == Ends(todo, running["buffered"] /\ port["buffered"] = conn.buffered_port,
                     {Only("bufferedport")}, Breaks("buffered"))

HasPorts == conn.data_port # 0 /\ conn.control_port
PortsSet == {<< "ports", "realtime" >>}
PortFits == running["realtime"] => port["realtime"] = conn.data_port
ControlRuns == running["realtime"] => task["ctrl"] # "none"
Controls == Ceases \cup StartOf("realtime") \cup {<< "create", "ctrl" >>}
PortsReady == Due(todo, HasPorts, PortsSet, {}, StartOf("realtime"))
PortIsTold == Ends(todo, PortFits, Ceases, PortsSet)
Controlled == Ends(todo, ControlRuns, Controls, {})
RealtimeFits == PortsReady /\ PortIsTold /\ Controlled

Promised == promise = [stream |-> S, port |-> Asked(S)]
Answering == Ends(todo, Promised, {Told},
                  {Error, Only("free"), << "ports", "realtime" >>, Only("bufferedport")})
Playing == Ends(todo, playing, {Only("play")}, {Only("hold")})
Holding == Ends(todo, ~playing, {Only("hold")}, {Only("play")})

Heard == Served /\ ~Refused =>
  /\ Answering /\ Keyed /\ Codec /\ Runs(S)
  /\ sender = "streaming" => Playing
  /\ sender = "paused" => Holding
  /\ S = "buffered" => BufferedFits
  /\ S = "realtime" => RealtimeFits

(* AirPlay 1 starts its stream with RECORD only, and not after a pause. *)
PausedAtEnd == Ends(todo, conn.paused, {Only("pause")}, {Only("unpause")})
GoingAtEnd == Ends(todo, ~conn.paused, {Only("unpause"), Only("free")}, {Only("pause")})
Going == Due(todo, ~conn.paused, {}, {Only("pause")}, Fallible)
HasPortsAtEnd == Ends(todo, HasPorts, PortsSet, {})
AirPlay1 == plan.protocol = 1 =>
  /\ conn.stream_type \in {0, 96} /\ sender # "torn"
  /\ sender \in {"setup", "streaming", "paused"} => conn.stream_type = 96
  /\ sender \in {"announced", "setup"} /\ ~Refused => Keyed /\ Codec
  /\ sender = "setup" /\ ~Refused => HasPortsAtEnd
  /\ sender = "paused" => PausedAtEnd
  /\ sender # "paused" => GoingAtEnd
  /\ Going

PausedInPeace == sender = "paused" => Due(todo, FALSE, {}, {}, Fallible)

OrderlyInv == Leaving /\ Unpromised /\ Withdrawn /\ DecodesPromised /\ Heard /\ AirPlay1 /\ PausedInPeace

-----------------------------------------------------------------------------
(* What a failure leaves behind, and what it does not. *)
LEMMA FailedEnds ==
  ASSUME Shape, Types, Handler, Broke, Failed(todo, todo'), NEW d, NEW E, NEW D
  PROVE  /\ Error \in E => Ends(todo', d, E, D)
         /\ d /\ Error \notin D /\ (\A s \in Streams : << "join", s >> \notin D) => Ends(todo', d, E, D)
<1>1. CASE todo' = << Error >>
  BY <1>1, Single
<1>2. CASE \E s \in Streams : todo' = << << "join", s >>, Error >>
  <2>1. PICK s \in Streams : todo' = << << "join", s >>, Error >>
    BY <1>2
  <2> DEFINE j == << "join", s >>
  <2>2. todo' = << j, Error >> /\ ((\A x \in Streams : << "join", x >> \notin D) => j \notin D)
    BY <2>1
  <2> HIDE DEF j
  <2> QED
    BY <2>2, PairIs
<1> QED
  BY <1>1, <1>2, FailedIs

LEMMA TailOfOne ==
  ASSUME NEW Z, NEW q \in Seq(Z), Len(q) = 1
  PROVE  Tail(q) = << >>
<1>1. Tail(q) \in Seq(Z) /\ Len(Tail(q)) = 0
  <2>1. q # << >>
    BY EmptySeq
  <2> QED
    BY <2>1
<1> QED
  BY <1>1, EmptySeq

(* The error is the last step, and the end of the sender's session. *)
LEMMA ErrorStep ==
  ASSUME Shape, Types, Handler, todo[1] = Error
  PROVE  /\ todo' = << >> /\ promise' = Nothing /\ conn' = conn
         /\ sender' = IF plan.protocol = 1 THEN "ended" ELSE IF sender = "setup" THEN "new" ELSE "torn"
<1>1. todo[1][1] = "answer"
  BY DEF Error
<1>2. Answer /\ Doing("answer")
  BY <1>1, ActionOf DEF Answer
<1>3. Arg = "error"
  <2>1. todo[1] = << "answer", Arg >>
    BY <1>2, HeadIs
  <2> QED
    BY <2>1 DEF Error
<1>4. todo \in Seq(Steps) /\ todo # << >> /\ Follow(todo) /\ 1 \in 1 .. Len(todo)
  BY HandlerHead
<1>5. Len(todo) = 1
  BY <1>4 DEF Follow
<1>6. Tail(todo) = << >>
  BY <1>4, <1>5, TailOfOne
<1> QED
  BY <1>2, <1>3, <1>6 DEF Answer, Done

LEMMA FreeStep ==
  ASSUME Shape, Types, Handler, HeadOp = "free"
  PROVE  todo[1] = Only("free") /\ todo' = << >> /\ promise' = Nothing /\ conn' = NewConn(conn.id + 1)
<1>1. todo[1] = Only("free")
  BY HeadPair DEF Only, Alone
<1>2. Free
  BY ActionOf DEF HeadOp
<1>3. todo \in Seq(Steps) /\ todo # << >> /\ Follow(todo) /\ 1 \in 1 .. Len(todo)
  BY HandlerHead
<1>4. Len(todo) = 1
  BY <1>1, <1>3 DEF Follow
<1>5. Tail(todo) = << >>
  BY <1>3, <1>4, TailOfOne
<1> QED
  BY <1>1, <1>2, <1>5 DEF Free, Done

LEMMA NotFailedIs ==
  ASSUME Shape, Types, Handler, todo[1] # Error, ~Refused'
  PROVE  ~Refused /\ sender' = sender /\ plan' = plan /\ ~(Broke /\ Failed(todo, todo'))
<1>1. sender' = sender /\ plan' = plan
  BY SenderIs
<1>2. ~Ends(todo', FALSE, {Error}, {})
  BY DEF Refused
<1>3. ~(Broke /\ Failed(todo, todo'))
  BY <1>2, FailedEnds
<1>4. ~Refused
  <2> DEFINE c == FALSE
             E == {Error}
             D == {}
  <2> SUFFICES ASSUME Ends(todo, c, E, D) PROVE FALSE
    BY DEF Refused
  <2>1. ~(Live(todo, c, E, D))
    BY DEF Live
  <2>2. \A x \in Internal : x \notin E /\ x \notin D
    BY PlainSteps
  <2>3. ~Ends(todo', c, E, D)
    BY <1>2
  <2> HIDE DEF c, E, D
  <2> QED
    BY <1>3, <2>1, <2>2, <2>3, HandlerEndsPlain
<1> QED
  BY <1>1, <1>3, <1>4

(* What is due before every step that may fail. *)
LEMMA FallibleIs ==
  /\ \A s \in Streams : << "begin", s >> \in Fallible /\ << "bind", s >> \in Fallible
  /\ \A t \in Tasks : << "create", t >> \in Fallible
  /\ Error \in Fallible /\ Only("ntp") \in Fallible /\ Only("event") \in Fallible
  /\ \A x \in Fallible : x[1] \in {"begin", "bind", "create", "ntp", "event", "answer"}
  /\ \A x \in Fallible : x[1] = "answer" => x = Error
<1>1. ASSUME NEW x \in Fallible
      PROVE  x[1] \in {"begin", "bind", "create", "ntp", "event", "answer"} /\ (x[1] = "answer" => x = Error)
  <2>1. CASE x \in {<< "bind", s >> : s \in Streams} \cup {<< "begin", s >> : s \in Streams}
    BY <2>1
  <2>2. CASE x \in {<< "create", t >> : t \in Tasks}
    BY <2>2
  <2>3. CASE x \in {Only("ntp"), Only("event"), Error}
    <3>1. Only("ntp")[1] = "ntp" /\ Only("event")[1] = "event" /\ Error[1] = "answer"
      BY DEF Only, Error
    <3> QED
      BY <2>3, <3>1
  <2> QED
    BY <2>1, <2>2, <2>3 DEF Fallible
<1> QED
  BY <1>1 DEF Fallible

LEMMA HandlerDueFallible ==
  ASSUME Shape, Types, Handler, NEW c, NEW d, NEW D, NEW G, Due(todo, c, {}, D, G),
         Fallible \subseteq G,
         c /\ todo[1] \notin D => d,
         \A x \in Internal \cup Fallible : x \notin D,
         \A s \in Streams : /\ << "halt", s >> \notin G /\ << "close", s >> \notin G
                            /\ << "join", s >> \notin G /\ << "select", s >> \notin G
  PROVE  Due(todo', d, {}, D, G)
<1>1. todo \in Seq(Steps) /\ todo # << >> /\ stream \in Streams
  BY HandlerHead
<1>2. todo[1] \in Fallible => c /\ d
  BY <1>1, DueHead
<1>3. HeadOp \in {"begin", "bind"} => todo[1] \in Fallible
  <2>1. ASSUME NEW op \in {"begin", "bind"}, HeadOp = op PROVE todo[1] \in Fallible
    <3>1. HeadArg \in Streams /\ todo[1] = << op, HeadArg >>
      BY <2>1, HeadPair DEF OnStream
    <3> QED
      BY <3>1, FallibleIs
  <2> QED
    BY <2>1
<1>4. Live(todo, c, {}, D) => d
  BY DEF Live
<1>5. ASSUME NEW n, Pushed(todo[1], n, stream, running, conn.control_port)
      PROVE  (Live(todo, c, {}, D) => Ends(n, d, {}, D)) /\ Due(n, d, {}, D, G)
  <2>1. \A x \in Internal : x \notin D
    OBVIOUS
  <2>2. Len(n) \in Nat /\ Avoids(n, D)
    BY <1>1, <1>5, <2>1, PushedInternal
  <2>3. CASE HeadOp \in {"begin", "bind"}
    BY <1>2, <1>3, <2>2, <2>3, DueSafe, EndsAvoid
  <2>4. CASE HeadOp \in {"type", "restart"}
    <3> DEFINE H == {x \in G : x[1] # "create"}
    <3>1. /\ \A s \in Streams : /\ << "halt", s >> \notin H /\ << "close", s >> \notin H
                                /\ << "join", s >> \notin H /\ << "select", s >> \notin H
          /\ \A t \in Tasks : << "create", t >> \notin H
      OBVIOUS
    <3>2. HeadArg \in Streams
      BY <1>5, PushCases
    <3>3. Avoids(n, H)
      <4> HIDE DEF H
      <4> QED
        BY <1>5, <2>4, <3>1, <3>2, PushedAvoids
    <3>4. Avoids(n, {<< "create", t >> : t \in Tasks})
      <4> DEFINE K == {<< "create", t >> : t \in Tasks}
      <4>1. /\ \A s \in Streams : /\ << "halt", s >> \notin K /\ << "close", s >> \notin K
                                  /\ << "join", s >> \notin K /\ << "select", s >> \notin K
        OBVIOUS
      <4> HIDE DEF K
      <4>2. n = Stop(HeadArg) \/ n = << << "select", HeadArg >> >>
            \/ n = Stop(stream) \o << << "select", HeadArg >> >>
        BY <1>5, <2>4, PushCases
      <4> DEFINE y == << "select", HeadArg >>
      <4>3. y \in Steps /\ y \notin K
        BY <3>2, <4>1, AreSteps DEF OnStream
      <4> HIDE DEF y
      <4>4. \A s \in Streams : Stop(s) \in Seq(Steps) /\ Avoids(Stop(s), K)
        <5> TAKE s \in Streams
        <5> QED
          BY <4>1, StopIs, AvoidShort
      <4>7. << y >> \in Seq(Steps)
        BY <4>3, OneStep
      <4>8. Avoids(<< y >>, K)
        BY <4>3, AvoidShort
      <4>5. << y >> \in Seq(Steps) /\ Avoids(<< y >>, K)
        BY <4>7, <4>8
      <4>6. Avoids(Stop(stream) \o << y >>, K)
        BY <1>1, <4>4, <4>5, AvoidsJoined
      <4> QED
        BY <3>2, <4>2, <4>4, <4>5, <4>6 DEF y, K
    <3>5. Avoids(n, G)
      <4>1. n \in Seq(Steps)
        BY <1>5, PushCases
      <4>2. ASSUME NEW i \in 1 .. Len(n), n[i] \in G PROVE FALSE
        <5>1. n[i] \in Steps /\ n[i] \notin H /\ n[i] \notin {<< "create", t >> : t \in Tasks}
          BY <3>3, <3>4, <4>1 DEF Avoids
        <5>2. n[i][1] = "create"
          BY <4>2, <5>1
        <5>3. n[i] = << n[i][1], n[i][2] >> /\ n[i][2] \in Tasks
          BY <5>1, <5>2, StepIs
        <5> QED
          BY <5>1, <5>2, <5>3
      <4> QED
        BY <4>2 DEF Avoids
    <3> QED
      BY <1>4, <2>2, <3>5, DueAvoid, EndsAvoid
  <2> QED
    BY <1>5, PushCases, <2>3, <2>4
<1>6. Stayed(todo, todo') => (c => d)
  <2>1. Stayed(todo, todo') => todo[1] \in Fallible
    BY FallibleIs DEF Stayed
  <2> QED
    BY <1>2, <2>1
<1>7. Broke /\ Failed(todo, todo') => Due(todo', d, {}, D, G)
  <2> SUFFICES ASSUME Broke, Failed(todo, todo') PROVE Due(todo', d, {}, D, G)
    OBVIOUS
  <2>1. d
    BY <1>2 DEF Failed
  <2>2. \A s \in Streams : << "join", s >> \in Internal
    BY DEF Internal
  <2>3. Avoids(todo', D)
    <3>1. CASE todo' = << Error >>
      BY <3>1, FallibleIs, AvoidShort
    <3>2. CASE \E s \in Streams : todo' = << << "join", s >>, Error >>
      <4>1. PICK s \in Streams : todo' = << << "join", s >>, Error >>
        BY <3>2
      <4> DEFINE j == << "join", s >>
      <4>2. j \notin D /\ todo' = << j, Error >> /\ Error \notin D
        BY <2>2, <4>1, FallibleIs
      <4> HIDE DEF j
      <4> QED
        BY <4>2, AvoidShort
    <3> QED
      BY <3>1, <3>2, FailedIs
  <2> QED
    BY <2>1, <2>3, DueSafe
<1>8. \A s \in Streams : << "close", s >> \notin {} /\ << "join", s >> \notin {}
  OBVIOUS
<1> QED
  BY <1>4, <1>5, <1>6, <1>7, <1>8, HandlerDue

LEMMA LeavingKept ==
  ASSUME Shape, Types, Handler, Leaving
  PROVE  Leaving'
<1> DEFINE c == sender = "new"
           d == sender' = "new"
           G == {Only("free")}
<1>0. SUFFICES Due(todo', d, {}, {}, G)
  BY DEF Leaving
<1>1. CASE todo' = << >>
  BY <1>1, Empty
<1>2. CASE todo' # << >>
  <2>1. c => d
    BY <1>2, SenderIs
  <2>2. Live(todo, c, {}, {}) => d
    BY <2>1 DEF Live
  <2>3. \A x \in Internal : x \notin {} /\ x \notin G
    BY PlainSteps DEF Alone
  <2>4. Error \notin G
    BY DEF Error, Only
  <2>5. Due(todo, c, {}, {}, G)
    BY DEF Leaving
  <2> HIDE DEF c, d, G
  <2> QED
    BY <2>1, <2>2, <2>3, <2>4, <2>5, HandlerDuePlain
<1> QED
  BY <1>1, <1>2

(* What the handler answers. *)
LEMMA PromiseIs ==
  ASSUME Shape, Types, Handler
  PROVE  /\ HeadOp \notin {"answer", "free"} => promise' = promise
         /\ HeadOp = "answer" => todo[1] \in {Told, Okay, Error}
         /\ todo[1] = Told => HeadOp = "answer" /\ conn' = conn /\ promise' = [stream |-> S, port |-> Asked(S)]
         /\ todo[1] = Okay =>
              /\ HeadOp = "answer" /\ conn' = conn
              /\ promise' = IF sender \in {"torn", "ended"} THEN Nothing ELSE promise
<1>1. HeadOp \notin {"answer", "free"} => promise' = promise
  BY Frame DEF HeadOp
<1>2. CASE HeadOp = "answer"
  <2>1. Answer /\ Doing("answer") /\ conn' = conn
    BY <1>2, ActionOf, Frame DEF HeadOp, Answer
  <2>2. todo[1] = << "answer", Arg >> /\ Arg \in {"ok", "stream", "error"}
    BY <2>1, HeadIs
  <2>3. todo[1] = Told => Arg = "stream"
    BY <2>2 DEF Told
  <2>4. todo[1] = Okay => Arg = "ok"
    BY <2>2 DEF Okay
  <2>5. todo[1] \in {Told, Okay, Error}
    BY <2>2 DEF Told, Okay, Error
  <2> QED
    BY <1>2, <2>1, <2>3, <2>4, <2>5 DEF Answer, S
<1>3. CASE HeadOp # "answer"
  <2>1. todo[1] # Told /\ todo[1] # Okay
    BY <1>3 DEF HeadOp, Told, Okay
  <2> QED
    BY <1>1, <1>3, <2>1
<1> QED
  BY <1>2, <1>3

LEMMA UnpromisedKept ==
  ASSUME Shape, Types, Handler, Unpromised
  PROVE  Unpromised'
<1> DEFINE c == promise = Nothing
           d == promise' = Nothing
           D == {Told}
           G == Fallible \cup {Only("format")}
<1>0. SUFFICES Due(todo', d, {}, D, G)
  BY DEF Unpromised, Fallible
<1>1. Due(todo, c, {}, D, G)
  BY DEF Unpromised
<1>2. c /\ todo[1] \notin D => d
  BY PromiseIs, FreeStep, ErrorStep
<1>3. \A x \in Internal \cup Fallible : x \notin D
  <2>1. Told[1] = "answer" /\ Told # Error
    BY DEF Told, Error
  <2> QED
    BY <2>1, PlainSteps, FallibleIs
<1>4. \A s \in Streams : /\ << "halt", s >> \notin G /\ << "close", s >> \notin G
                         /\ << "join", s >> \notin G /\ << "select", s >> \notin G
  <2>1. ASSUME NEW s \in Streams, NEW op \in {"halt", "close", "join", "select"} PROVE << op, s >> \notin G
    <3>1. << op, s >>[1] = op /\ Only("format")[1] = "format"
      BY DEF Only
    <3>2. << op, s >> \notin Fallible
      BY <3>1, FallibleIs
    <3> QED
      BY <3>1, <3>2
  <2> QED
    BY <2>1
<1>5. Fallible \subseteq G
  OBVIOUS
<1> HIDE DEF c, d, D, G
<1> QED
  BY <1>1, <1>2, <1>3, <1>4, <1>5, HandlerDueFallible

LEMMA WithdrawnKept ==
  ASSUME Shape, Types, Handler, Withdrawn
  PROVE  Withdrawn'
<1>1. CASE todo[1] = Error
  <2>1. todo' = << >> /\ promise' = Nothing
    BY <1>1, ErrorStep
  <2> QED
    BY <2>1, Empty DEF Withdrawn
<1>2. CASE todo[1] # Error /\ ~Served
  <2> DEFINE c == promise = Nothing
             d == promise' = Nothing
             E == Withdraws
             D == {Told}
  <2>1. Ends(todo, c, E, D)
    BY <1>2 DEF Withdrawn
  <2>2. Live(todo, c, E, D) => d
    <3>1. CASE HeadOp \notin {"answer", "free"}
      <4>0. Error[1] = "answer" /\ Okay[1] = "answer" /\ Only("free")[1] = "free"
        BY DEF Error, Okay, Only
      <4>1. todo[1] # Error /\ todo[1] # Okay /\ todo[1] # Only("free")
        BY <3>1, <4>0 DEF HeadOp
      <4> QED
        BY <3>1, <4>1, PromiseIs DEF Live, Withdraws
    <3>2. CASE HeadOp = "free"
      BY <3>2, FreeStep
    <3>3. CASE HeadOp = "answer"
      <4>1. Okay # Only("free") /\ Okay # Error /\ Told # Okay /\ Told # Error /\ Told # Only("free")
        BY DEF Okay, Only, Error, Told
      <4>2. todo[1] \in {Told, Okay}
        BY <1>2, <3>3, PromiseIs
      <4>3. CASE todo[1] = Told
        BY <4>1, <4>3 DEF Live, Withdraws
      <4>4. CASE todo[1] = Okay
        BY <4>1, <4>4, PromiseIs DEF Live, Withdraws
      <4> QED
        BY <4>2, <4>3, <4>4
    <3> QED
      BY <3>1, <3>2, <3>3
  <2>3. Stayed(todo, todo') => (c => d)
    BY StayedIs
  <2>4. \A x \in Internal : x \notin E /\ x \notin D
    BY PlainSteps DEF Withdraws, Alone
  <2>5. Error \in E
    BY DEF Withdraws
  <2> HIDE DEF c, d, E, D
  <2>7. Ends(todo', d, E, D)
    BY <2>1, <2>2, <2>3, <2>4, <2>5, HandlerEndsPlain, FailedEnds
  <2>8. sender' = sender
    BY <1>2, SenderIs
  <2> QED
    BY <2>7, <2>8 DEF Withdrawn, Withdraws, c, d, E, D
<1>3. CASE todo[1] # Error /\ Served
  <2>1. sender' = sender
    BY <1>3, SenderIs
  <2> QED
    BY <1>3, <2>1 DEF Withdrawn, Served
<1> QED
  BY <1>1, <1>2, <1>3

(* What a step does to the connection. *)
LEMMA ConnIs ==
  ASSUME Shape, Types, Handler
  PROVE  /\ HeadOp \notin {"pause", "unpause", "free"} => conn'.paused = conn.paused
         /\ HeadOp = "pause" => conn'.paused
         /\ HeadOp \in {"unpause", "free"} => ~conn'.paused
         /\ HeadOp # "free" => conn'.stream_type = conn.stream_type
         /\ HeadOp \notin {"ports", "free"} => conn'.data_port = conn.data_port /\ conn'.control_port = conn.control_port
         /\ HeadOp # "free" /\ HasPorts => HasPorts'
         /\ HeadOp # "free" /\ conn.data_port # 0 => conn'.data_port = conn.data_port
         /\ todo[1] = << "ports", "realtime" >> => HasPorts'
         /\ todo[1] = << "ports", "buffered" >> => conn'.data_port = conn.data_port
         /\ HeadOp \notin {"bufferedport", "free"} => conn'.buffered_port = conn.buffered_port
         /\ HeadOp = "bufferedport" => conn'.buffered_port = port["buffered"]
<1>0. conn \in Conn /\ DOMAIN conn = {"id", "stream_type", "paused", "control_port", "data_port", "buffered_port", "event_port"}
  BY DEF Types, Conn
<1>1. CASE HeadOp \in {"pause", "unpause"}
  <2>1. SetPaused /\ (Doing("pause") \/ Doing("unpause"))
    BY <1>1, ActionOf DEF HeadOp, SetPaused
  <2>2. Op = HeadOp /\ conn' = [conn EXCEPT !.paused = (Op = "pause")]
    BY <2>1, HeadIs DEF SetPaused, HeadOp
  <2>3. /\ conn'.paused = (HeadOp = "pause") /\ conn'.stream_type = conn.stream_type
        /\ conn'.data_port = conn.data_port /\ conn'.control_port = conn.control_port
        /\ conn'.buffered_port = conn.buffered_port
    BY <1>0, <2>2
  <2>4. \A s \in Streams : todo[1] # << "ports", s >>
    BY <1>1 DEF HeadOp
  <2>5. "realtime" \in Streams /\ "buffered" \in Streams
    BY DEF Streams
  <2> QED
    BY <1>1, <2>3, <2>4, <2>5 DEF HasPorts
<1>2. CASE HeadOp = "ports"
  <2>1. EnsurePorts /\ Doing("ports")
    BY <1>2, ActionOf DEF HeadOp, EnsurePorts
  <2>2. Arg \in Streams /\ todo[1] = << "ports", Arg >>
    BY <2>1, HeadIs DEF OnStream
  <2>3. PICK p \in Ports : conn' = [conn EXCEPT !.control_port = TRUE,
                            !.data_port = IF Arg = "realtime" /\ @ = 0 THEN p ELSE @]
    BY <2>1 DEF EnsurePorts
  <2>4. p # 0
    BY PortAssumption
  <2>5. /\ conn'.paused = conn.paused /\ conn'.stream_type = conn.stream_type /\ conn'.control_port
        /\ conn'.buffered_port = conn.buffered_port
        /\ conn'.data_port = IF Arg = "realtime" /\ conn.data_port = 0 THEN p ELSE conn.data_port
    BY <1>0, <2>3
  <2> QED
    BY <1>2, <2>2, <2>4, <2>5 DEF HasPorts, HeadOp
<1>3. CASE HeadOp = "bufferedport"
  <2>1. TakeBufferedPort
    BY <1>3, ActionOf DEF HeadOp
  <2>2. conn' = [conn EXCEPT !.buffered_port = port["buffered"]]
    BY <2>1 DEF TakeBufferedPort
  <2>3. /\ conn'.paused = conn.paused /\ conn'.stream_type = conn.stream_type
        /\ conn'.data_port = conn.data_port /\ conn'.control_port = conn.control_port
        /\ conn'.buffered_port = port["buffered"]
    BY <1>0, <2>2
  <2> QED
    BY <1>3, <2>3 DEF HeadOp, HasPorts
<1>4. CASE HeadOp = "event"
  <2>1. EventPort
    BY <1>4, ActionOf DEF HeadOp
  <2>2. conn' = conn \/ conn' = [conn EXCEPT !.event_port = TRUE]
    BY <2>1 DEF EventPort
  <2>3. /\ conn'.paused = conn.paused /\ conn'.stream_type = conn.stream_type
        /\ conn'.data_port = conn.data_port /\ conn'.control_port = conn.control_port
        /\ conn'.buffered_port = conn.buffered_port
    BY <1>0, <2>2
  <2> QED
    BY <1>4, <2>3 DEF HeadOp, HasPorts
<1>5. CASE HeadOp = "free"
  <2>1. conn' = NewConn(conn.id + 1)
    BY <1>5, FreeStep
  <2> QED
    BY <1>5, <2>1 DEF NewConn, HeadOp
<1>6. CASE HeadOp \notin {"pause", "unpause", "ports", "bufferedport", "event", "free"}
  <2>1. conn' = conn
    BY <1>6, Frame DEF HeadOp
  <2> QED
    BY <1>6, <2>1 DEF HasPorts, HeadOp
<1> QED
  BY <1>1, <1>2, <1>3, <1>4, <1>5, <1>6

LEMMA DecodesPromisedKept ==
  ASSUME Shape, Types, Handler, Stopped, Selected, Bound, Fresh, StreamsInv, Unpromised, plan.orderly,
         DecodesPromised
  PROVE  DecodesPromised'
<1> SUFFICES ASSUME NEW t \in Tasks, task'[t] = "decode" PROVE promise' # Nothing
  BY DEF DecodesPromised
<1>0. todo \in Seq(Steps) /\ todo # << >>
  BY HandlerHead
<1>1. task[t] = "decode"
  <2>1. CASE HeadOp = "create"
    <3>1. Create
      BY <2>1, ActionOf DEF HeadOp
    <3>2. task' = task \/ task' = [task EXCEPT ![Arg] = "check"]
      BY <3>1 DEF Create
    <3> QED
      BY <3>2 DEF Types, TypeOK
  <2>2. CASE HeadOp # "create"
    BY <2>2, Frame DEF HeadOp
  <2> QED
    BY <2>1, <2>2
<1>2. promise # Nothing
  BY <1>1 DEF DecodesPromised
<1>3. HeadOp \notin {"close", "join"} => running[stream]
  <2>1. running[stream] \/ At1(<< "close", stream >>) \/ At1(<< "join", stream >>)
    BY <1>1 DEF StreamsInv
  <2> QED
    BY <2>1 DEF At1, HeadOp
<1>4. stream \in Streams
  BY HandlerHead
<1>5. HeadOp # "free"
  BY <1>3, <1>4, AtHead
<1>6. CASE HeadOp # "answer"
  BY <1>2, <1>5, <1>6, PromiseIs
<1>7. CASE todo[1] = Told
  <2>1. S \in Streams /\ "none" \notin Streams
    BY DEF S, StreamOfType, Streams
  <2>2. promise'.stream # Nothing.stream
    BY <1>7, <2>1, PromiseIs DEF Nothing
  <2> QED
    BY <2>2
<1>8. CASE todo[1] = Okay
  <2>1. HeadOp = "answer"
    BY <1>8, PromiseIs
  <2>2. sender \notin {"torn", "ended"}
    <3> SUFFICES ASSUME sender \in {"torn", "ended"} PROVE FALSE
      OBVIOUS
    <3>1. Okay \in Quiet(stream)
      BY DEF Quiet
    <3>2. Due(todo, ~running[stream], {<< "halt", stream >>}, StartOf(stream), Quiet(stream))
      BY <1>4 DEF Stopped
    <3>3. ~running[stream]
      BY <1>0, <1>8, <3>1, <3>2, DueHead
    <3> QED
      BY <1>3, <2>1, <3>3
  <2> QED
    BY <1>2, <1>8, <2>2, PromiseIs
<1>9. todo[1] # Error
  <2>1. Error \in Fallible \cup {Only("format")}
    BY FallibleIs
  <2> QED
    BY <1>0, <1>2, <2>1, DueHead DEF Unpromised
<1> QED
  BY <1>6, <1>7, <1>8, <1>9, PromiseIs

LEMMA GoingKept ==
  ASSUME Shape, Types, Handler, Going
  PROVE  Going'
<1> DEFINE c == ~conn.paused
           d == ~conn'.paused
           D == {Only("pause")}
           G == Fallible
<1>0. SUFFICES Due(todo', d, {}, D, G)
  BY DEF Going, Fallible
<1>1. Due(todo, c, {}, D, G)
  BY DEF Going
<1>2. c /\ todo[1] \notin D => d
  <2>1. HeadOp = "pause" => todo[1] = Only("pause")
    BY HeadPair DEF Only, Alone
  <2> QED
    BY <2>1, ConnIs
<1>3. \A x \in Internal \cup Fallible : x \notin D
  <2>1. Only("pause")[1] = "pause"
    BY DEF Only
  <2> QED
    BY <2>1, PlainSteps, FallibleIs DEF Alone
<1>4. \A s \in Streams : /\ << "halt", s >> \notin G /\ << "close", s >> \notin G
                         /\ << "join", s >> \notin G /\ << "select", s >> \notin G
  BY FallibleIs
<1>5. Fallible \subseteq G
  OBVIOUS
<1> HIDE DEF c, d, D, G
<1> QED
  BY <1>1, <1>2, <1>3, <1>4, <1>5, HandlerDueFallible

LEMMA PausedInPeaceKept ==
  ASSUME Shape, Types, Handler, PausedInPeace
  PROVE  PausedInPeace'
<1> SUFFICES ASSUME sender' = "paused" PROVE Due(todo', FALSE, {}, {}, Fallible)
  BY DEF PausedInPeace, Fallible
<1>1. CASE todo' = << >>
  BY <1>1, Empty
<1>2. CASE todo' # << >>
  <2> DEFINE c == FALSE
             D == {}
             G == Fallible
  <2>1. sender = "paused"
    BY <1>2, SenderIs
  <2>2. Due(todo, c, {}, D, G)
    BY <2>1 DEF PausedInPeace
  <2>3. \A s \in Streams : /\ << "halt", s >> \notin G /\ << "close", s >> \notin G
                           /\ << "join", s >> \notin G /\ << "select", s >> \notin G
    BY FallibleIs
  <2>4. (c /\ todo[1] \notin D => c) /\ (\A x \in Internal \cup Fallible : x \notin D) /\ Fallible \subseteq G
    OBVIOUS
  <2> HIDE DEF c, D, G
  <2>5. Due(todo', c, {}, D, G)
    BY <2>2, <2>3, <2>4, HandlerDueFallible
  <2> QED
    BY <2>5 DEF c, D, G
<1> QED
  BY <1>1, <1>2

(* The answer, the key, the codec and the playback that a sender relies on. *)
Spared == ~(Broke /\ Failed(todo, todo'))

LEMMA OnlyHead ==
  ASSUME Shape, Types, Handler
  PROVE  /\ \A op \in Alone : todo[1] = Only(op) <=> HeadOp = op
         /\ \A op, x : HeadOp # op => todo[1] # << op, x >>
<1>1. \A op, x : (todo[1] = << op, x >>) <=> (HeadOp = op /\ HeadArg = x)
  BY HeadPair
<1>2. HeadOp \in Alone => HeadArg = ""
  BY HeadPair
<1> QED
  BY <1>1, <1>2 DEF Only

LEMMA AnsweringKept ==
  ASSUME Shape, Types, Handler, Spared, Served, todo[1] # Error, Answering
  PROVE  Answering'
<1> DEFINE c == Promised
           d == Promised'
           E == {Told}
           D == {Error, Only("free"), << "ports", "realtime" >>, Only("bufferedport")}
<1>0. SUFFICES Ends(todo', d, E, D)
  BY DEF Answering
<1>1. Ends(todo, c, E, D)
  BY DEF Answering
<1>2. S' = S /\ promise' = promise /\ Asked(S)' = Asked(S) /\ c => d
  BY DEF Promised
<1>3. CASE todo[1] = Told
  <2>1. d
    BY <1>3, PromiseIs DEF Promised, S, Asked
  <2>2. \A x \in Internal : x \notin E /\ x \notin D
    BY PlainSteps DEF Alone, Streams
  <2> HIDE DEF c, d, E, D
  <2> QED
    BY <1>1, <2>1, <2>2, HandlerEndsPlain DEF Spared
<1>4. CASE todo[1] # Told
  <2>1. Live(todo, c, E, D) => d
    <3> SUFFICES ASSUME c, todo[1] \notin D PROVE d
      BY <1>4 DEF Live
    <3>1. HeadOp # "free" /\ HeadOp # "bufferedport" /\ todo[1] # << "ports", "realtime" >>
      BY HeadPair DEF Only, Alone
    <3>2. promise' = promise
      <4>1. todo[1] # Okay => HeadOp # "answer"
        BY <1>4, PromiseIs
      <4>2. sender \notin {"torn", "ended"}
        BY DEF Served
      <4> QED
        BY <3>1, <4>1, <4>2, PromiseIs
    <3>3. conn'.stream_type = conn.stream_type /\ conn'.data_port = conn.data_port
          /\ conn'.buffered_port = conn.buffered_port
      <4>1. HeadOp = "ports" => todo[1] = << "ports", "buffered" >>
        BY <3>1, HeadPair DEF OnStream, Streams
      <4> QED
        BY <3>1, <4>1, ConnIs
    <3> QED
      BY <1>2, <3>2, <3>3 DEF S, Asked
  <2>2. \A x \in Internal : x \notin E /\ x \notin D
    BY PlainSteps DEF Alone, Streams
  <2>3. Stayed(todo, todo') => (c => d)
    <3>1. Stayed(todo, todo') => todo[1] = Only("event")
      BY DEF Stayed
    <3>2. Only("event") \notin D
      BY DEF Only, Error
    <3> QED
      BY <2>1, <3>1, <3>2 DEF Live
  <2> HIDE DEF c, d, E, D
  <2> QED
    BY <1>1, <2>1, <2>2, <2>3, HandlerEndsPlain DEF Spared
<1> QED
  BY <1>3, <1>4

LEMMA KeyedKept ==
  ASSUME Shape, Types, Handler, Spared, Keyed
  PROVE  Keyed'
<1> DEFINE c == CurrentKey
           d == CurrentKey'
           E == {<< "key", "current" >>}
           D == {<< "key", "session" >>, Only("clear")}
<1>0. SUFFICES Ends(todo', d, E, D)
  BY DEF Keyed
<1>1. Ends(todo, c, E, D)
  BY DEF Keyed
<1>2. Live(todo, c, E, D) => d
  <2>1. CASE HeadOp = "key"
    <3>1. SetKey /\ Doing("key")
      BY <2>1, ActionOf DEF HeadOp, SetKey
    <3>2. todo[1] = << "key", Arg >> /\ Arg \in {"current", "session"} /\ key' = [s \in Streams |-> Arg]
      BY <3>1, HeadIs DEF SetKey
    <3>3. Arg = "current" => d
      BY <3>2 DEF CurrentKey
    <3>4. Arg = "session" => todo[1] \in D /\ todo[1] \notin E
      BY <3>2
    <3> QED
      BY <3>2, <3>3, <3>4 DEF Live
  <2>2. CASE HeadOp = "clear"
    <3>1. todo[1] = Only("clear") /\ todo[1] \notin E
      BY <2>2, OnlyHead DEF Alone
    <3> QED
      BY <3>1 DEF Live
  <2>3. CASE HeadOp = "type"
    <3>1. SwitchType /\ Doing("type") /\ todo[1] # << "key", "current" >>
      BY <2>3, ActionOf DEF HeadOp, SwitchType
    <3>2. Arg \in Streams /\ key' = [key EXCEPT ![Arg] = key[stream]]
      BY <3>1, HeadIs DEF SwitchType, OnStream
    <3>3. c => d
      BY <3>2 DEF CurrentKey, Types, TypeOK
    <3> QED
      BY <3>1, <3>3 DEF Live
  <2>4. CASE HeadOp \notin {"key", "clear", "type"}
    <3>1. key' = key /\ todo[1] # << "key", "current" >>
      BY <2>4, Frame DEF HeadOp
    <3> QED
      BY <3>1 DEF Live, CurrentKey
  <2> QED
    BY <2>1, <2>2, <2>3, <2>4
<1>3. \A x \in Internal : x \notin E /\ x \notin D
  BY PlainSteps DEF Alone
<1>4. Stayed(todo, todo') => (c => d)
  BY StayedIs DEF CurrentKey
<1> HIDE DEF c, d, E, D
<1> QED
  BY <1>1, <1>2, <1>3, <1>4, HandlerEndsPlain DEF Spared

LEMMA CodecKept ==
  ASSUME Shape, Types, Handler, Spared, Codec
  PROVE  Codec'
<1> DEFINE c == decoder
           d == decoder'
           E == {Only("format")}
           D == {Only("clear")}
<1>0. SUFFICES Ends(todo', d, E, D)
  BY DEF Codec
<1>1. Ends(todo, c, E, D)
  BY DEF Codec
<1>2. Live(todo, c, E, D) => d
  <2>1. CASE HeadOp = "format"
    <3>1. Format
      BY <2>1, ActionOf DEF HeadOp
    <3> QED
      BY <3>1 DEF Format
  <2>2. CASE HeadOp = "clear"
    <3>1. todo[1] = Only("clear") /\ todo[1] \notin E
      BY <2>2, OnlyHead DEF Alone
    <3> QED
      BY <3>1 DEF Live
  <2>3. CASE HeadOp \notin {"format", "clear"}
    <3>1. decoder' = decoder
      BY <2>3, Frame DEF HeadOp
    <3>2. todo[1] # Only("format")
      BY <2>3, OnlyHead DEF Alone
    <3> QED
      BY <3>1, <3>2 DEF Live
  <2> QED
    BY <2>1, <2>2, <2>3
<1>3. \A x \in Internal : x \notin E /\ x \notin D
  BY PlainSteps DEF Alone
<1>4. Stayed(todo, todo') => (c => d)
  BY StayedIs
<1> HIDE DEF c, d, E, D
<1> QED
  BY <1>1, <1>2, <1>3, <1>4, HandlerEndsPlain DEF Spared

LEMMA PlayingIs ==
  ASSUME Shape, Types, Handler
  PROVE  /\ todo[1] = Only("play") => playing' = TRUE
         /\ todo[1] = Only("hold") => playing' = FALSE
         /\ todo[1] \notin {Only("play"), Only("hold")} => playing' = playing
<1>1. CASE HeadOp \in {"play", "hold"}
  <2>1. SetPlaying /\ (Doing("play") \/ Doing("hold"))
    BY <1>1, ActionOf DEF HeadOp, SetPlaying
  <2>2. todo[1] = Only(Op) /\ playing' = (Op = "play") /\ Op \in {"play", "hold"}
    BY <2>1, HeadIs DEF SetPlaying, Alone, Only
  <2>3. (Only(Op) = Only("play") <=> Op = "play") /\ (Only(Op) = Only("hold") <=> Op = "hold")
    BY DEF Only
  <2> QED
    BY <2>2, <2>3
<1>2. CASE HeadOp \notin {"play", "hold"}
  <2>1. playing' = playing
    BY <1>2, Frame DEF HeadOp
  <2>2. todo[1] # Only("play") /\ todo[1] # Only("hold")
    BY <1>2, OnlyHead DEF Alone
  <2> QED
    BY <2>1, <2>2
<1> QED
  BY <1>1, <1>2

LEMMA PlayingKept ==
  ASSUME Shape, Types, Handler, Spared
  PROVE  (Playing => Playing') /\ (Holding => Holding')
<1> DEFINE P == {Only("play")}
           H == {Only("hold")}
<1>1. \A x \in Internal : x \notin P /\ x \notin H
  BY PlainSteps DEF Alone
<1>2. Live(todo, playing, P, H) => playing'
  BY PlayingIs DEF Live
<1>3. Live(todo, ~playing, H, P) => ~playing'
  BY PlayingIs DEF Live
<1>4. Stayed(todo, todo') => playing' = playing
  BY StayedIs
<1>5. Playing => Playing'
  <2> DEFINE c == playing
             d == playing'
  <2>1. (Stayed(todo, todo') => (c => d)) /\ (Live(todo, c, P, H) => d)
    BY <1>2, <1>4
  <2>2. Playing => Ends(todo, c, P, H)
    BY DEF Playing
  <2>3. Ends(todo', d, P, H) => Playing'
    BY DEF Playing
  <2> HIDE DEF c, d, P, H
  <2> QED
    BY <1>1, <2>1, <2>2, <2>3, HandlerEndsPlain DEF Spared
<1>6. Holding => Holding'
  <2> DEFINE c == ~playing
             d == ~playing'
  <2>1. (Stayed(todo, todo') => (c => d)) /\ (Live(todo, c, H, P) => d)
    BY <1>3, <1>4
  <2>2. Holding => Ends(todo, c, H, P)
    BY DEF Holding
  <2>3. Ends(todo', d, H, P) => Holding'
    BY DEF Holding
  <2> HIDE DEF c, d, P, H
  <2> QED
    BY <1>1, <2>1, <2>2, <2>3, HandlerEndsPlain DEF Spared
<1> QED
  BY <1>5, <1>6

(* The stream that runs goes on, through the steps of the handler that do not stop it. *)
LEMMA BreaksAre ==
  ASSUME NEW s \in Streams
  PROVE  /\ \A x \in Streams : /\ << "close", x >> \notin Breaks(s) /\ << "join", x >> \notin Breaks(s)
                               /\ << "bind", x >> \notin Breaks(s) /\ << "begin", x >> \notin Breaks(s)
                               /\ (<< "halt", x >> \in Breaks(s) <=> x = s)
                               /\ (<< "restart", x >> \in Breaks(s) <=> x = s)
                               /\ (<< "type", x >> \in Breaks(s) <=> x # s)
                               /\ (<< "select", x >> \in Breaks(s) <=> x # s)
                               /\ (<< "bind", x >> \in StartOf(s) <=> x = s)
                               /\ (<< "begin", x >> \in StartOf(s) <=> x = s)
                               /\ << "close", x >> \notin StartOf(s) /\ << "join", x >> \notin StartOf(s)
         /\ \A t \in Tasks : << "create", t >> \notin Breaks(s)
  BY DEF StartOf, Breaks, Other, Streams

LEMMA BreaksAvoided ==
  ASSUME Shape, Types, Handler, StreamsInv, NEW s \in Streams, NEW n,
         Pushed(todo[1], n, stream, running, conn.control_port),
         running[s] \/ HeadOp \in {"begin", "bind"}, todo[1] \notin Breaks(s)
  PROVE  Avoids(n, Breaks(s)) /\ Len(n) \in Nat
<1> DEFINE D == Breaks(s)
<1>1. HeadArg \in Streams /\ Len(n) \in Nat /\ stream \in Streams
  BY PushCases DEF Types, TypeOK
<1>2. \A op, x : (todo[1] = << op, x >>) <=> (HeadOp = op /\ HeadArg = x)
  BY HeadPair
<1>3. CASE HeadOp = "begin"
  <2> DEFINE z == << "bind", HeadArg >>
  <2>1. n = << z >> /\ z \notin D
    BY <1>1, <1>3, PushCases, BreaksAre
  <2> HIDE DEF z, D
  <2> QED
    BY <1>1, <2>1, AvoidShort DEF D
<1>4. CASE HeadOp = "bind"
  <2> DEFINE b == << "create", "buff" >>
             r == << "create", "recv" >>
             k == << "create", "ctrl" >>
  <2>1. n \in {<< b >>, << r >>, << r, k >>}
    BY <1>4, PushCases
  <2>2. "buff" \in Tasks /\ "recv" \in Tasks /\ "ctrl" \in Tasks
    BY DEF Tasks
  <2>3. b \notin D /\ r \notin D /\ k \notin D
    BY <2>2, BreaksAre
  <2> HIDE DEF b, r, k, D
  <2> QED
    BY <1>1, <2>1, <2>3, AvoidShort DEF D
<1>5. CASE HeadOp \in {"type", "restart"}
  <2>1. stream = s /\ running[s]
    BY <1>5 DEF StreamsInv
  <2>2. CASE HeadOp = "type"
    <3> DEFINE y == << "select", s >>
    <3>0. << "type", HeadArg >> \notin Breaks(s)
      BY <1>2, <2>2
    <3>1. HeadArg = s
      BY <1>1, <3>0, BreaksAre
    <3>2. n = << y >> /\ y \notin D
      BY <2>1, <2>2, <3>1, PushCases, BreaksAre
    <3> HIDE DEF y, D
    <3> QED
      BY <1>1, <3>2, AvoidShort DEF D
  <2>3. CASE HeadOp = "restart"
    <3> DEFINE x == << "halt", HeadArg >>
               y == << "close", HeadArg >>
               z == << "join", HeadArg >>
    <3>0. << "restart", HeadArg >> \notin Breaks(s)
      BY <1>2, <2>3
    <3>1. HeadArg # s
      BY <1>1, <3>0, BreaksAre
    <3>2. n = Stop(HeadArg)
      BY <2>3, PushCases
    <3>3. n = << x, y, z >> /\ x \notin D /\ y \notin D /\ z \notin D
      BY <1>1, <3>1, <3>2, StopIs, BreaksAre
    <3> HIDE DEF x, y, z, D
    <3> QED
      BY <1>1, <3>3, AvoidShort DEF D
  <2> QED
    BY <1>5, <2>2, <2>3
<1> QED
  BY PushCases, <1>3, <1>4, <1>5

LEMMA RunsKept ==
  ASSUME Shape, Types, Handler, StreamsInv, Spared, NEW s \in Streams, Runs(s)
  PROVE  Ends(todo', running'[s], StartOf(s), Breaks(s))
<1> DEFINE c == running[s]
           d == running'[s]
           E == StartOf(s)
           D == Breaks(s)
<1>1. Ends(todo, c, E, D)
  BY DEF Runs
<1>2. Kept /\ c /\ ~d => todo[1] = << "halt", s >>
  BY KeptIs
<1>3. << "halt", s >> \in D
  BY BreaksAre
<1>4. \A op, x : (todo[1] = << op, x >>) <=> (HeadOp = op /\ HeadArg = x)
  BY HeadPair
<1>5. HeadOp \notin {"begin", "bind"} => todo[1] \notin E
  BY <1>4 DEF StartOf
<1>6. ASSUME NEW n, Made, Pushed(todo[1], n, stream, running, conn.control_port), Live(todo, c, E, D)
      PROVE  Ends(n, d, E, D)
  <2>1. HeadArg \in Streams /\ Len(n) \in Nat
    BY <1>6, PushCases
  <2>2. todo[1] \in E => todo[1] \notin D /\ HeadOp \in {"begin", "bind"}
    <3>1. << "begin", s >> \notin D /\ << "bind", s >> \notin D
      BY BreaksAre
    <3> QED
      BY <3>1, <1>5 DEF StartOf
  <2>3. Avoids(n, D)
    BY <1>6, <2>2, BreaksAvoided DEF Live
  <2>4. CASE HeadOp = "begin" /\ HeadArg = s
    <3> DEFINE z == << "bind", s >>
    <3>1. n = << z >> /\ z \in E
      BY <1>6, <2>4, PushCases, BreaksAre
    <3> HIDE DEF z, c, d, E, D
    <3> QED
      BY <3>1, Single
  <2>5. CASE HeadOp = "bind"
    <3>1. running' = [running EXCEPT ![HeadArg] = TRUE] /\ running \in [Streams -> BOOLEAN]
      BY <1>6, <2>5, MadeIs DEF Types, TypeOK
    <3>2. HeadArg # s => todo[1] \notin E
      BY <2>5, <1>4 DEF StartOf
    <3>3. d
      BY <2>1, <3>1, <3>2, <1>6 DEF Live
    <3> QED
      BY <3>3, <2>1, <2>3, EndsAvoid
  <2>6. CASE HeadOp # "bind" /\ ~(HeadOp = "begin" /\ HeadArg = s)
    <3>1. todo[1] \notin E
      BY <2>6, <1>4 DEF StartOf
    <3>2. running' = running
      BY <1>6, <2>6, PushCases
    <3>3. d
      BY <1>6, <3>1, <3>2 DEF Live
    <3> QED
      BY <3>3, <2>1, <2>3, EndsAvoid
  <2> QED
    BY <2>4, <2>5, <2>6
<1>7. (Kept /\ Popped(todo, todo', running)) \/ Skipped(todo, todo', running) => (Live(todo, c, E, D) => d)
  <2>1. Skipped(todo, todo', running) => HeadOp = "halt"
    BY <1>4 DEF Skipped
  <2>2. Skipped(todo, todo', running) => Kept
    BY <2>1, <1>4 DEF Kept
  <2>3. CASE HeadOp \notin {"begin", "bind"}
    BY <1>2, <1>3, <1>5, <2>2, <2>3 DEF Live
  <2>4. CASE HeadOp = "begin"
    <3>1. HeadArg \in Streams /\ todo[1] = << "begin", HeadArg >> /\ running' = running
      BY <2>4, <1>4, HeadPair, Frame DEF OnStream, HeadOp
    <3>2. Popped(todo, todo', running) => running[HeadArg]
      BY <3>1 DEF Popped
    <3>3. HeadArg # s => todo[1] \notin E
      BY <3>1 DEF StartOf
    <3> QED
      BY <2>1, <2>4, <3>1, <3>2, <3>3 DEF Live
  <2>5. CASE HeadOp = "bind"
    BY <2>1, <2>5 DEF Popped, HeadOp
  <2> QED
    BY <2>3, <2>4, <2>5
<1>8. Stayed(todo, todo') => (c => d)
  BY StayedIs
<1>9. \A x \in Streams : << "close", x >> \notin E /\ << "join", x >> \notin E
  BY BreaksAre
<1>10. \A n : Made /\ Pushed(todo[1], n, stream, running, conn.control_port) => (Live(todo, c, E, D) => Ends(n, d, E, D))
  BY <1>6
<1> HIDE DEF c, d, E, D
<1>11. Ends(todo', d, E, D)
  BY <1>1, <1>7, <1>8, <1>9, <1>10, HandlerEnds DEF Spared
<1> QED
  BY <1>11 DEF c, d, E, D

(* The sockets. *)
LEMMA PortIs ==
  ASSUME Shape, Types, Handler, Stopped, Selected, Bound, Fresh, StreamsInv, NEW s \in Streams,
         running[s], HeadOp = "create" => Kept, HeadOp = "bind" => Made
  PROVE  port'[s] = port[s]
<1>1. CASE HeadOp = "close"
  <2>1. Close /\ Doing("close")
    BY <1>1, ActionOf DEF HeadOp, Close
  <2>2. Arg = HeadArg /\ Arg \in Streams /\ port' = [port EXCEPT ![Arg] = 0]
    BY <2>1, HeadIs DEF OnStream, HeadArg, Close
  <2>3. HeadArg # s
    BY <1>1, AtHead
  <2> QED
    BY <2>2, <2>3 DEF Types, TypeOK
<1>2. CASE HeadOp = "bind"
  <2>1. HeadArg # s
    BY <1>2, AtHead
  <2>2. \E p \in IF Wanted(HeadArg) = 0 THEN Ports ELSE {Wanted(HeadArg)} : port' = [port EXCEPT ![HeadArg] = p]
    BY <1>2, MadeIs
  <2> QED
    BY <2>1, <2>2 DEF Types, TypeOK
<1>3. CASE HeadOp = "create"
  <2>1. todo[1] = << "create", HeadArg >> /\ HeadArg \in Tasks
    BY <1>3, HeadPair
  <2> QED
    BY <1>3, <2>1 DEF Kept
<1>4. CASE HeadOp \notin {"close", "bind", "create"}
  BY <1>4, Frame DEF HeadOp
<1> QED
  BY <1>1, <1>2, <1>3, <1>4

LEMMA BufferedFitsKept ==
  ASSUME Shape, Types, Handler, Stopped, Selected, Bound, Fresh, StreamsInv, BufferedKnown, Spared,
         BufferedFits
  PROVE  BufferedFits'
<1> DEFINE b == "buffered"
           c == running[b] /\ port[b] = conn.buffered_port
           d == running'[b] /\ port'[b] = conn'.buffered_port
           E == {Only("bufferedport")}
           D == Breaks(b)
<1>0. SUFFICES Ends(todo', d, E, D)
  BY DEF BufferedFits, Breaks
<1>1. Ends(todo, c, E, D)
  BY DEF BufferedFits
<1>2. b \in Streams /\ todo \in Seq(Steps) /\ todo # << >>
  BY HandlerHead DEF Streams
<1>3. \A op, x : (todo[1] = << op, x >>) <=> (HeadOp = op /\ HeadArg = x)
  BY HeadPair
<1>4. todo[1] \in E <=> HeadOp = "bufferedport"
  BY OnlyHead DEF Alone
<1>5. ASSUME HeadOp = "create" => Kept, HeadOp = "bind" => Made, Live(todo, c, E, D)
      PROVE  d
  <2>1. CASE HeadOp = "bufferedport"
    <3>1. running[b]
      BY <1>2, <1>4, <2>1, DueHead DEF BufferedKnown
    <3>2. running' = running /\ port' = port
      BY <2>1, Frame DEF HeadOp
    <3> QED
      BY <2>1, <3>1, <3>2, ConnIs
  <2>2. CASE HeadOp # "bufferedport"
    <3>1. c /\ todo[1] \notin D
      BY <1>4, <1>5, <2>2 DEF Live
    <3>2. todo[1] # << "halt", b >>
      <4>1. << "halt", b >> \in D
        BY <1>2, BreaksAre
      <4> QED
        BY <3>1, <4>1
    <3>3. running'[b]
      <4>1. CASE HeadOp = "create"
        <5>1. HeadArg \in Tasks /\ todo[1] = << "create", HeadArg >>
          BY <4>1, HeadPair
        <5> QED
          BY <3>1, <4>1, <5>1, <1>5 DEF Kept
      <4>2. CASE HeadOp # "create"
        <5>1. \A t \in Tasks : todo[1] # << "create", t >>
          BY <4>2, <1>3
        <5> QED
          BY <1>2, <3>1, <3>2, <5>1, RunningIs DEF Types, TypeOK
      <4> QED
        BY <4>1, <4>2
    <3>4. HeadOp # "free"
      BY <1>2, <3>1, AtHead
    <3>5. port'[b] = port[b]
      BY <1>2, <1>5, <3>1, PortIs
    <3> QED
      BY <2>2, <3>1, <3>3, <3>4, <3>5, ConnIs
  <2> QED
    BY <2>1, <2>2
<1>6. ASSUME NEW n, Made, Pushed(todo[1], n, stream, running, conn.control_port), Live(todo, c, E, D)
      PROVE  Ends(n, d, E, D)
  <2>1. HeadOp \in {"type", "restart", "begin", "bind"}
    BY <1>6, PushCases
  <2>2. d
    BY <1>5, <1>6, <2>1
  <2>3. running[b] /\ todo[1] \notin D
    BY <1>4, <1>6, <2>1 DEF Live
  <2>4. Avoids(n, D) /\ Len(n) \in Nat
    BY <1>2, <1>6, <2>3, BreaksAvoided
  <2> QED
    BY <2>2, <2>4, EndsAvoid
<1>7. (Kept /\ Popped(todo, todo', running)) \/ Skipped(todo, todo', running) => (Live(todo, c, E, D) => d)
  <2>1. Skipped(todo, todo', running) => HeadOp = "halt"
    BY <1>3 DEF Skipped
  <2>2. Popped(todo, todo', running) => HeadOp # "bind"
    BY DEF Popped, HeadOp
  <2> QED
    BY <1>5, <2>1, <2>2
<1>8. Stayed(todo, todo') => (c => d)
  <2> SUFFICES ASSUME Stayed(todo, todo'), c PROVE d
    OBVIOUS
  <2>1. HeadOp = "event" /\ running' = running /\ port' = port
    BY StayedIs
  <2> QED
    BY <2>1, ConnIs
<1>9. \A x \in Streams : << "close", x >> \notin E /\ << "join", x >> \notin E
  BY DEF Only
<1>10. \A n : Made /\ Pushed(todo[1], n, stream, running, conn.control_port) => (Live(todo, c, E, D) => Ends(n, d, E, D))
  BY <1>6
<1> HIDE DEF c, d, E, D
<1> QED
  BY <1>1, <1>7, <1>8, <1>9, <1>10, HandlerEnds DEF Spared

LEMMA PortsReadyKept ==
  ASSUME Shape, Types, Handler, Spared, HeadOp # "free", PortsReady
  PROVE  PortsReady'
<1> DEFINE r == "realtime"
           c == HasPorts
           d == HasPorts'
           E == PortsSet
           D == {}
           G == StartOf(r)
<1>0. SUFFICES Due(todo', d, E, D, G)
  BY DEF PortsReady, PortsSet, StartOf
<1>1. Due(todo, c, E, D, G)
  BY DEF PortsReady
<1>2. todo \in Seq(Steps) /\ todo # << >> /\ r \in Streams
  BY HandlerHead DEF Streams
<1>3. Live(todo, c, E, D) => d
  BY ConnIs DEF Live, PortsSet
<1>4. ASSUME NEW n, Pushed(todo[1], n, stream, running, conn.control_port)
      PROVE  (Live(todo, c, E, D) => Ends(n, d, E, D)) /\ Due(n, d, E, D, G)
  <2>1. Len(n) \in Nat /\ Avoids(n, D) /\ HeadArg \in Streams
    BY <1>4, PushCases DEF Avoids
  <2>2. CASE d
    BY <2>1, <2>2, EndsAvoid, DueSafe
  <2>3. CASE ~d
    <3>1. /\ \A s \in Streams : /\ << "halt", s >> \notin G /\ << "close", s >> \notin G
                                /\ << "join", s >> \notin G /\ << "select", s >> \notin G
                                /\ (<< "bind", s >> \in G => s = r)
          /\ \A t \in Tasks : << "create", t >> \notin G
          /\ << "begin", r >> \in G
      BY DEF StartOf
    <3>2. HeadOp = "begin" => << "bind", HeadArg >> \notin G
      <4>1. HeadOp = "begin" /\ HeadArg = r => todo[1] = << "begin", r >>
        BY HeadPair
      <4>2. todo[1] \in G => c
        BY <1>1, <1>2, DueHead
      <4>3. c => d
        BY ConnIs
      <4> QED
        BY <2>1, <2>3, <3>1, <4>1, <4>2, <4>3
    <3>3. Avoids(n, G)
      <4> HIDE DEF G
      <4> QED
        BY <1>4, <2>1, <3>1, <3>2, PushedAvoids, PushCases
    <3> QED
      BY <1>3, <2>3, <3>3, DueAvoid
  <2> QED
    BY <2>2, <2>3
<1>5. Stayed(todo, todo') => (c => d)
  BY ConnIs
<1>6. \A s \in Streams : << "close", s >> \notin E /\ << "join", s >> \notin E
  BY DEF PortsSet
<1> HIDE DEF c, d, E, D, G
<1> QED
  BY <1>1, <1>3, <1>4, <1>5, <1>6, HandlerDue DEF Spared

LEMMA PortsAtHead ==
  ASSUME Shape, Types, Handler, PortsReady
  PROVE  todo[1] = << "bind", "realtime" >> => HasPorts
<1> DEFINE E == PortsSet
           D == {}
           G == StartOf("realtime")
<1>1. todo \in Seq(Steps) /\ todo # << >> /\ Due(todo, HasPorts, E, D, G)
  BY HandlerHead DEF PortsReady
<1>2. << "bind", "realtime" >> \in G
  BY DEF StartOf
<1> HIDE DEF E, D, G
<1> QED
  BY <1>1, <1>2, DueHead

LEMMA PortIsToldKept ==
  ASSUME Shape, Types, Handler, Stopped, Selected, Bound, Fresh, StreamsInv, Spared, HeadOp # "free",
         PortsReady, PortIsTold
  PROVE  PortIsTold'
<1> DEFINE r == "realtime"
           c == PortFits
           d == PortFits'
           E == Ceases
           D == PortsSet
<1>0. SUFFICES Ends(todo', d, E, D)
  BY DEF PortIsTold, Ceases, PortsSet
<1>1. Ends(todo, c, E, D)
  BY DEF PortIsTold
<1>2. r \in Streams /\ todo \in Seq(Steps) /\ todo # << >>
  BY HandlerHead DEF Streams
<1>3. \A op, x : (todo[1] = << op, x >>) <=> (HeadOp = op /\ HeadArg = x)
  BY HeadPair
<1>4. running \in [Streams -> BOOLEAN] /\ port \in [Streams -> Ports \cup {0}]
  BY DEF Types, TypeOK
<1>5. ASSUME HeadOp = "create" => Kept, HeadOp = "bind" => Made, c, running'[r]
      PROVE  port'[r] = conn'.data_port
  <2>1. CASE running[r]
    <3>1. port[r] = conn.data_port /\ port[r] # 0
      BY <1>2, <1>5, <2>1 DEF PortFits, StreamsInv
    <3>2. port'[r] = port[r]
      BY <1>2, <1>5, <2>1, PortIs
    <3> QED
      BY <3>1, <3>2, ConnIs
  <2>2. CASE ~running[r]
    <3>1. todo[1] = << "bind", r >>
      BY <1>2, <1>5, <2>2, RunningIs
    <3>2. HeadOp = "bind" /\ HeadArg = r
      BY <1>3, <3>1
    <3>3. HasPorts
      BY <3>1, PortsAtHead
    <3>4. Wanted(r) = conn.data_port /\ conn.data_port # 0
      BY <3>3 DEF HasPorts, Wanted, Asked
    <3>5. port'[r] = conn.data_port
      BY <1>2, <1>4, <1>5, <3>2, <3>4, MadeIs
    <3> QED
      BY <3>2, <3>5, ConnIs
  <2> QED
    BY <2>1, <2>2
<1>6. todo[1] \in E <=> HeadOp \in {"halt", "restart"} /\ HeadArg = r
  BY <1>3 DEF Ceases
<1>7. ASSUME NEW n, Made, Pushed(todo[1], n, stream, running, conn.control_port), Live(todo, c, E, D)
      PROVE  Ends(n, d, E, D)
  <2>1. HeadOp \in {"type", "restart", "begin", "bind"} /\ HeadArg \in Streams /\ Len(n) \in Nat
    BY <1>7, PushCases
  <2>2. CASE HeadOp = "restart" /\ HeadArg = r
    <3>1. n = Stop(r)
      BY <1>7, <2>2, PushCases
    <3>2. << "halt", r >> \in E /\ << "close", r >> \notin D /\ << "join", r >> \notin D
      BY DEF Ceases, PortsSet
    <3>3. Past(<< "halt", r >>, d, E, D)
      BY <3>2 DEF Past
    <3> HIDE DEF d, E, D
    <3> QED
      BY <1>2, <3>1, <3>2, <3>3, StopPair
  <2>3. CASE ~(HeadOp = "restart" /\ HeadArg = r)
    <3>1. c
      BY <1>6, <1>7, <2>1, <2>3 DEF Live
    <3>2. d
      BY <1>5, <1>7, <2>1, <3>1 DEF PortFits
    <3>3. \A x \in Internal : x \notin D
      BY PlainSteps, <1>2 DEF PortsSet
    <3>4. Avoids(n, D)
      <4> HIDE DEF D
      <4> QED
        BY <1>7, <3>3, HandlerHead, PushedInternal
    <3> QED
      BY <2>1, <3>2, <3>4, EndsAvoid
  <2> QED
    BY <2>2, <2>3
<1>8. ASSUME (Kept /\ Popped(todo, todo', running)) \/ Skipped(todo, todo', running), Live(todo, c, E, D)
      PROVE  d
  <2>1. Skipped(todo, todo', running) => HeadOp = "halt"
    BY <1>3 DEF Skipped
  <2>2. HeadOp # "bind" /\ (HeadOp = "create" => Kept)
    BY <1>8, <2>1 DEF Popped, HeadOp
  <2>3. CASE HeadOp = "halt" /\ HeadArg = r
    <3>1. ~running'[r]
      BY <1>2, <1>3, <2>3, RunningIs
    <3> QED
      BY <3>1 DEF PortFits
  <2>4. CASE HeadOp = "restart" /\ HeadArg = r
    <3>1. ~running[r]
      BY <1>2, <1>3, <1>8, <2>1, <2>4 DEF Popped
    <3>2. running' = running
      BY <2>4, Frame DEF HeadOp
    <3> QED
      BY <3>1, <3>2 DEF PortFits
  <2>5. CASE ~(HeadOp \in {"halt", "restart"} /\ HeadArg = r)
    <3>1. c
      BY <1>6, <1>8, <2>5 DEF Live
    <3> QED
      BY <1>5, <2>2, <3>1 DEF PortFits
  <2> QED
    BY <2>3, <2>4, <2>5
<1>9. Stayed(todo, todo') => (c => d)
  <2> SUFFICES ASSUME Stayed(todo, todo'), c PROVE d
    OBVIOUS
  <2>1. HeadOp = "event"
    BY StayedIs
  <2> QED
    BY <1>5, <2>1 DEF PortFits
<1>10. \A x \in Streams : << "close", x >> \notin E /\ << "join", x >> \notin E
  BY DEF Ceases
<1>11. \A n : Made /\ Pushed(todo[1], n, stream, running, conn.control_port) => (Live(todo, c, E, D) => Ends(n, d, E, D))
  BY <1>7
<1> HIDE DEF c, d, E, D
<1> QED
  BY <1>1, <1>8, <1>9, <1>10, <1>11, HandlerEnds DEF Spared

LEMMA ControlledKept ==
  ASSUME Shape, Types, Handler, Stopped, Selected, Bound, Fresh, StreamsInv, Spared, PortsReady, Controlled
  PROVE  Controlled'
<1> DEFINE r == "realtime"
           c == ControlRuns
           d == ControlRuns'
           E == Controls
           D == {}
<1>0. SUFFICES Ends(todo', d, E, D)
  BY DEF Controlled, Controls, Ceases, StartOf
<1>1. Ends(todo, c, E, D)
  BY DEF Controlled
<1>2. r \in Streams /\ todo \in Seq(Steps) /\ todo # << >>
  BY HandlerHead DEF Streams
<1>3. \A op, x : (todo[1] = << op, x >>) <=> (HeadOp = op /\ HeadArg = x)
  BY HeadPair
<1>4. running \in [Streams -> BOOLEAN] /\ task \in [Tasks -> {"none", "check", "blocked", "decode"}]
      /\ "ctrl" \in Tasks
  BY DEF Types, TypeOK, Tasks
<1>5. task["ctrl"] # "none" => task'["ctrl"] # "none"
  <2>1. CASE HeadOp = "create"
    <3>1. Create
      BY <2>1, ActionOf DEF HeadOp
    <3>2. task' = task \/ task' = [task EXCEPT ![Arg] = "check"]
      BY <3>1 DEF Create
    <3> QED
      BY <1>4, <3>2
  <2>2. CASE HeadOp # "create"
    BY <2>2, Frame DEF HeadOp
  <2> QED
    BY <2>1, <2>2
<1>6. c /\ todo[1] # << "bind", r >> => d
  <2>1. running'[r] /\ ~running[r] => todo[1] = << "bind", r >>
    BY <1>2, RunningIs
  <2>2. running'[r] \in BOOLEAN /\ running[r] \in BOOLEAN
    BY <1>2, <1>4, RunningIs
  <2> QED
    BY <1>5, <2>1, <2>2 DEF ControlRuns
<1>7. todo[1] \in E <=> \/ HeadOp \in {"halt", "restart", "begin", "bind"} /\ HeadArg = r
                        \/ HeadOp = "create" /\ HeadArg = "ctrl"
  BY <1>3 DEF Controls, Ceases, StartOf
<1>8. ASSUME NEW n, Made, Pushed(todo[1], n, stream, running, conn.control_port), Live(todo, c, E, D)
      PROVE  Ends(n, d, E, D)
  <2>1. HeadOp \in {"type", "restart", "begin", "bind"} /\ HeadArg \in Streams /\ Len(n) \in Nat
    BY <1>8, PushCases
  <2>2. CASE HeadOp = "restart" /\ HeadArg = r
    <3>1. n = Stop(r)
      BY <1>8, <2>2, PushCases
    <3>2. << "halt", r >> \in E /\ << "close", r >> \notin D /\ << "join", r >> \notin D
      BY DEF Controls, Ceases
    <3>3. Past(<< "halt", r >>, d, E, D)
      BY <3>2 DEF Past
    <3> HIDE DEF d, E, D
    <3> QED
      BY <1>2, <3>1, <3>2, <3>3, StopPair
  <2>3. CASE HeadOp = "begin" /\ HeadArg = r
    <3> DEFINE z == << "bind", r >>
    <3>1. n = << z >> /\ z \in E
      BY <1>8, <2>3, PushCases DEF Controls, StartOf
    <3> HIDE DEF z, c, d, E, D
    <3> QED
      BY <3>1, Single
  <2>4. CASE HeadOp = "bind" /\ HeadArg = r
    <3> DEFINE x == << "create", "recv" >>
               y == << "create", "ctrl" >>
    <3>1. HasPorts
      BY <1>3, <2>4, PortsAtHead
    <3>2. n = Creates(r, conn.control_port)
      BY <1>8, <2>4, PushCases
    <3>3. n = << x, y >> /\ y \in E
      BY <1>2, <3>1, <3>2, CreatesAre DEF HasPorts, Controls
    <3> HIDE DEF x, y, c, d, E, D
    <3> QED
      BY <3>3, PairIs
  <2>5. CASE ~(HeadOp \in {"restart", "begin", "bind"} /\ HeadArg = r)
    <3>1. c
      BY <1>7, <1>8, <2>1, <2>5 DEF Live
    <3>2. todo[1] # << "bind", r >>
      BY <1>3, <2>5
    <3>3. Avoids(n, D)
      BY DEF Avoids
    <3> QED
      BY <1>6, <2>1, <3>1, <3>2, <3>3, EndsAvoid
  <2> QED
    BY <2>2, <2>3, <2>4, <2>5
<1>9. ASSUME (Kept /\ Popped(todo, todo', running)) \/ Skipped(todo, todo', running), Live(todo, c, E, D)
      PROVE  d
  <2>1. Skipped(todo, todo', running) => HeadOp = "halt"
    BY <1>3 DEF Skipped
  <2>2. HeadOp # "bind" /\ (HeadOp = "create" => Kept)
    BY <1>9, <2>1 DEF Popped, HeadOp
  <2>3. CASE HeadOp = "halt" /\ HeadArg = r
    <3>1. ~running'[r]
      BY <1>2, <1>3, <2>3, RunningIs
    <3> QED
      BY <3>1 DEF ControlRuns
  <2>4. CASE HeadOp = "restart" /\ HeadArg = r
    <3>1. ~running[r]
      BY <1>2, <1>3, <1>9, <2>1, <2>4 DEF Popped
    <3>2. running' = running
      BY <2>4, Frame DEF HeadOp
    <3> QED
      BY <3>1, <3>2 DEF ControlRuns
  <2>5. CASE HeadOp = "begin" /\ HeadArg = r
    <3>1. running[r]
      BY <1>2, <1>3, <1>9, <2>1, <2>5 DEF Popped
    <3> QED
      BY <2>5, <3>1, AtHead
  <2>6. CASE HeadOp = "create" /\ HeadArg = "ctrl"
    <3>1. task' = [task EXCEPT !["ctrl"] = "check"]
      BY <1>3, <1>4, <2>2, <2>6 DEF Kept
    <3> QED
      BY <1>4, <3>1 DEF ControlRuns
  <2>7. CASE todo[1] \notin E
    <3>1. c
      BY <2>7, <1>9 DEF Live
    <3> QED
      BY <1>3, <1>6, <2>2, <3>1
  <2> QED
    BY <1>7, <2>2, <2>3, <2>4, <2>5, <2>6, <2>7
<1>10. Stayed(todo, todo') => (c => d)
  <2>1. Stayed(todo, todo') => HeadOp = "event"
    BY StayedIs
  <2> QED
    BY <1>3, <1>6, <2>1
<1>11. \A x \in Streams : << "close", x >> \notin E /\ << "join", x >> \notin E
  BY DEF Controls, Ceases, StartOf
<1>12. \A n : Made /\ Pushed(todo[1], n, stream, running, conn.control_port) => (Live(todo, c, E, D) => Ends(n, d, E, D))
  BY <1>8
<1> HIDE DEF c, d, E, D
<1> QED
  BY <1>1, <1>9, <1>10, <1>11, <1>12, HandlerEnds DEF Spared

(* What an orderly sender relies on, through a step of the handler. *)
LEMMA FreeEnds ==
  ASSUME Shape, Types, Handler, HeadOp = "free", NEW c, NEW E, NEW D,
         Only("free") \in D, Only("free") \notin E
  PROVE  ~Ends(todo, c, E, D)
<1> SUFFICES ASSUME Ends(todo, c, E, D) PROVE FALSE
  OBVIOUS
<1> DEFINE d == FALSE
<1>1. todo \in Seq(Steps) /\ todo # << >> /\ todo[1] = Only("free") /\ todo' = << >>
  BY HandlerHead, FreeStep
<1>2. Tail(todo) = << >>
  <2>1. Free
    BY ActionOf DEF HeadOp
  <2> QED
    BY <1>1, <2>1 DEF Free, Done
<1>3. (c /\ todo[1] \notin D) \/ todo[1] \in E => d
  BY <1>1
<1> HIDE DEF d
<1>4. Ends(Tail(todo), d, E, D)
  BY <1>1, <1>3, EndsPop
<1>5. d
  <2>1. Ends(<< >>, d, E, D)
    BY <1>2, <1>4
  <2> QED
    BY <2>1, Empty
<1> QED
  BY <1>5 DEF d

LEMMA HeardKept ==
  ASSUME Shape, Types, Handler, Stopped, Selected, Bound, Fresh, StreamsInv, BufferedKnown, Heard
  PROVE  Heard'
<1> SUFFICES ASSUME Served', ~Refused'
             PROVE  /\ Answering' /\ Keyed' /\ Codec' /\ Runs(S)'
                    /\ (sender = "streaming" => Playing)'
                    /\ (sender = "paused" => Holding)'
                    /\ (S = "buffered" => BufferedFits)'
                    /\ (S = "realtime" => RealtimeFits)'
  BY DEF Heard
<1>1. todo[1] # Error
  <2>1. todo[1] = Error => sender' \in {"ended", "new", "torn"}
    BY ErrorStep
  <2> QED
    BY <2>1 DEF Served
<1>2. ~Refused /\ sender' = sender /\ Spared
  BY <1>1, NotFailedIs DEF Spared
<1>3. /\ Served /\ Answering /\ Keyed /\ Codec /\ Runs(S)
      /\ (sender = "streaming" => Playing) /\ (sender = "paused" => Holding)
      /\ (S = "buffered" => BufferedFits) /\ (S = "realtime" => RealtimeFits)
  BY <1>2 DEF Heard, Served
<1>4. HeadOp # "free"
  <2> DEFINE c == Promised
             E == {Told}
             D == {Error, Only("free"), << "ports", "realtime" >>, Only("bufferedport")}
  <2>1. Ends(todo, c, E, D)
    BY <1>3 DEF Answering
  <2>2. Only("free") \in D /\ Only("free") \notin E
    BY DEF Only, Told
  <2> HIDE DEF c, E, D
  <2> QED
    BY <2>1, <2>2, FreeEnds
<1>5. S' = S
  BY <1>4, ConnIs DEF S
<1>6. Answering' /\ Keyed' /\ Codec'
  BY <1>1, <1>2, <1>3, AnsweringKept, KeyedKept, CodecKept
<1>7. Runs(S)'
  <2>1. S \in Streams
    BY DEF S, StreamOfType, Streams
  <2>2. Ends(todo', running'[S], StartOf(S), Breaks(S))
    BY <1>2, <1>3, <2>1, RunsKept
  <2>3. Ends(todo', running'[S'], StartOf(S'), Breaks(S'))
    BY <1>5, <2>2
  <2>4. Runs(S)' <=> Ends(todo', running'[S'], StartOf(S'), Breaks(S'))
    BY DEF Runs, StartOf, Breaks
  <2> QED
    BY <2>3, <2>4
<1>8. (Playing => Playing') /\ (Holding => Holding')
  BY <1>2, PlayingKept
<1>9. S = "buffered" => BufferedFits'
  BY <1>2, <1>3, BufferedFitsKept
<1>10. S = "realtime" => RealtimeFits'
  BY <1>2, <1>3, <1>4, PortsReadyKept, PortIsToldKept, ControlledKept DEF RealtimeFits
<1> QED
  BY <1>2, <1>3, <1>5, <1>6, <1>7, <1>8, <1>9, <1>10

LEMMA LeavingHead ==
  ASSUME Shape, Types, Handler, Leaving, HeadOp = "free"
  PROVE  sender = "new" /\ sender' = "new"
<1> DEFINE c == sender = "new"
           E == {}
           G == {Only("free")}
<1>1. todo \in Seq(Steps) /\ todo # << >> /\ todo[1] \in G /\ Due(todo, c, E, E, G)
  BY HandlerHead, FreeStep DEF Leaving
<1> HIDE DEF c, E, G
<1>2. c
  BY <1>1, DueHead
<1>3. sender' = sender
  BY Frame DEF HeadOp
<1> QED
  BY <1>2, <1>3 DEF c

LEMMA FallibleHead ==
  ASSUME Shape, Types, Handler, NEW c, NEW D, NEW G, Fallible \subseteq G, Due(todo, c, {}, D, G),
         Broke /\ Failed(todo, todo')
  PROVE  c
<1>1. todo \in Seq(Steps) /\ todo # << >> /\ todo[1] \in G
  BY HandlerHead, FailedIs
<1> QED
  BY <1>1, DueHead

LEMMA HasPortsAtEndKept ==
  ASSUME Shape, Types, Handler, Spared, HeadOp # "free", HasPortsAtEnd
  PROVE  HasPortsAtEnd'
<1> DEFINE c == HasPorts
           d == HasPorts'
           E == PortsSet
           D == {}
<1>0. SUFFICES Ends(todo', d, E, D)
  BY DEF HasPortsAtEnd, PortsSet
<1>1. Ends(todo, c, E, D)
  BY DEF HasPortsAtEnd
<1>2. Live(todo, c, E, D) => d
  BY ConnIs DEF Live, PortsSet
<1>3. \A x \in Internal : x \notin E /\ x \notin D
  BY PlainSteps DEF PortsSet, Streams
<1>4. Stayed(todo, todo') => (c => d)
  BY ConnIs
<1> HIDE DEF c, d, E, D
<1> QED
  BY <1>1, <1>2, <1>3, <1>4, HandlerEndsPlain DEF Spared

LEMMA PausedIs ==
  ASSUME Shape, Types, Handler
  PROVE  /\ todo[1] = Only("pause") => conn'.paused
         /\ todo[1] \in {Only("unpause"), Only("free")} => ~conn'.paused
         /\ todo[1] \notin {Only("pause"), Only("unpause"), Only("free")} => conn'.paused = conn.paused
  BY OnlyHead, ConnIs DEF Alone

LEMMA PausedAtEndKept ==
  ASSUME Shape, Types, Handler, Spared, HeadOp # "free", PausedAtEnd
  PROVE  PausedAtEnd'
<1> DEFINE c == conn.paused
           d == conn'.paused
           E == {Only("pause")}
           D == {Only("unpause")}
<1>0. SUFFICES Ends(todo', d, E, D)
  BY DEF PausedAtEnd
<1>1. Ends(todo, c, E, D)
  BY DEF PausedAtEnd
<1>2. Live(todo, c, E, D) => d
  BY PausedIs, OnlyHead DEF Live, Alone
<1>3. \A x \in Internal : x \notin E /\ x \notin D
  BY PlainSteps DEF Alone
<1>4. Stayed(todo, todo') => (c => d)
  BY StayedIs, ConnIs
<1> HIDE DEF c, d, E, D
<1> QED
  BY <1>1, <1>2, <1>3, <1>4, HandlerEndsPlain DEF Spared

LEMMA GoingAtEndKept ==
  ASSUME Shape, Types, Handler, Going, GoingAtEnd
  PROVE  GoingAtEnd'
<1> DEFINE c == ~conn.paused
           d == ~conn'.paused
           E == {Only("unpause"), Only("free")}
           D == {Only("pause")}
<1>0. SUFFICES Ends(todo', d, E, D)
  BY DEF GoingAtEnd
<1>1. Ends(todo, c, E, D)
  BY DEF GoingAtEnd
<1>2. Live(todo, c, E, D) => d
  BY PausedIs DEF Live
<1>3. \A x \in Internal : x \notin E /\ x \notin D
  BY PlainSteps DEF Alone
<1>4. Stayed(todo, todo') => (c => d)
  BY StayedIs, ConnIs
<1>5. Broke /\ Failed(todo, todo') => Ends(todo', d, E, D)
  <2> SUFFICES ASSUME Broke, Failed(todo, todo') PROVE Ends(todo', d, E, D)
    OBVIOUS
  <2>1. c
    <3> DEFINE G == Fallible
    <3>1. Due(todo, c, {}, D, G) /\ Fallible \subseteq G
      BY DEF Going
    <3> HIDE DEF c, D, G
    <3> QED
      BY <3>1, FallibleHead
  <2>2. todo[1] \in Fallible
    BY DEF Failed
  <2>3. HeadOp \notin {"pause", "unpause", "free"}
    BY <2>2, FallibleIs DEF HeadOp
  <2>4. d
    BY <2>1, <2>3, ConnIs
  <2>5. Error \notin D /\ \A s \in Streams : << "join", s >> \notin D
    BY DEF Only, Error
  <2> HIDE DEF c, d, E, D
  <2> QED
    BY <2>4, <2>5, FailedEnds
<1> HIDE DEF c, d, E, D
<1> QED
  BY <1>1, <1>2, <1>3, <1>4, <1>5, HandlerEndsPlain

LEMMA AirPlay1Kept ==
  ASSUME Shape, Types, Handler, Leaving, PausedInPeace, AirPlay1
  PROVE  AirPlay1'
<1> SUFFICES ASSUME plan.protocol = 1 PROVE AirPlay1'
  BY SenderIs DEF AirPlay1
<1>1. /\ conn.stream_type \in {0, 96} /\ sender # "torn"
      /\ sender \in {"setup", "streaming", "paused"} => conn.stream_type = 96
      /\ sender \in {"announced", "setup"} /\ ~Refused => Keyed /\ Codec
      /\ sender = "setup" /\ ~Refused => HasPortsAtEnd
      /\ sender = "paused" => PausedAtEnd
      /\ sender # "paused" => GoingAtEnd
      /\ Going
  BY DEF AirPlay1
<1>2. todo[1] = Error => sender' = "ended" /\ todo' = << >> /\ conn' = conn
  BY ErrorStep
<1>3. todo[1] # Error => sender' = sender
  BY SenderIs
<1>4. HeadOp = "free" => sender' = "new"
  BY LeavingHead
<1>5. HeadOp # "free" => conn'.stream_type = conn.stream_type
  BY ConnIs
<1>6. HeadOp = "free" => conn'.stream_type = 0
  BY FreeStep DEF NewConn
<1>7. conn'.stream_type \in {0, 96} /\ sender' # "torn"
      /\ (sender' \in {"setup", "streaming", "paused"} => conn'.stream_type = 96)
  BY <1>1, <1>2, <1>3, <1>4, <1>5, <1>6
<1>8. ASSUME sender' \in {"announced", "setup"}, ~Refused'
      PROVE  Keyed' /\ Codec' /\ (sender' = "setup" => HasPortsAtEnd')
  <2>1. todo[1] # Error /\ HeadOp # "free"
    BY <1>2, <1>4, <1>8
  <2>2. ~Refused /\ sender' = sender /\ Spared
    BY <2>1, <1>8, NotFailedIs DEF Spared
  <2> QED
    BY <1>1, <1>8, <2>1, <2>2, KeyedKept, CodecKept, HasPortsAtEndKept
<1>9. ASSUME sender' = "paused"
      PROVE  PausedAtEnd'
  <2>1. todo[1] # Error /\ HeadOp # "free" /\ sender = "paused"
    BY <1>2, <1>3, <1>4, <1>9
  <2>2. Spared
    <3> DEFINE c == FALSE
               D == {}
               G == Fallible
    <3>1. Due(todo, c, {}, D, G) /\ Fallible \subseteq G
      BY <2>1 DEF PausedInPeace
    <3>2. Broke /\ Failed(todo, todo') => c
      <4> HIDE DEF c, D, G
      <4> QED
        BY <3>1, FallibleHead
    <3> QED
      BY <3>2 DEF Spared
  <2> QED
    BY <1>1, <2>1, <2>2, PausedAtEndKept
<1>10. ASSUME sender' # "paused"
       PROVE  GoingAtEnd'
  <2>1. CASE todo[1] = Error
    <3> DEFINE c == ~conn.paused
               D == {Only("pause")}
               G == Fallible
    <3>1. todo \in Seq(Steps) /\ todo # << >> /\ todo[1] \in G /\ Due(todo, c, {}, D, G)
      BY <1>1, <2>1, HandlerHead, FallibleIs DEF Going
    <3>2. c
      <4> HIDE DEF c, D, G
      <4> QED
        BY <3>1, DueHead
    <3>3. ~conn'.paused /\ todo' = << >>
      BY <1>2, <2>1, <3>2
    <3> QED
      BY <3>3, Empty DEF GoingAtEnd
  <2>2. CASE todo[1] # Error
    BY <1>1, <1>3, <1>10, <2>2, GoingAtEndKept
  <2> QED
    BY <2>1, <2>2
<1>11. Going'
  BY <1>1, GoingKept
<1> QED
  BY <1>7, <1>8, <1>9, <1>10, <1>11 DEF AirPlay1

LEMMA OrderlyHandler ==
  ASSUME Core, OrderlyInv, plan.orderly, Handler
  PROVE  OrderlyInv'
<1>1. /\ Types /\ Shape /\ Stopped /\ Selected /\ StreamsInv /\ EventInv /\ BufferedKnown /\ Fresh /\ Bound
      /\ Leaving /\ Unpromised /\ Withdrawn /\ DecodesPromised /\ Heard /\ AirPlay1 /\ PausedInPeace
  BY DEF Core, OrderlyInv
<1>2. Leaving' /\ Unpromised' /\ Withdrawn' /\ PausedInPeace'
  BY <1>1, LeavingKept, UnpromisedKept, WithdrawnKept, PausedInPeaceKept
<1>3. DecodesPromised'
  BY <1>1, DecodesPromisedKept
<1>4. Heard' /\ AirPlay1'
  BY <1>1, HeardKept, AirPlay1Kept
<1> QED
  BY <1>2, <1>3, <1>4 DEF OrderlyInv

-----------------------------------------------------------------------------
(* What an orderly sender relies on, between two requests. *)
LEMMA AtRest ==
  ASSUME OrderlyInv, todo = << >>
  PROVE  /\ ~Served => promise = Nothing
         /\ DecodesPromised
         /\ Served =>
              /\ Promised /\ CurrentKey /\ decoder /\ running[S]
              /\ sender = "streaming" => playing
              /\ sender = "paused" => ~playing
              /\ S = "buffered" => port["buffered"] = conn.buffered_port
              /\ S = "realtime" => PortFits /\ ControlRuns
         /\ plan.protocol = 1 =>
              /\ conn.stream_type \in {0, 96} /\ sender # "torn"
              /\ sender \in {"setup", "streaming", "paused"} => conn.stream_type = 96
              /\ sender \in {"announced", "setup"} => CurrentKey /\ decoder
              /\ sender = "setup" => HasPorts
              /\ conn.paused <=> sender = "paused"
<1>1. ASSUME NEW c, NEW E, NEW D, Ends(todo, c, E, D) PROVE c
  <2>1. Ends(<< >>, c, E, D)
    BY <1>1
  <2> QED
    BY <2>1, Empty
<1>2. ~Served => promise = Nothing
  <2> DEFINE c == promise = Nothing
  <2>1. ~Served => Ends(todo, c, Withdraws, {Told})
    BY DEF OrderlyInv, Withdrawn
  <2> HIDE DEF c
  <2>2. ~Served => c
    BY <2>1, <1>1
  <2> QED
    BY <2>2 DEF c
<1>3. ~Refused
  <2> DEFINE c == FALSE
  <2>1. Refused => Ends(todo, c, {Error}, {})
    BY DEF Refused
  <2> HIDE DEF c
  <2>2. Refused => c
    BY <2>1, <1>1
  <2> QED
    BY <2>2 DEF c
<1>4. /\ Answering => Promised
      /\ Keyed => CurrentKey
      /\ Codec => decoder
      /\ \A s \in Streams : Runs(s) => running[s]
      /\ Playing => playing
  BY <1>1 DEF Answering, Keyed, Codec, Runs, Playing
<1>5. Holding => ~playing
  <2> DEFINE c == ~playing
  <2>1. Holding => Ends(todo, c, {Only("hold")}, {Only("play")})
    BY DEF Holding
  <2> HIDE DEF c
  <2>2. Holding => c
    BY <2>1, <1>1
  <2> QED
    BY <2>2 DEF c
<1>6. BufferedFits => port["buffered"] = conn.buffered_port
  <2> DEFINE c == running["buffered"] /\ port["buffered"] = conn.buffered_port
  <2>1. BufferedFits => Ends(todo, c, {Only("bufferedport")}, Breaks("buffered"))
    BY DEF BufferedFits
  <2> HIDE DEF c
  <2>2. BufferedFits => c
    BY <2>1, <1>1
  <2> QED
    BY <2>2 DEF c
<1>7. RealtimeFits => PortFits /\ ControlRuns
  BY <1>1 DEF RealtimeFits, PortIsTold, Controlled
<1>8. S \in Streams
  BY DEF S, StreamOfType, Streams
<1>9. Served => /\ Promised /\ CurrentKey /\ decoder /\ running[S]
                /\ sender = "streaming" => playing
                /\ sender = "paused" => ~playing
                /\ S = "buffered" => port["buffered"] = conn.buffered_port
                /\ S = "realtime" => PortFits /\ ControlRuns
  <2> SUFFICES ASSUME Served
               PROVE /\ Promised /\ CurrentKey /\ decoder /\ running[S]
                     /\ sender = "streaming" => playing
                     /\ sender = "paused" => ~playing
                     /\ S = "buffered" => port["buffered"] = conn.buffered_port
                     /\ S = "realtime" => PortFits /\ ControlRuns
    OBVIOUS
  <2>1. /\ Answering /\ Keyed /\ Codec /\ Runs(S)
        /\ (sender = "streaming" => Playing) /\ (sender = "paused" => Holding)
        /\ (S = "buffered" => BufferedFits) /\ (S = "realtime" => RealtimeFits)
    BY <1>3 DEF OrderlyInv, Heard
  <2> QED
    BY <2>1, <1>4, <1>5, <1>6, <1>7, <1>8
<1>10. ASSUME plan.protocol = 1
       PROVE  /\ conn.stream_type \in {0, 96} /\ sender # "torn"
              /\ sender \in {"setup", "streaming", "paused"} => conn.stream_type = 96
              /\ sender \in {"announced", "setup"} => CurrentKey /\ decoder
              /\ sender = "setup" => HasPorts
              /\ conn.paused <=> sender = "paused"
  <2>1. /\ conn.stream_type \in {0, 96} /\ sender # "torn"
        /\ sender \in {"setup", "streaming", "paused"} => conn.stream_type = 96
        /\ sender \in {"announced", "setup"} => Keyed /\ Codec
        /\ sender = "setup" => HasPortsAtEnd
        /\ sender = "paused" => PausedAtEnd
        /\ sender # "paused" => GoingAtEnd
    BY <1>3, <1>10 DEF OrderlyInv, AirPlay1
  <2>2. (HasPortsAtEnd => HasPorts) /\ (PausedAtEnd => conn.paused)
    BY <1>1 DEF HasPortsAtEnd, PausedAtEnd
  <2>3. GoingAtEnd => ~conn.paused
    <3> DEFINE c == ~conn.paused
    <3>1. GoingAtEnd => Ends(todo, c, {Only("unpause"), Only("free")}, {Only("pause")})
      BY DEF GoingAtEnd
    <3> HIDE DEF c
    <3>2. GoingAtEnd => c
      BY <3>1, <1>1
    <3> QED
      BY <3>2 DEF c
  <2> QED
    BY <1>4, <2>1, <2>2, <2>3
<1>11. DecodesPromised
  BY DEF OrderlyInv
<1> QED
  BY <1>2, <1>9, <1>10, <1>11

(* Lists by the operations of their steps. *)
Else(O) == {x \in Steps : x[1] \notin O}

LEMMA ElseIs ==
  ASSUME NEW q \in Seq(Steps), NEW O, Avoids(q, Else(O)), NEW D, \A x \in D : x[1] \notin O
  PROVE  Avoids(q, D)
<1> SUFFICES ASSUME NEW i \in 1 .. Len(q), q[i] \in D PROVE FALSE
  BY DEF Avoids
<1>1. q[i] \in Steps /\ q[i][1] \notin O
  OBVIOUS
<1> QED
  BY <1>1 DEF Avoids, Else

LEMMA ElseShort ==
  ASSUME NEW O, NEW x \in Steps, NEW y \in Steps, NEW z \in Steps
  PROVE  /\ x[1] \in O => << x >> \in Seq(Steps) /\ Avoids(<< x >>, Else(O))
         /\ x[1] \in O /\ y[1] \in O => << x, y >> \in Seq(Steps) /\ Avoids(<< x, y >>, Else(O))
         /\ x[1] \in O /\ y[1] \in O /\ z[1] \in O =>
              << x, y, z >> \in Seq(Steps) /\ Avoids(<< x, y, z >>, Else(O))
<1>1. \A u \in Steps : u[1] \in O => u \notin Else(O)
  BY DEF Else
<1> QED
  BY <1>1, AvoidShort

LEMMA SetOps ==
  /\ \A s \in Streams : /\ \A x \in Breaks(s) : x[1] \in {"halt", "restart", "type", "select"}
                        /\ \A x \in StartOf(s) : x[1] \in {"begin", "bind"}
  /\ \A x \in PortsSet : x[1] = "ports"
  /\ \A op \in Alone : Only(op)[1] = op /\ Only(op) \in Steps
  /\ Told[1] = "answer" /\ Error[1] = "answer" /\ Okay[1] = "answer"
  /\ Told \in Steps /\ Error \in Steps /\ Okay \in Steps
  /\ Told # Error /\ Told # Okay /\ Okay # Error
<1>1. \A op \in Alone : Only(op)[1] = op /\ Only(op) \in Steps
  BY AreSteps DEF Only
<1>2. Told \in Steps /\ Error \in Steps /\ Okay \in Steps
  BY AreSteps DEF Told, Error, Okay
<1> QED
  BY <1>1, <1>2 DEF Breaks, StartOf, PortsSet, Told, Error, Okay

LEMMA ShortEnds ==
  ASSUME NEW x, NEW y, NEW z, NEW c, NEW E, NEW D
  PROVE  /\ y \in E => Ends(<< x, y >>, c, E, D)
         /\ z \in E => Ends(<< x, y, z >>, c, E, D)
         /\ y \in E /\ z \notin D => Ends(<< x, y, z >>, c, E, D)
         /\ x \in E /\ y \notin D => Ends(<< x, y >>, c, E, D)
         /\ x \in E /\ y \notin D /\ z \notin D => Ends(<< x, y, z >>, c, E, D)
<1> DEFINE G == {}
<1>1. Ends(<< x, y >>, c, E, D) <=> y \in E \/ ((x \in E \/ (c /\ x \notin D)) /\ y \notin D)
  <2>1. Due(<< x, y >>, c, E, D, G) \/ ~Due(<< x, y >>, c, E, D, G)
    OBVIOUS
  <2> HIDE DEF G
  <2> QED
    BY <2>1, PairIs
<1> DEFINE q == << x, y, z >>
<1>2. /\ Len(q) = 3 /\ q[1] = x /\ q[2] = y /\ q[3] = z
      /\ 1 .. (3 + 1) - 1 = {1, 2, 3} /\ 1 + 1 .. (3 + 1) - 1 = {2, 3} /\ 2 + 1 .. (3 + 1) - 1 = {3}
      /\ 3 + 1 .. (3 + 1) - 1 = {}
  OBVIOUS
<1> HIDE DEF q
<1>3. Ends(q, c, E, D) <=>
        z \in E \/ ((y \in E \/ ((x \in E \/ (c /\ x \notin D)) /\ y \notin D)) /\ z \notin D)
  BY <1>2 DEF Ends, Holds
<1> QED
  BY <1>1, <1>3 DEF q

StartOps == {"type", "restart", "begin"}

LEMMA StartIs ==
  ASSUME NEW type
  PROVE  /\ Start(type) \in Seq(Steps) /\ Avoids(Start(type), Else(StartOps))
         /\ type # 103 => /\ \A c : Ends(Start(type), c, Ceases, PortsSet) /\ Ends(Start(type), c, Controls, {})
                          /\ \A c : Ends(Start(type), c, StartOf("realtime"), Breaks("realtime"))
         /\ type = 103 => /\ \A c : Ends(Start(type), c, StartOf("buffered"), Breaks("buffered"))
                          /\ Avoids(Start(type), Breaks("buffered"))
         /\ StartBuffered \in Seq(Steps) /\ Avoids(StartBuffered, Else(StartOps))
<1> DEFINE r == << "type", "realtime" >>
           e == << "restart", "realtime" >>
           b == << "begin", "realtime" >>
           u == << "type", "buffered" >>
           v == << "begin", "buffered" >>
<1>1. /\ StartRealtime = << r, e, b >> /\ StartBuffered = << u, v >>
      /\ r \in Steps /\ e \in Steps /\ b \in Steps /\ u \in Steps /\ v \in Steps
  BY AreSteps DEF StartRealtime, StartBuffered, OnStream, Streams
<1>2. Start(type) = IF type = 103 THEN << u >> \o << u, v >> ELSE << r >> \o << r, e, b >>
  BY <1>1 DEF Start, StreamOfType
<1>3. /\ r[1] \in StartOps /\ e[1] \in StartOps /\ b[1] \in StartOps /\ u[1] \in StartOps /\ v[1] \in StartOps
  BY DEF StartOps
<1>4. /\ e \in Ceases /\ b \notin PortsSet /\ b \in Controls /\ b \in StartOf("realtime")
      /\ v \in StartOf("buffered") /\ u \notin Breaks("buffered") /\ v \notin Breaks("buffered")
  BY DEF Ceases, PortsSet, Controls, StartOf, Breaks, Other
<1> HIDE DEF r, e, b, u, v
<1>5. /\ << r >> \in Seq(Steps) /\ << r, e, b >> \in Seq(Steps) /\ << u >> \in Seq(Steps) /\ << u, v >> \in Seq(Steps)
      /\ Avoids(<< r >>, Else(StartOps)) /\ Avoids(<< r, e, b >>, Else(StartOps))
      /\ Avoids(<< u >>, Else(StartOps)) /\ Avoids(<< u, v >>, Else(StartOps))
  BY <1>1, <1>3, ElseShort
<1>6. /\ Start(type) \in Seq(Steps) /\ Avoids(Start(type), Else(StartOps))
      /\ StartBuffered \in Seq(Steps) /\ Avoids(StartBuffered, Else(StartOps))
  <2>1. << r >> \o << r, e, b >> \in Seq(Steps) /\ << u >> \o << u, v >> \in Seq(Steps)
    BY <1>5, Joined
  <2>2. Avoids(<< r >> \o << r, e, b >>, Else(StartOps)) /\ Avoids(<< u >> \o << u, v >>, Else(StartOps))
    BY <1>5, AvoidsJoined
  <2> QED
    BY <1>1, <1>2, <1>5, <2>1, <2>2
<1>7. ASSUME NEW c
      PROVE  /\ Ends(<< r >> \o << r, e, b >>, c, Ceases, PortsSet)
             /\ Ends(<< r >> \o << r, e, b >>, c, Controls, {})
             /\ Ends(<< r >> \o << r, e, b >>, c, StartOf("realtime"), Breaks("realtime"))
             /\ Ends(<< u >> \o << u, v >>, c, StartOf("buffered"), Breaks("buffered"))
  <2> DEFINE f == FALSE
             T == StartOf("realtime")
             K == Breaks("realtime")
             U == StartOf("buffered")
             V == Breaks("buffered")
             N == {}
  <2>1. e \in Ceases /\ b \notin PortsSet /\ b \in Controls /\ b \in T /\ v \in U
    BY <1>4
  <2> HIDE DEF f, T, K, U, V, N
  <2>2. /\ Ends(<< r, e, b >>, f, Ceases, PortsSet)
        /\ Ends(<< r, e, b >>, f, Controls, N)
        /\ Ends(<< r, e, b >>, f, T, K)
    BY <2>1, ShortEnds
  <2>3. Ends(<< u, v >>, f, U, V)
    BY <2>1, ShortEnds
  <2> QED
    BY <1>5, <2>2, <2>3, EndsJoined DEF f, T, K, U, V, N
<1>8. Avoids(<< u >> \o << u, v >>, Breaks("buffered"))
  <2>1. Avoids(<< u >>, Breaks("buffered")) /\ Avoids(<< u, v >>, Breaks("buffered"))
    BY <1>4, AvoidShort
  <2> QED
    BY <1>5, <2>1, AvoidsJoined
<1> QED
  BY <1>2, <1>6, <1>7, <1>8

(* A request that leaves the streams as they are. *)
Calm == {"play", "hold", "pause", "unpause", "answer"}

LEMMA CalmRequest ==
  ASSUME Types, OrderlyInv, todo = << >>, Served, plan' = plan, conn' = conn, receiver' = receiver,
         promise' = promise, todo' \in Seq(Steps), Avoids(todo', Else(Calm)), Avoids(todo', {Error})
  PROVE  /\ Answering' /\ Keyed' /\ Codec' /\ Runs(S)'
         /\ (S = "buffered" => BufferedFits)' /\ (S = "realtime" => RealtimeFits)'
<1>1. /\ Promised /\ CurrentKey /\ decoder /\ running[S]
      /\ S = "buffered" => port["buffered"] = conn.buffered_port
      /\ S = "realtime" => PortFits /\ ControlRuns
  BY AtRest
<1>2. /\ stream' = stream /\ running' = running /\ port' = port /\ task' = task
      /\ decoder' = decoder /\ key' = key /\ playing' = playing /\ S' = S
  BY DEF receiver, S
<1>3. Len(todo') \in Nat /\ S \in Streams /\ "realtime" \in Streams /\ "buffered" \in Streams
  BY DEF S, StreamOfType, Streams
<1>4. ASSUME NEW c, NEW E, NEW D, c, \A x \in D : x[1] \notin Calm PROVE Ends(todo', c, E, D)
  BY <1>3, <1>4, ElseIs, EndsAvoid
<1>5. Answering'
  <2> DEFINE c == Promised'
             E == {Told}
             D == {Error, Only("free"), << "ports", "realtime" >>, Only("bufferedport")}
             K == {Only("free"), << "ports", "realtime" >>, Only("bufferedport")}
  <2>1. c
    BY <1>1, <1>2 DEF Promised, Asked
  <2>2. \A x \in K : x[1] \notin Calm
    BY SetOps DEF Alone, Calm
  <2>3. D = K \cup {Error}
    OBVIOUS
  <2>4. Answering' <=> Ends(todo', c, E, D)
    BY DEF Answering
  <2> HIDE DEF c, E, D, K
  <2>5. Avoids(todo', K)
    BY <2>2, ElseIs
  <2>6. Avoids(todo', D)
    BY <2>3, <2>5 DEF Avoids
  <2> QED
    BY <1>3, <2>1, <2>4, <2>6, EndsAvoid
<1>6. Keyed'
  <2> DEFINE c == CurrentKey'
             E == {<< "key", "current" >>}
             D == {<< "key", "session" >>, Only("clear")}
  <2>1. c
    BY <1>1, <1>2 DEF CurrentKey
  <2>2. \A x \in D : x[1] \notin Calm
    BY SetOps DEF Alone, Calm
  <2>3. Keyed' <=> Ends(todo', c, E, D)
    BY DEF Keyed
  <2> HIDE DEF c, E, D
  <2> QED
    BY <1>4, <2>1, <2>2, <2>3
<1>7. Codec'
  <2> DEFINE c == decoder'
             E == {Only("format")}
             D == {Only("clear")}
  <2>1. c
    BY <1>1, <1>2
  <2>2. \A x \in D : x[1] \notin Calm
    BY SetOps DEF Alone, Calm
  <2>3. Codec' <=> Ends(todo', c, E, D)
    BY DEF Codec
  <2> HIDE DEF c, E, D
  <2> QED
    BY <1>4, <2>1, <2>2, <2>3
<1>8. \A s \in Streams : \A x \in Breaks(s) : x[1] \notin Calm
  BY SetOps DEF Calm
<1>9. Runs(S)'
  <2>1. running'[S']
    BY <1>1, <1>2
  <2>2. \A x \in Breaks(S') : x[1] \notin Calm
    BY <1>2, <1>3, <1>8
  <2>3. Runs(S)' <=> Ends(todo', running'[S'], StartOf(S'), Breaks(S'))
    BY DEF Runs, StartOf, Breaks
  <2> QED
    BY <1>4, <2>1, <2>2, <2>3
<1>10. ASSUME S' = "buffered" PROVE BufferedFits'
  <2> DEFINE c == running'["buffered"] /\ port'["buffered"] = conn'.buffered_port
             E == {Only("bufferedport")}
             D == Breaks("buffered")
  <2>1. c
    BY <1>1, <1>2, <1>10
  <2>2. \A x \in D : x[1] \notin Calm
    BY <1>3, <1>8
  <2>3. BufferedFits' <=> Ends(todo', c, E, D)
    BY DEF BufferedFits, Breaks
  <2> HIDE DEF c, E, D
  <2> QED
    BY <1>4, <2>1, <2>2, <2>3
<1>11. ASSUME S' = "realtime" PROVE RealtimeFits'
  <2>1. PortFits' /\ ControlRuns'
    BY <1>1, <1>2, <1>11 DEF PortFits, ControlRuns
  <2>2. PortsReady'
    <3> DEFINE G == StartOf("realtime")
    <3>1. \A x \in G : x[1] \notin Calm
      BY <1>3, SetOps DEF Calm
    <3>2. Avoids(todo', G)
      <4> HIDE DEF G
      <4> QED
        BY <3>1, ElseIs
    <3>3. PortsReady' <=> Due(todo', HasPorts', PortsSet, {}, G)
      BY DEF PortsReady, PortsSet, StartOf
    <3> QED
      BY <3>2, <3>3, DueAvoid
  <2>3. PortIsTold'
    <3> DEFINE c == PortFits'
    <3>1. \A x \in PortsSet : x[1] \notin Calm
      BY SetOps DEF Calm
    <3>2. PortIsTold' <=> Ends(todo', c, Ceases, PortsSet)
      BY DEF PortIsTold, Ceases, PortsSet
    <3>3. c
      BY <2>1
    <3> HIDE DEF c
    <3> QED
      BY <1>4, <3>1, <3>2, <3>3
  <2>4. Controlled'
    <3> DEFINE c == ControlRuns'
               N == {}
    <3>1. \A x \in N : x[1] \notin Calm
      OBVIOUS
    <3>2. Controlled' <=> Ends(todo', c, Controls, N)
      BY DEF Controlled, Controls, Ceases, StartOf
    <3>3. c
      BY <2>1
    <3> HIDE DEF c, N
    <3> QED
      BY <1>4, <3>1, <3>2, <3>3
  <2> QED
    BY <2>2, <2>3, <2>4 DEF RealtimeFits
<1> QED
  BY <1>5, <1>6, <1>7, <1>9, <1>10, <1>11

FallibleOps == {"begin", "bind", "create", "ntp", "event"}

LEMMA NoneFails ==
  ASSUME NEW q \in Seq(Steps), NEW O, Avoids(q, Else(O)), Avoids(q, {Error}),
         \A op \in FallibleOps : op \notin O
  PROVE  Avoids(q, Fallible) /\ ("format" \notin O => Avoids(q, Fallible \cup {Only("format")}))
<1> DEFINE K == {x \in Fallible : x # Error}
<1>1. \A x \in K : x[1] \notin O
  <2>1. \A x \in K : x[1] \in FallibleOps
    BY FallibleIs DEF FallibleOps
  <2> QED
    BY <2>1
<1>2. Avoids(q, K)
  <2> HIDE DEF K
  <2> QED
    BY <1>1, ElseIs
<1>3. Avoids(q, Fallible)
  BY <1>2 DEF Avoids
<1>4. "format" \notin O => Avoids(q, {Only("format")})
  <2> DEFINE D == {Only("format")}
  <2>1. "format" \notin O => \A x \in D : x[1] \notin O
    BY SetOps DEF Alone
  <2> HIDE DEF D
  <2>2. "format" \notin O => Avoids(q, D)
    BY <2>1, ElseIs
  <2> QED
    BY <2>2 DEF D
<1> QED
  BY <1>3, <1>4 DEF Avoids

(* The request is the last word: what every one of them has to show. *)
LEMMA RequestParts ==
  ASSUME OrderlyInv, todo = << >>, plan' = plan, promise' = promise, task' = task, todo' \in Seq(Steps)
  PROVE  /\ DecodesPromised'
         /\ Avoids(todo', {Only("free")}) \/ sender' = "new" => Leaving'
         /\ sender' # "paused" \/ Avoids(todo', Fallible) => PausedInPeace'
         /\ Avoids(todo', Fallible \cup {Only("format")}) => Unpromised'
         /\ ~Served /\ Avoids(todo', {Told}) => Unpromised' /\ Withdrawn'
<1>1. DecodesPromised'
  BY AtRest DEF DecodesPromised
<1>2. Avoids(todo', {Only("free")}) => Leaving'
  BY DueAvoid DEF Leaving
<1>3. sender' = "new" => Leaving'
  <2> DEFINE c == sender' = "new"
             N == {}
             G == {Only("free")}
  <2>1. Avoids(todo', N)
    BY DEF Avoids
  <2>2. Leaving' <=> Due(todo', c, N, N, G)
    BY DEF Leaving
  <2> HIDE DEF c, N, G
  <2>3. c => Leaving'
    BY <2>1, <2>2, DueSafe
  <2> QED
    BY <2>3 DEF c
<1>4. sender' # "paused" \/ Avoids(todo', Fallible) => PausedInPeace'
  BY DueAvoid DEF PausedInPeace, Fallible
<1>5. Avoids(todo', Fallible \cup {Only("format")}) => Unpromised'
  BY DueAvoid DEF Unpromised, Fallible
<1>6. ASSUME ~Served, Avoids(todo', {Told}) PROVE Unpromised' /\ Withdrawn'
  <2> DEFINE c == promise' = Nothing
             N == {}
             D == {Told}
             G == Fallible \cup {Only("format")}
             W == Withdraws'
  <2>1. c /\ Avoids(todo', D) /\ Len(todo') \in Nat
    BY <1>6, AtRest
  <2>2. Unpromised' <=> Due(todo', c, N, D, G)
    BY DEF Unpromised, Fallible
  <2>3. Ends(todo', c, W, D) => Withdrawn'
    BY DEF Withdrawn
  <2> HIDE DEF c, N, D, G, W
  <2> QED
    BY <2>1, <2>2, <2>3, DueSafe, EndsAvoid
<1> QED
  BY <1>1, <1>2, <1>3, <1>4, <1>5, <1>6

LEMMA PlayOrHold ==
  ASSUME Types, OrderlyInv, todo = << >>, Served, plan' = plan, conn' = conn, receiver' = receiver,
         promise' = promise, NEW x \in Steps, NEW y \in Steps, todo' = << x, y, Okay >>,
         \/ plan.protocol = 2 /\ sender' = "streaming" /\ x = Only("unpause") /\ y = Only("play")
         \/ plan.protocol = 2 /\ sender' = "paused" /\ x = Only("pause") /\ y = Only("hold")
         \/ sender' = "paused" /\ x = Only("hold") /\ y = Only("pause")
  PROVE  OrderlyInv'
<1>1. x[1] \in Calm /\ y[1] \in Calm /\ Okay[1] \in Calm /\ x \in Steps /\ y \in Steps /\ Okay \in Steps
  BY SetOps DEF Calm, Alone
<1>2. x # Error /\ y # Error /\ Okay # Error
  BY SetOps DEF Alone, Only, Error
<1> DEFINE q == << x, y, Okay >>
<1>3. q \in Seq(Steps) /\ Avoids(q, Else(Calm))
  BY <1>1, ElseShort
<1>4. Avoids(q, {Error})
  BY <1>2, AvoidShort
<1> HIDE DEF q
<1>5. todo' = q
  BY DEF q
<1>6. Avoids(q, Fallible) /\ Avoids(q, Fallible \cup {Only("format")})
  BY <1>3, <1>4, NoneFails DEF FallibleOps, Calm
<1>7. Avoids(q, {Only("free")})
  <2> DEFINE D == {Only("free")}
  <2>1. \A u \in D : u[1] \notin Calm
    BY SetOps DEF Alone, Calm
  <2> HIDE DEF D
  <2>2. Avoids(q, D)
    BY <1>3, <2>1, ElseIs
  <2> QED
    BY <2>2 DEF D
<1>8. task' = task
  BY DEF receiver
<1>9. Leaving' /\ Unpromised' /\ DecodesPromised' /\ PausedInPeace'
  BY <1>3, <1>5, <1>6, <1>7, <1>8, RequestParts
<1>10. Served' /\ Withdrawn'
  BY DEF Served, Withdrawn
<1>11. (Playing' /\ sender' = "streaming") \/ (Holding' /\ sender' = "paused")
  <2> DEFINE P == {Only("play")}
             H == {Only("hold")}
             c == playing'
             e == ~playing'
  <2>1. \A a, b : Only(a) = Only(b) <=> a = b
    BY DEF Only
  <2>2. \A op \in Alone : Only(op) # Okay
    BY SetOps DEF Alone
  <2>3. (Playing' <=> Ends(todo', c, P, H)) /\ (Holding' <=> Ends(todo', e, H, P))
    BY DEF Playing, Holding
  <2>4. CASE x = Only("unpause") /\ y = Only("play") /\ sender' = "streaming"
    <3>1. y \in P /\ Okay \notin H
      BY <2>2, <2>4 DEF Alone
    <3> HIDE DEF P, H, c, e
    <3> QED
      BY <2>3, <2>4, <3>1, ShortEnds
  <2>5. CASE x = Only("pause") /\ y = Only("hold") /\ sender' = "paused"
    <3>1. y \in H /\ Okay \notin P
      BY <2>2, <2>5 DEF Alone
    <3> HIDE DEF P, H, c, e
    <3> QED
      BY <2>3, <2>5, <3>1, ShortEnds
  <2>6. CASE x = Only("hold") /\ y = Only("pause") /\ sender' = "paused"
    <3>1. x \in H /\ y \notin P /\ Okay \notin P
      BY <2>1, <2>2, <2>6 DEF Alone
    <3> HIDE DEF P, H, c, e
    <3> QED
      BY <2>3, <2>6, <3>1, ShortEnds
  <2> QED
    BY <2>4, <2>5, <2>6
<1>12. Heard'
  <2>1. /\ Answering' /\ Keyed' /\ Codec' /\ Runs(S)'
        /\ (S = "buffered" => BufferedFits)' /\ (S = "realtime" => RealtimeFits)'
    BY <1>3, <1>4, <1>5, CalmRequest
  <2> QED
    BY <1>11, <2>1 DEF Heard
<1>13. AirPlay1'
  <2> SUFFICES ASSUME plan.protocol = 1 PROVE AirPlay1'
    BY DEF AirPlay1
  <2>1. sender' = "paused" /\ x = Only("hold") /\ y = Only("pause")
    BY DEF Types, Scenario
  <2>2. conn.stream_type = 96
    BY AtRest DEF Served
  <2>3. PausedAtEnd'
    <3> DEFINE c == conn'.paused
               E == {Only("pause")}
               D == {Only("unpause")}
    <3>1. y \in E /\ Okay \notin D
      BY <2>1 DEF Only, Okay
    <3>2. PausedAtEnd' <=> Ends(todo', c, E, D)
      BY DEF PausedAtEnd
    <3> HIDE DEF c, E, D
    <3> QED
      BY <3>1, <3>2, ShortEnds
  <2>4. Going'
    BY <1>5, <1>6, DueAvoid DEF Going, Fallible
  <2> QED
    BY <2>1, <2>2, <2>3, <2>4 DEF AirPlay1
<1> QED
  BY <1>9, <1>10, <1>12, <1>13 DEF OrderlyInv

(* TEARDOWN, and the loss of the connection. *)
LEMMA StopRequest ==
  ASSUME Types, OrderlyInv, todo = << >>, plan' = plan, conn' = conn, receiver' = receiver,
         promise' = promise, NEW x \in Steps, NEW y \in Steps, todo' = ReceiverStop \o << x, y >>,
         \/ sender' = "ended" /\ x = Only("unpause") /\ y = Okay
         \/ plan.protocol = 2 /\ sender' = "torn" /\ x = Only("pause") /\ y = Okay
         \/ sender' = "new" /\ x = Only("eventstop") /\ y = Only("free")
  PROVE  OrderlyInv'
<1> DEFINE q == << x, y >>
           f == FALSE
<1>1. ReceiverStop \in Seq(Steps) /\ q \in Seq(Steps)
  BY ReceiverStopIs
<1>2. todo' \in Seq(Steps) /\ todo' = ReceiverStop \o q
  BY <1>1, Joined
<1>3. /\ \A op \in Alone : Only(op)[1] = op
      /\ Okay[1] = "answer"
      /\ \A a, b : Only(a) = Only(b) <=> a = b
  BY SetOps DEF Only
<1> HIDE DEF q, f
<1>4. ASSUME NEW D, x \notin D, y \notin D, Only("clear") \notin D,
             \A u \in D : u[1] \notin {"halt", "close", "join"}
      PROVE  Avoids(todo', D)
  <2>1. Avoids(ReceiverStop, D)
    <3>1. \A s \in Streams : << "halt", s >> \notin D /\ << "close", s >> \notin D /\ << "join", s >> \notin D
      BY <1>4
    <3> QED
      BY <1>4, <3>1, ReceiverStopIs
  <2>2. Avoids(q, D)
    BY <1>4, AvoidShort DEF q
  <2> QED
    BY <1>1, <1>2, <2>1, <2>2, AvoidsJoined
<1>5. Avoids(todo', Fallible \cup {Only("format")})
  <2> DEFINE D == Fallible \cup {Only("format")}
  <2>1. \A u \in D : u[1] \in {"begin", "bind", "create", "ntp", "event", "format"} \/ u = Error
    BY <1>3, FallibleIs DEF Alone
  <2>2. Error[1] = "answer" /\ Okay # Error
    BY SetOps
  <2>3. x \notin D /\ y \notin D /\ Only("clear") \notin D /\ \A u \in D : u[1] \notin {"halt", "close", "join"}
    <3> HIDE DEF D
    <3>1. Only("clear")[1] = "clear"
      BY <1>3 DEF Alone
    <3>2. x[1] \in {"unpause", "pause", "eventstop"} /\ (y = Okay \/ y[1] = "free")
      BY <1>3 DEF Alone
    <3> QED
      BY <1>3, <2>1, <2>2, <3>1, <3>2
  <2> HIDE DEF D
  <2>4. Avoids(todo', D)
    BY <1>4, <2>3
  <2> QED
    BY <2>4 DEF D
<1>6. Avoids(todo', Fallible)
  BY <1>5 DEF Avoids
<1>7. sender' # "new" => Avoids(todo', {Only("free")})
  <2> SUFFICES ASSUME sender' # "new" PROVE Avoids(todo', {Only("free")})
    OBVIOUS
  <2> DEFINE D == {Only("free")}
  <2>1. x \notin D /\ y \notin D /\ Only("clear") \notin D /\ \A u \in D : u[1] \notin {"halt", "close", "join"}
    BY <1>3 DEF Alone
  <2> HIDE DEF D
  <2>2. Avoids(todo', D)
    BY <1>4, <2>1
  <2> QED
    BY <2>2 DEF D
<1>8. task' = task
  BY DEF receiver
<1>9. Leaving' /\ Unpromised' /\ DecodesPromised' /\ PausedInPeace'
  BY <1>2, <1>5, <1>6, <1>7, <1>8, RequestParts
<1>10. Withdrawn'
  <2> DEFINE c == promise' = Nothing
             W == Withdraws'
             D == {Told}
  <2>1. y \in W
    BY DEF Withdraws
  <2>2. Ends(todo', c, W, D) => Withdrawn'
    BY DEF Withdrawn
  <2> HIDE DEF c, W, D
  <2>3. Ends(q, f, W, D)
    BY <2>1, ShortEnds DEF q
  <2>4. Ends(todo', c, W, D)
    BY <1>1, <1>2, <2>3, EndsJoined DEF f
  <2> QED
    BY <2>2, <2>4
<1>11. Heard'
  BY DEF Heard, Served
<1>12. AirPlay1'
  <2> SUFFICES ASSUME plan.protocol = 1 PROVE AirPlay1'
    BY DEF AirPlay1
  <2>1. conn.stream_type \in {0, 96}
    BY AtRest
  <2>2. Going'
    BY <1>6, DueAvoid DEF Going, Fallible
  <2>3. GoingAtEnd'
    <3> DEFINE c == ~conn'.paused
               E == {Only("unpause"), Only("free")}
               D == {Only("pause")}
    <3>1. Okay # Only("pause")
      BY <1>3 DEF Alone
    <3>2. y \in E \/ (x \in E /\ y \notin D)
      BY <3>1
    <3>3. GoingAtEnd' <=> Ends(todo', c, E, D)
      BY DEF GoingAtEnd
    <3> HIDE DEF c, E, D
    <3>4. Ends(q, f, E, D)
      BY <3>2, ShortEnds DEF q
    <3>5. Ends(todo', c, E, D)
      BY <1>1, <1>2, <3>4, EndsJoined DEF f
    <3> QED
      BY <3>3, <3>5
  <2> QED
    BY <2>1, <2>2, <2>3 DEF AirPlay1
<1> QED
  BY <1>9, <1>10, <1>11, <1>12 DEF OrderlyInv

(* ANNOUNCE and the first SETUP of AirPlay 1 leave the connection unpaused. *)
LEMMA UnpausedRequest ==
  ASSUME OrderlyInv, todo = << >>, plan.protocol = 1, sender # "paused", conn'.paused = conn.paused,
         todo' \in Seq(Steps), Avoids(todo', {Only("pause")})
  PROVE  GoingAtEnd' /\ Going'
<1> DEFINE c == ~conn'.paused
           E == {Only("unpause"), Only("free")}
           D == {Only("pause")}
           N == {}
           G == Fallible
<1>1. c /\ Avoids(todo', D) /\ Len(todo') \in Nat
  BY AtRest
<1>2. GoingAtEnd' <=> Ends(todo', c, E, D)
  BY DEF GoingAtEnd
<1>3. Going' <=> Due(todo', c, N, D, G)
  BY DEF Going, Fallible
<1> HIDE DEF c, E, D, N, G
<1> QED
  BY <1>1, <1>2, <1>3, EndsAvoid, DueSafe

LEMMA AnnounceRequest ==
  ASSUME Types, OrderlyInv, plan.orderly, ANNOUNCE
  PROVE  OrderlyInv'
<1> DEFINE x == Only("format")
           y == << "key", "current" >>
           q == << x, y, Okay >>
           O == {"format", "key", "answer"}
<1>1. /\ plan.protocol = 1 /\ sender \in {"new", "ended"} /\ sender' = "announced" /\ todo = << >>
      /\ todo' = q /\ plan' = plan /\ conn' = conn /\ promise' = promise /\ receiver' = receiver
  BY DEF ANNOUNCE, At, Receive, Only, Okay
<1>2. x \in Steps /\ y \in Steps /\ Okay \in Steps /\ x[1] \in O /\ y[1] \in O /\ Okay[1] \in O
  BY SetOps, AreSteps DEF Alone
<1>3. /\ \A op \in Alone : Only(op)[1] = op
      /\ Okay[1] = "answer" /\ Okay # Told
  BY SetOps
<1>4. /\ x \in {Only("format")} /\ y \notin {Only("clear")} /\ Okay \notin {Only("clear")}
      /\ y \in {<< "key", "current" >>} /\ Okay \notin {<< "key", "session" >>, Only("clear")}
      /\ x # Told /\ y # Told
  BY DEF Only, Okay, Told
<1> HIDE DEF x, y, O
<1>5. q \in Seq(Steps) /\ Avoids(q, Else(O)) /\ Avoids(q, {Told})
  BY <1>2, <1>3, <1>4, ElseShort, AvoidShort
<1>6. Avoids(q, {Only("free")}) /\ Avoids(q, {Only("pause")})
  <2> DEFINE D == {Only("free")}
             K == {Only("pause")}
  <2>1. (\A u \in D : u[1] \notin O) /\ (\A u \in K : u[1] \notin O)
    BY <1>3 DEF Alone, O
  <2> HIDE DEF D, K, q
  <2>2. Avoids(q, D) /\ Avoids(q, K)
    BY <1>5, <2>1, ElseIs
  <2> QED
    BY <2>2 DEF D, K
<1>7. Keyed' /\ Codec'
  <2> DEFINE c == CurrentKey'
             E == {<< "key", "current" >>}
             D == {<< "key", "session" >>, Only("clear")}
             d == decoder'
             K == {Only("format")}
             L == {Only("clear")}
  <2>1. (Keyed' <=> Ends(todo', c, E, D)) /\ (Codec' <=> Ends(todo', d, K, L))
    BY DEF Keyed, Codec
  <2>2. y \in E /\ Okay \notin D /\ x \in K /\ y \notin L /\ Okay \notin L
    BY <1>4
  <2> HIDE DEF c, E, D, d, K, L
  <2>3. Ends(q, c, E, D)
    BY <2>2, ShortEnds
  <2>4. Ends(q, d, K, L)
    BY <2>2, ShortEnds
  <2> QED
    BY <1>1, <2>1, <2>3, <2>4
<1> HIDE DEF q
<1>8. ~Served /\ ~Served' /\ task' = task
  BY <1>1 DEF Served, receiver
<1>9. Leaving' /\ Unpromised' /\ Withdrawn' /\ DecodesPromised' /\ PausedInPeace'
  BY <1>1, <1>5, <1>6, <1>8, RequestParts
<1>10. GoingAtEnd' /\ Going'
  BY <1>1, <1>5, <1>6, UnpausedRequest
<1>11. AirPlay1'
  BY <1>1, <1>7, <1>10, AtRest DEF AirPlay1
<1> QED
  BY <1>8, <1>9, <1>11 DEF OrderlyInv, Heard

LEMMA SetupRequest1 ==
  ASSUME Types, OrderlyInv, plan.orderly, SETUP1
  PROVE  OrderlyInv'
<1> DEFINE a == Only("ntp")
           b == << "ports", "realtime" >>
           e == Only("format")
           f == << "type", "realtime" >>
           q == << a, b, e, f, Okay >>
           O == {"ntp", "ports", "format", "type", "answer"}
<1>1. /\ plan.protocol = 1 /\ sender = "announced" /\ sender' = "setup" /\ todo = << >>
      /\ todo' = q /\ plan' = plan /\ conn' = [conn EXCEPT !.stream_type = 96]
      /\ promise' = promise /\ receiver' = receiver
  BY DEF SETUP1, At, Receive, Only, Okay
<1>2. /\ a \in Steps /\ b \in Steps /\ e \in Steps /\ f \in Steps /\ Okay \in Steps
      /\ a[1] \in O /\ b[1] \in O /\ e[1] \in O /\ f[1] \in O /\ Okay[1] \in O
  BY SetOps, AreSteps DEF Alone, OnStream, Streams
<1>3. /\ \A op \in Alone : Only(op)[1] = op
      /\ Okay[1] = "answer" /\ Okay # Told
  BY SetOps
<1>4. a # Told /\ b # Told /\ e # Told /\ f # Told /\ b \in PortsSet
  BY DEF Only, Told, PortsSet
<1> HIDE DEF a, b, e, f, O
<1>5. q \in Seq(Steps) /\ Len(q) = 5 /\ q[1] = a /\ q[2] = b /\ q[3] = e /\ q[4] = f /\ q[5] = Okay
      /\ 1 .. 5 = {1, 2, 3, 4, 5}
  BY <1>2
<1> HIDE DEF q
<1>6. Avoids(q, Else(O)) /\ Avoids(q, {Told})
  BY <1>2, <1>3, <1>4, <1>5 DEF Avoids, Else
<1>7. ASSUME NEW op \in Alone, op \notin O PROVE Avoids(q, {Only(op)})
  <2> DEFINE D == {Only(op)}
  <2>1. \A u \in D : u[1] \notin O
    BY <1>3, <1>7
  <2> HIDE DEF D
  <2>2. Avoids(q, D)
    BY <1>5, <1>6, <2>1, ElseIs
  <2> QED
    BY <2>2 DEF D
<1>8. Avoids(q, {Only("free")}) /\ Avoids(q, {Only("pause")}) /\ Avoids(q, {Only("clear")})
  BY <1>7 DEF Alone, O
<1>9. /\ CurrentKey /\ decoder /\ key' = key /\ decoder' = decoder /\ task' = task
      /\ conn'.paused = conn.paused /\ conn'.stream_type = 96
  BY <1>1, AtRest DEF receiver, Types, Conn
<1>10. Keyed' /\ Codec' /\ HasPortsAtEnd'
  <2> DEFINE c == CurrentKey'
             E == {<< "key", "current" >>}
             D == {<< "key", "session" >>, Only("clear")}
             d == decoder'
             K == {Only("format")}
             L == {Only("clear")}
             h == HasPorts'
             N == {}
  <2>1. /\ Keyed' <=> Ends(todo', c, E, D)
        /\ Codec' <=> Ends(todo', d, K, L)
        /\ HasPortsAtEnd' <=> Ends(todo', h, PortsSet, N)
    BY DEF Keyed, Codec, HasPortsAtEnd, PortsSet
  <2>2. c /\ d
    BY <1>9 DEF CurrentKey
  <2>3. \A u \in D : u[1] \notin O
    BY <1>3 DEF Alone, O
  <2>4. Avoids(q, L)
    BY <1>8
  <2> HIDE DEF c, E, D, d, K, L, h
  <2>5. Avoids(q, D)
    BY <1>5, <1>6, <2>3, ElseIs
  <2>8. Len(q) \in Nat
    BY <1>5
  <2>6. Ends(q, c, E, D) /\ Ends(q, d, K, L)
    BY <2>2, <2>4, <2>5, <2>8, EndsAvoid
  <2>7. Ends(q, h, PortsSet, N)
    BY <1>4, <1>5 DEF Ends, Holds
  <2> QED
    BY <1>1, <2>1, <2>6, <2>7
<1>11. ~Served /\ ~Served'
  BY <1>1 DEF Served
<1>12. Leaving' /\ Unpromised' /\ Withdrawn' /\ DecodesPromised' /\ PausedInPeace'
  BY <1>1, <1>5, <1>6, <1>8, <1>9, <1>11, RequestParts
<1>13. GoingAtEnd' /\ Going'
  BY <1>1, <1>5, <1>8, <1>9, UnpausedRequest
<1>14. AirPlay1'
  BY <1>1, <1>9, <1>10, <1>13 DEF AirPlay1
<1> QED
  BY <1>11, <1>12, <1>14 DEF OrderlyInv, Heard

LEMMA SetupRequest2 ==
  ASSUME Types, OrderlyInv, plan.orderly, SETUP2
  PROVE  OrderlyInv'
<1> DEFINE x == << "key", "session" >>
           y == Only("event")
           q == << x >> \o << y >> \o << Okay >>
           O == {"key", "event", "answer"}
<1>1. /\ plan.protocol = 2 /\ sender \in {"new", "ended"} /\ sender' = "setup" /\ todo = << >>
      /\ todo' = q /\ plan' = plan /\ promise' = promise /\ receiver' = receiver
  BY DEF SETUP2, At, Receive, Only, Okay, StreamKey, NeedEventPort
<1>2. x \in Steps /\ y \in Steps /\ Okay \in Steps /\ x[1] \in O /\ y[1] \in O /\ Okay[1] \in O
  BY SetOps, AreSteps DEF Alone
<1>3. x # Told /\ y # Told /\ Okay # Told
  BY DEF Only, Told, Okay
<1>4. Only("free")[1] \notin O
  BY DEF Only
<1> HIDE DEF x, y, O
<1>5. /\ << x >> \in Seq(Steps) /\ << y >> \in Seq(Steps) /\ << Okay >> \in Seq(Steps)
      /\ Avoids(<< x >>, Else(O)) /\ Avoids(<< y >>, Else(O)) /\ Avoids(<< Okay >>, Else(O))
      /\ Avoids(<< x >>, {Told}) /\ Avoids(<< y >>, {Told}) /\ Avoids(<< Okay >>, {Told})
  BY <1>2, <1>3, ElseShort, AvoidShort
<1>6. << x >> \o << y >> \in Seq(Steps) /\ q \in Seq(Steps)
  BY <1>5, Joined
<1>7. Avoids(q, Else(O)) /\ Avoids(q, {Told})
  <2>1. Avoids(<< x >> \o << y >>, Else(O)) /\ Avoids(<< x >> \o << y >>, {Told})
    BY <1>5, AvoidsJoined
  <2> QED
    BY <1>5, <1>6, <2>1, AvoidsJoined
<1> HIDE DEF q
<1>8. Avoids(q, {Only("free")})
  <2> DEFINE D == {Only("free")}
  <2>1. \A u \in D : u[1] \notin O
    BY <1>4
  <2> HIDE DEF D
  <2>2. Avoids(q, D)
    BY <1>6, <1>7, <2>1, ElseIs
  <2> QED
    BY <2>2 DEF D
<1>9. ~Served /\ ~Served' /\ task' = task
  BY <1>1 DEF Served, receiver
<1>10. Leaving' /\ Unpromised' /\ Withdrawn' /\ DecodesPromised' /\ PausedInPeace'
  BY <1>1, <1>6, <1>7, <1>8, <1>9, RequestParts
<1> QED
  BY <1>1, <1>9, <1>10 DEF OrderlyInv, Heard, AirPlay1

(* What ends RECORD, and a SETUP with streams. *)
LEMMA LastSteps ==
  ASSUME NEW x \in Steps, NEW y \in Steps, NEW z \in Steps, NEW q, q = << x, y, z >>,
         {x, y, z} = {Only("play"), Only("unpause"), Told}
  PROVE  /\ q \in Seq(Steps) /\ Avoids(q, Else(Calm)) /\ Avoids(q, {Error})
         /\ Avoids(q, Fallible) /\ Avoids(q, Fallible \cup {Only("format")})
<1>1. x[1] \in Calm /\ y[1] \in Calm /\ z[1] \in Calm
  BY SetOps DEF Calm, Alone
<1>2. x # Error /\ y # Error /\ z # Error
  BY SetOps DEF Alone
<1>3. q \in Seq(Steps) /\ Avoids(q, Else(Calm)) /\ Avoids(q, {Error})
  BY <1>1, <1>2, ElseShort, AvoidShort
<1>4. (\A op \in FallibleOps : op \notin Calm) /\ "format" \notin Calm
  BY DEF FallibleOps, Calm
<1> QED
  BY <1>3, <1>4, NoneFails

(* What comes before the last three steps decides whether the sender is heard. *)
LEMMA StartParts ==
  ASSUME NEW b \in Seq(Steps), NEW t, todo' = b \o t,
         \/ t = << Only("play"), Only("unpause"), Told >>
         \/ t = << Told, Only("play"), Only("unpause") >>,
         Ends(b, CurrentKey', {<< "key", "current" >>}, {<< "key", "session" >>, Only("clear")}),
         Ends(b, decoder', {Only("format")}, {Only("clear")}),
         Ends(b, running'[S'], StartOf(S'), Breaks(S')),
         S' = "buffered" => Ends(b, running'["buffered"] /\ port'["buffered"] = conn'.buffered_port,
                                 {Only("bufferedport")}, Breaks("buffered")),
         S' = "realtime" => /\ Due(b, HasPorts', PortsSet, {}, StartOf("realtime"))
                            /\ Ends(b, PortFits', Ceases, PortsSet)
                            /\ Ends(b, ControlRuns', Controls, {}),
         sender' = "streaming"
  PROVE  Heard'
<1>1. PICK x \in Steps, y \in Steps, z \in Steps :
        /\ t = << x, y, z >> /\ {x, y, z} = {Only("play"), Only("unpause"), Told}
        /\ \/ x = Only("play") /\ y = Only("unpause") /\ z = Told
           \/ x = Told /\ y = Only("play") /\ z = Only("unpause")
  <2>1. Only("play") \in Steps /\ Only("unpause") \in Steps /\ Told \in Steps
    BY SetOps DEF Alone
  <2>2. CASE t = << Only("play"), Only("unpause"), Told >>
    BY <2>1, <2>2
  <2>3. CASE t = << Told, Only("play"), Only("unpause") >>
    BY <2>1, <2>3
  <2> QED
    BY <2>2, <2>3
<1>2. t \in Seq(Steps) /\ Avoids(t, Else(Calm)) /\ S' \in Streams /\ "realtime" \in Streams
      /\ "buffered" \in Streams
  BY <1>1, LastSteps DEF S, StreamOfType, Streams
<1>3. /\ \A u, v : Only(u) = Only(v) <=> u = v
      /\ \A op \in Alone : Only(op)[1] = op /\ Only(op) # Told /\ Only(op) # Error
      /\ Told[1] = "answer" /\ Told # Error
      /\ \A s \in Streams : << "ports", s >> # Told /\ \A op \in Alone : << "ports", s >> # Only(op)
  BY SetOps DEF Only, Told, Error, Alone
<1>4. ASSUME NEW c, NEW E, NEW D, Ends(b, c, E, D), \A u \in D : u[1] \notin Calm
      PROVE  Ends(todo', c, E, D)
  <2>1. Avoids(t, D)
    BY <1>2, <1>4, ElseIs
  <2> QED
    BY <1>2, <1>4, <2>1, EndsJoined
<1>5. ASSUME NEW c, NEW E, NEW D,
             \/ z \in E
             \/ y \in E /\ z \notin D
             \/ x \in E /\ y \notin D /\ z \notin D
      PROVE  Ends(todo', c, E, D)
  <2> DEFINE f == FALSE
  <2> HIDE DEF f
  <2>1. Ends(t, f, E, D)
    BY <1>1, <1>5, ShortEnds
  <2> QED
    BY <1>2, <2>1, EndsJoined DEF f
<1>6. Answering'
  <2> DEFINE c == Promised'
             E == {Told}
             D == {Error, Only("free"), << "ports", "realtime" >>, Only("bufferedport")}
  <2>1. z \in E \/ (x \in E /\ y \notin D /\ z \notin D)
    BY <1>1, <1>2, <1>3 DEF Alone
  <2>2. Answering' <=> Ends(todo', c, E, D)
    BY DEF Answering
  <2> HIDE DEF c, E, D
  <2> QED
    BY <1>5, <2>1, <2>2
<1>7. Playing'
  <2> DEFINE c == playing'
             E == {Only("play")}
             D == {Only("hold")}
  <2>1. (y \in E /\ z \notin D) \/ (x \in E /\ y \notin D /\ z \notin D)
    BY <1>1, <1>3 DEF Alone
  <2>2. Playing' <=> Ends(todo', c, E, D)
    BY DEF Playing
  <2> HIDE DEF c, E, D
  <2> QED
    BY <1>5, <2>1, <2>2
<1>8. Keyed'
  <2> DEFINE c == CurrentKey'
             E == {<< "key", "current" >>}
             D == {<< "key", "session" >>, Only("clear")}
  <2>1. Ends(b, c, E, D) /\ (Keyed' <=> Ends(todo', c, E, D))
    BY DEF Keyed
  <2>2. \A u \in D : u[1] \notin Calm
    BY <1>3 DEF Alone, Calm
  <2> HIDE DEF c, E, D
  <2> QED
    BY <1>4, <2>1, <2>2
<1>9. Codec'
  <2> DEFINE c == decoder'
             E == {Only("format")}
             D == {Only("clear")}
  <2>1. Ends(b, c, E, D) /\ (Codec' <=> Ends(todo', c, E, D))
    BY DEF Codec
  <2>2. \A u \in D : u[1] \notin Calm
    BY <1>3 DEF Alone, Calm
  <2> HIDE DEF c, E, D
  <2> QED
    BY <1>4, <2>1, <2>2
<1>10. \A s \in Streams : \A u \in Breaks(s) : u[1] \notin Calm
  BY SetOps DEF Calm
<1>11. Runs(S)'
  <2>1. \A u \in Breaks(S') : u[1] \notin Calm
    BY <1>2, <1>10
  <2>2. Runs(S)' <=> Ends(todo', running'[S'], StartOf(S'), Breaks(S'))
    BY DEF Runs, StartOf, Breaks
  <2> QED
    BY <1>4, <2>1, <2>2
<1>12. ASSUME S' = "buffered" PROVE BufferedFits'
  <2> DEFINE c == running'["buffered"] /\ port'["buffered"] = conn'.buffered_port
             E == {Only("bufferedport")}
             D == Breaks("buffered")
  <2>1. Ends(b, c, E, D) /\ (BufferedFits' <=> Ends(todo', c, E, D))
    BY <1>12 DEF BufferedFits, Breaks
  <2>2. \A u \in D : u[1] \notin Calm
    BY <1>2, <1>10
  <2> HIDE DEF c, E, D
  <2> QED
    BY <1>4, <2>1, <2>2
<1>13. ASSUME S' = "realtime" PROVE RealtimeFits'
  <2>1. PortsReady'
    <3> DEFINE c == HasPorts'
               N == {}
               G == StartOf("realtime")
               f == FALSE
    <3>1. Due(b, c, PortsSet, N, G) /\ (PortsReady' <=> Due(todo', c, PortsSet, N, G))
      BY <1>13 DEF PortsReady, PortsSet, StartOf
    <3>2. \A u \in G : u[1] \notin Calm
      BY <1>2, SetOps DEF Calm
    <3> HIDE DEF c, N, G, f
    <3>3. Avoids(t, G)
      BY <1>2, <3>2, ElseIs
    <3>4. Due(t, f, PortsSet, N, G)
      BY <3>3, DueAvoid
    <3> QED
      BY <1>2, <3>1, <3>4, DueJoined DEF f
  <2>2. PortIsTold'
    <3> DEFINE c == PortFits'
    <3>1. Ends(b, c, Ceases, PortsSet) /\ (PortIsTold' <=> Ends(todo', c, Ceases, PortsSet))
      BY <1>13 DEF PortIsTold, Ceases, PortsSet
    <3>2. \A u \in PortsSet : u[1] \notin Calm
      BY SetOps DEF Calm
    <3> HIDE DEF c
    <3> QED
      BY <1>4, <3>1, <3>2
  <2>3. Controlled'
    <3> DEFINE c == ControlRuns'
               N == {}
    <3>1. Ends(b, c, Controls, N) /\ (Controlled' <=> Ends(todo', c, Controls, N))
      BY <1>13 DEF Controlled, Controls, Ceases, StartOf
    <3>2. \A u \in N : u[1] \notin Calm
      OBVIOUS
    <3> HIDE DEF c, N
    <3> QED
      BY <1>4, <3>1, <3>2
  <2> QED
    BY <2>1, <2>2, <2>3 DEF RealtimeFits
<1> QED
  BY <1>6, <1>7, <1>8, <1>9, <1>11, <1>12, <1>13 DEF Heard

(* RECORD of AirPlay 2, whose streams are started by SETUP. *)
LEMMA RecordRequest2 ==
  ASSUME Types, OrderlyInv, plan.orderly, RECORD, plan.protocol = 2
  PROVE  OrderlyInv'
<1> DEFINE x == Only("play")
           y == Only("unpause")
           t == << x, y, Okay >>
           p == IF conn.paused THEN << >> ELSE Start(conn.stream_type)
           q == p \o t
           O == StartOps \cup Calm
<1>1. /\ sender = "setup" /\ sender' = "setup" /\ todo = << >>
      /\ todo' = q /\ plan' = plan /\ promise' = promise /\ receiver' = receiver
  <2>1. /\ (IF plan.protocol = 1 THEN {"setup", "paused"} ELSE {"setup"}) = {"setup"}
        /\ (IF plan.protocol = 1 THEN "streaming" ELSE sender) = sender
        /\ << "answer", IF plan.protocol = 1 THEN "stream" ELSE "ok" >> = Okay
    BY DEF Okay
  <2>2. x = << "play", "" >> /\ y = << "unpause", "" >>
    BY DEF Only
  <2> HIDE DEF p, x, y
  <2>3. sender \in {"setup"} /\ sender' = sender /\ todo = << >> /\ plan' = plan /\ promise' = promise
        /\ receiver' = receiver
    BY <2>1 DEF RECORD, At, Receive
  <2>4. todo' = q
    BY <2>1, <2>2 DEF RECORD, Receive, p
  <2> QED
    BY <2>3, <2>4
<1>2. x \in Steps /\ y \in Steps /\ Okay \in Steps /\ x[1] \in O /\ y[1] \in O /\ Okay[1] \in O
  BY SetOps DEF Alone, Calm
<1>3. x # Told /\ y # Told /\ Okay # Told
  BY SetOps DEF Alone
<1>4. "free" \notin O /\ "answer" \notin StartOps /\ Only("free")[1] = "free" /\ Told[1] = "answer"
  BY SetOps DEF Alone, Calm, StartOps
<1>5. p \in Seq(Steps) /\ Avoids(p, Else(StartOps))
  <2>1. << >> \in Seq(Steps) /\ Avoids(<< >>, Else(StartOps))
    BY AvoidShort
  <2> QED
    BY <2>1, StartIs
<1> HIDE DEF x, y, p, O
<1>6. t \in Seq(Steps) /\ Avoids(t, Else(O)) /\ Avoids(t, {Told})
  BY <1>2, <1>3, ElseShort, AvoidShort
<1> HIDE DEF t
<1>7. q \in Seq(Steps)
  BY <1>5, <1>6, Joined
<1>8. Avoids(q, {Told})
  <2> DEFINE D == {Told}
  <2>1. \A u \in D : u[1] \notin StartOps
    BY <1>4
  <2>2. Avoids(t, D)
    BY <1>6
  <2> HIDE DEF D
  <2>3. Avoids(p, D)
    BY <1>5, <2>1, ElseIs
  <2>4. Avoids(q, D)
    BY <1>5, <1>6, <2>2, <2>3, AvoidsJoined
  <2> QED
    BY <2>4 DEF D
<1>9. Avoids(q, {Only("free")})
  <2> DEFINE D == {Only("free")}
  <2>1. (\A u \in D : u[1] \notin StartOps) /\ \A u \in D : u[1] \notin O
    BY <1>4 DEF O
  <2> HIDE DEF D
  <2>2. Avoids(p, D) /\ Avoids(t, D)
    BY <1>5, <1>6, <2>1, ElseIs
  <2>3. Avoids(q, D)
    BY <1>5, <1>6, <2>2, AvoidsJoined
  <2> QED
    BY <2>3 DEF D
<1> HIDE DEF q
<1>10. ~Served /\ ~Served' /\ task' = task
  BY <1>1 DEF Served, receiver
<1>11. Leaving' /\ Unpromised' /\ Withdrawn' /\ DecodesPromised' /\ PausedInPeace'
  BY <1>1, <1>7, <1>8, <1>9, <1>10, RequestParts
<1> QED
  BY <1>1, <1>10, <1>11 DEF OrderlyInv, Heard, AirPlay1

(* RECORD of AirPlay 1 starts the stream, but after a pause. *)
LEMMA RecordStarts ==
  ASSUME Types, OrderlyInv, plan.orderly, RECORD, plan.protocol = 1, sender = "setup"
  PROVE  OrderlyInv'
<1> DEFINE x == Only("play")
           y == Only("unpause")
           t == << x, y, Told >>
           b == Start(96)
           q == b \o t
<1>1. todo = << >>
  BY DEF RECORD, Receive
<1>2. /\ conn.stream_type = 96 /\ ~conn.paused /\ CurrentKey /\ decoder /\ HasPorts /\ promise = Nothing
  BY <1>1, AtRest DEF Served
<1>3. /\ sender' = "streaming" /\ todo' = q /\ plan' = plan /\ promise' = promise
      /\ receiver' = receiver /\ conn' = conn
  BY <1>2 DEF RECORD, Receive, Only, Told
<1>4. x \in Steps /\ y \in Steps /\ Told \in Steps /\ {x, y, Told} = {Only("play"), Only("unpause"), Told}
  BY SetOps DEF Alone
<1>5. t \in Seq(Steps) /\ Avoids(t, Else(Calm)) /\ Avoids(t, Fallible \cup {Only("format")})
  BY <1>4, LastSteps
<1>6. b \in Seq(Steps) /\ Avoids(b, Else(StartOps))
      /\ \A c : /\ Ends(b, c, Ceases, PortsSet) /\ Ends(b, c, Controls, {})
                /\ Ends(b, c, StartOf("realtime"), Breaks("realtime"))
  BY StartIs
<1>7. S' = "realtime" /\ task' = task /\ key' = key /\ decoder' = decoder
  BY <1>2, <1>3 DEF S, StreamOfType, receiver
<1>8. /\ \A op \in Alone : Only(op)[1] = op
      /\ Told[1] = "answer" /\ \A u \in PortsSet : u[1] = "ports"
      /\ Okay[1] = "answer"
  BY SetOps
<1>9. ASSUME NEW D, \A u \in D : u[1] \notin StartOps, \A u \in D : u[1] \notin Calm
      PROVE  Avoids(q, D) /\ Avoids(b, D) /\ Avoids(t, D)
  <2>1. Avoids(b, D) /\ Avoids(t, D)
    BY <1>5, <1>6, <1>9, ElseIs
  <2> HIDE DEF b, t
  <2> QED
    BY <1>5, <1>6, <2>1, AvoidsJoined
<1>10. q \in Seq(Steps) /\ Len(b) \in Nat /\ Len(t) \in Nat
  BY <1>5, <1>6, Joined
<1>11. Heard'
  <2> DEFINE D == {<< "key", "session" >>, Only("clear")}
             K == {Only("clear")}
             c == CurrentKey'
             d == decoder'
             h == HasPorts'
             N == {}
  <2>1. (\A u \in D : u[1] \notin StartOps /\ u[1] \notin Calm) /\ (\A u \in K : u[1] \notin StartOps /\ u[1] \notin Calm)
    BY <1>8 DEF Alone, Calm, StartOps
  <2>2. c /\ d /\ h
    BY <1>2, <1>3, <1>7 DEF CurrentKey, HasPorts
  <2>3. /\ t = << Only("play"), Only("unpause"), Told >>
        /\ StartOf(S') = StartOf("realtime") /\ Breaks(S') = Breaks("realtime")
    BY <1>7
  <2> HIDE DEF D, K, c, d, h, N, b, t, q
  <2>4. Avoids(b, D) /\ Avoids(b, K) /\ Avoids(b, N)
    BY <1>9, <2>1 DEF Avoids, N
  <2>5. Ends(b, c, {<< "key", "current" >>}, D) /\ Ends(b, d, {Only("format")}, K)
    BY <1>10, <2>2, <2>4, EndsAvoid
  <2>6. Due(b, h, PortsSet, N, StartOf("realtime"))
    BY <2>2, <2>4, DueSafe
  <2>7. todo' = b \o t
    BY <1>3 DEF q
  <2> QED
    BY <1>3, <1>6, <1>7, <2>3, <2>5, <2>6, <2>7, StartParts DEF D, K, c, d, h, N
<1>12. Avoids(q, {Only("free")}) /\ Avoids(q, {Only("pause")})
  <2> DEFINE D == {Only("free")}
             K == {Only("pause")}
  <2>1. \A u \in D : u[1] \notin StartOps /\ u[1] \notin Calm
    BY <1>8 DEF Alone, Calm, StartOps
  <2>2. (\A u \in K : u[1] \notin StartOps) /\ x \notin K /\ y \notin K /\ Told \notin K
    BY <1>8 DEF Alone, StartOps, Only
  <2>3. Avoids(t, K)
    BY <2>2, AvoidShort
  <2> HIDE DEF D, K, b, t
  <2>4. Avoids(q, D) /\ Avoids(b, K)
    BY <1>6, <1>9, <2>1, <2>2, ElseIs
  <2>5. Avoids(q, K)
    BY <1>5, <1>6, <2>3, <2>4, AvoidsJoined
  <2> QED
    BY <2>4, <2>5 DEF D, K
<1>13. Unpromised'
  <2> DEFINE c == promise' = Nothing
             N == {}
             D == {Told}
             G == Fallible \cup {Only("format")}
             f == FALSE
  <2>1. c /\ (\A u \in D : u[1] \notin StartOps)
    BY <1>2, <1>3, <1>8 DEF StartOps
  <2>2. Avoids(t, G)
    BY <1>5
  <2>3. Unpromised' <=> Due(todo', c, N, D, G)
    BY DEF Unpromised, Fallible
  <2> HIDE DEF c, N, D, G, f, b, t
  <2>4. Avoids(b, D)
    BY <1>6, <2>1, ElseIs
  <2>5. Due(b, c, N, D, G)
    BY <2>1, <2>4, DueSafe
  <2>6. Due(t, f, N, D, G)
    BY <2>2, DueAvoid
  <2>7. Due(q, c, N, D, G)
    BY <1>5, <1>6, <2>5, <2>6, DueJoined DEF f
  <2> QED
    BY <1>3, <2>3, <2>7
<1>14. Leaving' /\ DecodesPromised' /\ PausedInPeace'
  BY <1>1, <1>3, <1>7, <1>10, <1>12, RequestParts
<1>15. GoingAtEnd' /\ Going'
  BY <1>1, <1>3, <1>10, <1>12, UnpausedRequest
<1>16. AirPlay1'
  BY <1>2, <1>3, <1>15 DEF AirPlay1
<1>17. Withdrawn'
  BY <1>3 DEF Withdrawn, Served
<1> QED
  BY <1>11, <1>13, <1>14, <1>16, <1>17 DEF OrderlyInv

LEMMA RecordGoesOn ==
  ASSUME Types, OrderlyInv, plan.orderly, RECORD, plan.protocol = 1, sender = "paused"
  PROVE  OrderlyInv'
<1> DEFINE x == Only("play")
           y == Only("unpause")
           q == << x, y, Told >>
<1>1. todo = << >> /\ Served
  BY DEF RECORD, Receive, Served
<1>2. conn.paused /\ conn.stream_type = 96
  BY <1>1, AtRest
<1>3. x \in Steps /\ y \in Steps /\ Told \in Steps /\ {x, y, Told} = {Only("play"), Only("unpause"), Told}
  BY SetOps DEF Alone
<1>4. /\ q \in Seq(Steps) /\ Avoids(q, Else(Calm)) /\ Avoids(q, {Error})
      /\ Avoids(q, Fallible) /\ Avoids(q, Fallible \cup {Only("format")})
  BY <1>3, LastSteps
<1>5. /\ sender' = "streaming" /\ plan' = plan /\ promise' = promise
      /\ receiver' = receiver /\ conn' = conn /\ todo' = << >> \o q
  BY <1>2 DEF RECORD, Receive, Only, Told
<1>6. todo' = q
  BY <1>4, <1>5
<1>7. Avoids(q, {Only("free")})
  <2> DEFINE D == {Only("free")}
  <2>1. \A u \in D : u[1] \notin Calm
    BY SetOps DEF Alone, Calm
  <2> HIDE DEF D, q
  <2>2. Avoids(q, D)
    BY <1>4, <2>1, ElseIs
  <2> QED
    BY <2>2 DEF D
<1>8. Playing'
  <2> DEFINE c == playing'
             E == {Only("play")}
             D == {Only("hold")}
  <2>1. x \in E /\ y \notin D /\ Told \notin D
    BY DEF Only, Told
  <2>2. Playing' <=> Ends(todo', c, E, D)
    BY DEF Playing
  <2> HIDE DEF c, E, D
  <2> QED
    BY <1>6, <2>1, <2>2, ShortEnds
<1>9. GoingAtEnd'
  <2> DEFINE c == ~conn'.paused
             E == {Only("unpause"), Only("free")}
             D == {Only("pause")}
  <2>1. y \in E /\ Told \notin D
    BY DEF Only, Told
  <2>2. GoingAtEnd' <=> Ends(todo', c, E, D)
    BY DEF GoingAtEnd
  <2> HIDE DEF c, E, D
  <2> QED
    BY <1>6, <2>1, <2>2, ShortEnds
<1> HIDE DEF q
<1>10. Heard'
  <2>1. /\ Answering' /\ Keyed' /\ Codec' /\ Runs(S)'
        /\ (S = "buffered" => BufferedFits)' /\ (S = "realtime" => RealtimeFits)'
    BY <1>1, <1>4, <1>5, <1>6, CalmRequest
  <2> QED
    BY <1>5, <1>8, <2>1 DEF Heard
<1>11. Going'
  BY <1>4, <1>6, DueAvoid DEF Going, Fallible
<1>12. task' = task
  BY <1>5 DEF receiver
<1>13. Leaving' /\ Unpromised' /\ DecodesPromised' /\ PausedInPeace'
  BY <1>1, <1>4, <1>5, <1>6, <1>7, <1>12, RequestParts
<1>14. AirPlay1' /\ Withdrawn'
  BY <1>2, <1>5, <1>9, <1>11 DEF AirPlay1, Withdrawn, Served
<1> QED
  BY <1>10, <1>13, <1>14 DEF OrderlyInv

LEMMA RecordRequest ==
  ASSUME Types, OrderlyInv, plan.orderly, RECORD
  PROVE  OrderlyInv'
<1>1. plan.protocol \in {1, 2}
  BY DEF Types, Scenario
<1>2. plan.protocol = 1 => sender \in {"setup", "paused"}
  BY DEF RECORD, At
<1> QED
  BY <1>1, <1>2, RecordRequest2, RecordStarts, RecordGoesOn

(* A SETUP with a stream, but for its last three steps. *)
SetupFront(type) == StreamInfo(type) \o StreamKey("current") \o NeedEventPort
SetupBody(type) ==
  SetupFront(type)
    \o (IF type = 103 THEN StartBuffered \o << << "bufferedport", "" >> >> ELSE << >>)
    \o << << "ports", StreamOfType(type) >> >> \o Start(type)
SetupOps == {"format", "key", "event", "ports", "bufferedport"} \cup StartOps

LEMMA OneEnds ==
  ASSUME NEW x, NEW c, NEW E, NEW D, x \in E
  PROVE  Ends(<< x >>, c, E, D)
<1> DEFINE G == {}
<1>1. Due(<< x >>, c, E, D, G) \/ ~Due(<< x >>, c, E, D, G)
  OBVIOUS
<1> HIDE DEF G
<1> QED
  BY <1>1, Single

LEMMA SetupFrontIs ==
  ASSUME NEW type
  PROVE  /\ SetupFront(type) \in Seq(Steps)
         /\ Avoids(SetupFront(type), Else({"type", "format", "key", "event"}))
         /\ \A c : /\ Ends(SetupFront(type), c, {<< "key", "current" >>}, {<< "key", "session" >>, Only("clear")})
                   /\ Ends(SetupFront(type), c, {Only("format")}, {Only("clear")})
<1> DEFINE h == << "type", StreamOfType(type) >>
           x == Only("format")
           k == << "key", "current" >>
           e == Only("event")
           O == {"type", "format", "key", "event"}
           q == << h, x >> \o << k >> \o << e >>
           E == {k}
           D == {<< "key", "session" >>, Only("clear")}
           C == {Only("clear")}
           X == {x}
           f == FALSE
<1>1. SetupFront(type) = q
  BY DEF SetupFront, StreamInfo, StreamKey, NeedEventPort, Only
<1>2. /\ h \in Steps /\ x \in Steps /\ k \in Steps /\ e \in Steps
      /\ h[1] \in O /\ x[1] \in O /\ k[1] \in O /\ e[1] \in O
  BY SetOps, AreSteps DEF Alone, OnStream, StreamOfType, Streams
<1>3. k \in E /\ x \in X /\ e \notin D /\ e \notin C /\ k \notin C
  BY DEF Only
<1> HIDE DEF h, x, k, e, O, E, D, C, X, f
<1>4. /\ << h, x >> \in Seq(Steps) /\ << k >> \in Seq(Steps) /\ << e >> \in Seq(Steps)
      /\ Avoids(<< h, x >>, Else(O)) /\ Avoids(<< k >>, Else(O)) /\ Avoids(<< e >>, Else(O))
  BY <1>2, ElseShort
<1> DEFINE r == << h, x >> \o << k >>
<1>5. r \in Seq(Steps) /\ Avoids(r, Else(O))
  BY <1>4, Joined, AvoidsJoined
<1>6. Ends(r, f, E, D)
  <2>1. Ends(<< k >>, f, E, D)
    BY <1>3, OneEnds
  <2> QED
    BY <1>4, <2>1, EndsJoined DEF f
<1>7. Ends(r, f, X, C)
  <2>1. Ends(<< h, x >>, f, X, C)
    BY <1>3, ShortEnds
  <2>2. Avoids(<< k >>, C)
    BY <1>3, AvoidShort
  <2> QED
    BY <1>4, <2>1, <2>2, EndsJoined
<1>8. Avoids(<< e >>, D) /\ Avoids(<< e >>, C)
  BY <1>3, AvoidShort
<1>9. q = r \o << e >>
  OBVIOUS
<1> HIDE DEF r, q
<1>10. q \in Seq(Steps) /\ Avoids(q, Else(O))
  BY <1>4, <1>5, <1>9, Joined, AvoidsJoined
<1>11. Ends(q, f, E, D) /\ Ends(q, f, X, C)
  BY <1>4, <1>5, <1>6, <1>7, <1>8, <1>9, EndsJoined
<1>12. ASSUME NEW c PROVE Ends(q, c, E, D) /\ Ends(q, c, X, C)
  BY <1>11, Stronger DEF f
<1> QED
  BY <1>1, <1>10, <1>12 DEF O, E, D, X, C, x, k

(* What the body leaves: the codec, the key, and the stream started. *)
LEMMA SetupBodyIs ==
  ASSUME NEW type
  PROVE  /\ SetupBody(type) \in Seq(Steps) /\ Avoids(SetupBody(type), Else(SetupOps))
         /\ \A c : /\ Ends(SetupBody(type), c, {<< "key", "current" >>}, {<< "key", "session" >>, Only("clear")})
                   /\ Ends(SetupBody(type), c, {Only("format")}, {Only("clear")})
         /\ type = 103 => \A c : /\ Ends(SetupBody(type), c, StartOf("buffered"), Breaks("buffered"))
                                 /\ Ends(SetupBody(type), c, {Only("bufferedport")}, Breaks("buffered"))
         /\ type # 103 => \A c : /\ Ends(SetupBody(type), c, StartOf("realtime"), Breaks("realtime"))
                                 /\ Ends(SetupBody(type), c, Ceases, PortsSet)
                                 /\ Ends(SetupBody(type), c, Controls, {})
                                 /\ Due(SetupBody(type), c, PortsSet, {}, StartOf("realtime"))
<1> DEFINE p == SetupFront(type)
           u == << "bufferedport", "" >>
           m == IF type = 103 THEN StartBuffered \o << u >> ELSE << >>
           v == << "ports", StreamOfType(type) >>
           w == Start(type)
           a == p \o m
           b == a \o << v >>
           q == b \o w
           O == SetupOps
           K == {"type", "format", "key", "event"}
           M == StartOps \cup {"bufferedport", "ports"}
           f == FALSE
<1>1. SetupBody(type) = q
  BY DEF SetupBody
<1>2. u = Only("bufferedport") /\ u \in Steps /\ v \in Steps /\ u[1] = "bufferedport" /\ v[1] = "ports"
  BY AreSteps DEF Alone, OnStream, StreamOfType, Streams, Only
<1>3. ASSUME NEW r \in Seq(Steps), NEW P, NEW Q, Avoids(r, Else(P)), P \subseteq Q PROVE Avoids(r, Else(Q))
  BY <1>3 DEF Avoids, Else
<1>4. K \subseteq O /\ M \subseteq O /\ StartOps \subseteq M
  BY DEF SetupOps, StartOps
<1>5. p \in Seq(Steps) /\ Avoids(p, Else(K))
  BY SetupFrontIs
<1>6. w \in Seq(Steps) /\ Avoids(w, Else(M))
  BY <1>3, <1>4, StartIs
<1>7. << u >> \in Seq(Steps) /\ << v >> \in Seq(Steps) /\ Avoids(<< u >>, Else(M)) /\ Avoids(<< v >>, Else(M))
  <2>1. u[1] \in M /\ v[1] \in M
    BY <1>2
  <2> HIDE DEF u, v, M
  <2> QED
    BY <1>2, <2>1, ElseShort
<1>8. StartBuffered \in Seq(Steps) /\ Avoids(StartBuffered, Else(M))
  BY <1>3, <1>4, StartIs
<1>9. << >> \in Seq(Steps) /\ \A D : Avoids(<< >>, D)
  BY AvoidShort
<1>10. (type = 103 => m = StartBuffered \o << u >>) /\ (type # 103 => m = << >>)
  OBVIOUS
<1>11. type # 103 => v \in PortsSet
  BY DEF PortsSet, StreamOfType
<1> HIDE DEF u, v, K, M, f, p, w, m, O
<1>12. m \in Seq(Steps) /\ Avoids(m, Else(M))
  <2>1. StartBuffered \o << u >> \in Seq(Steps) /\ Avoids(StartBuffered \o << u >>, Else(M))
    BY <1>7, <1>8, Joined, AvoidsJoined
  <2> QED
    BY <1>9, <1>10, <2>1
<1>13. /\ Avoids(p, Else(O)) /\ Avoids(m, Else(O)) /\ Avoids(<< v >>, Else(O)) /\ Avoids(w, Else(O))
  BY <1>3, <1>4, <1>5, <1>6, <1>7, <1>12
<1>14. a \in Seq(Steps) /\ Avoids(a, Else(O))
  BY <1>5, <1>12, <1>13, Joined, AvoidsJoined
<1>15. b \in Seq(Steps) /\ Avoids(b, Else(O))
  <2> HIDE DEF a
  <2> QED
    BY <1>7, <1>13, <1>14, Joined, AvoidsJoined
<1>16. q \in Seq(Steps) /\ Avoids(q, Else(O))
  <2> HIDE DEF b
  <2> QED
    BY <1>6, <1>13, <1>15, Joined, AvoidsJoined
<1>17. ASSUME NEW c, NEW E, NEW D, Ends(p, c, E, D), \A x \in D : x[1] \notin M
       PROVE  Ends(q, c, E, D)
  <2>1. Avoids(m, D) /\ Avoids(<< v >>, D) /\ Avoids(w, D)
    BY <1>6, <1>7, <1>12, <1>17, ElseIs
  <2>2. Ends(a, c, E, D)
    BY <1>5, <1>12, <1>17, <2>1, EndsJoined
  <2> HIDE DEF a
  <2>3. Ends(b, c, E, D)
    BY <1>7, <1>14, <2>1, <2>2, EndsJoined
  <2> HIDE DEF b
  <2> QED
    BY <1>6, <1>15, <2>1, <2>3, EndsJoined
<1>18. ASSUME NEW c
       PROVE  /\ Ends(q, c, {<< "key", "current" >>}, {<< "key", "session" >>, Only("clear")})
              /\ Ends(q, c, {Only("format")}, {Only("clear")})
  <2> DEFINE E == {<< "key", "current" >>}
             D == {<< "key", "session" >>, Only("clear")}
             X == {Only("format")}
             C == {Only("clear")}
  <2>1. (\A x \in D : x[1] \notin M) /\ (\A x \in C : x[1] \notin M)
    BY DEF M, Only, StartOps
  <2>2. Ends(p, c, E, D) /\ Ends(p, c, X, C)
    BY SetupFrontIs DEF p
  <2> HIDE DEF E, D, X, C, q
  <2>3. Ends(q, c, E, D) /\ Ends(q, c, X, C)
    BY <1>17, <2>1, <2>2
  <2> QED
    BY <2>3 DEF E, D, X, C
<1>19. ASSUME NEW c, NEW E, NEW D, Ends(w, f, E, D)
       PROVE  Ends(q, c, E, D)
  <2> HIDE DEF b
  <2> QED
    BY <1>6, <1>15, <1>19, EndsJoined DEF f
<1>20. ASSUME type = 103, NEW c
       PROVE  /\ Ends(q, c, StartOf("buffered"), Breaks("buffered"))
              /\ Ends(q, c, {Only("bufferedport")}, Breaks("buffered"))
  <2> DEFINE E == {u}
             D == Breaks("buffered")
             T == StartOf("buffered")
  <2>1. Ends(w, f, T, D) /\ Avoids(w, D)
    BY <1>20, StartIs DEF w
  <2>2. \A x \in D : x[1] \in {"halt", "restart", "type", "select"}
    BY SetOps DEF Streams
  <2>3. v \notin D /\ u \in E
    BY <1>2, <2>2
  <2> HIDE DEF D, E, T
  <2>4. Avoids(<< v >>, D) /\ Ends(<< u >>, f, E, D)
    BY <2>3, AvoidShort, OneEnds
  <2>5. Ends(StartBuffered \o << u >>, f, E, D)
    BY <1>7, <1>8, <2>4, EndsJoined DEF f
  <2>6. Ends(m, f, E, D)
    BY <1>10, <1>20, <2>5
  <2>7. Ends(a, c, E, D)
    BY <1>5, <1>12, <2>6, EndsJoined DEF f
  <2>8. Ends(b, c, E, D)
    <3> HIDE DEF a
    <3> QED
      BY <1>7, <1>14, <2>4, <2>7, EndsJoined
  <2>9. Ends(q, c, E, D)
    <3> HIDE DEF b
    <3> QED
      BY <1>6, <1>15, <2>1, <2>8, EndsJoined
  <2>10. Ends(q, c, T, D)
    BY <1>19, <2>1
  <2> QED
    BY <1>2, <2>9, <2>10 DEF E, D, T
<1>21. ASSUME type # 103, NEW c
       PROVE  /\ Ends(q, c, StartOf("realtime"), Breaks("realtime"))
              /\ Ends(q, c, Ceases, PortsSet)
              /\ Ends(q, c, Controls, {})
              /\ Due(q, c, PortsSet, {}, StartOf("realtime"))
  <2> DEFINE E == StartOf("realtime")
             D == Breaks("realtime")
             N == {}
             t == TRUE
  <2>1. Ends(w, f, E, D) /\ Ends(w, f, Ceases, PortsSet) /\ Ends(w, f, Controls, N)
    BY <1>21, StartIs DEF w
  <2>2. (\A x \in E : x[1] \notin K) /\ v \notin E
    BY <1>2, SetOps DEF Streams, K
  <2>3. t
    OBVIOUS
  <2>4. Avoids(w, N) /\ Avoids(<< v >>, N)
    BY DEF Avoids
  <2> HIDE DEF E, D, N, t
  <2>5. Ends(q, c, E, D) /\ Ends(q, c, Ceases, PortsSet) /\ Ends(q, c, Controls, N)
    BY <1>19, <2>1
  <2>6. Avoids(p, E) /\ Avoids(m, E) /\ Avoids(<< v >>, E)
    BY <1>5, <1>9, <1>10, <1>21, <2>2, ElseIs, AvoidShort
  <2>7. Avoids(a, E)
    BY <1>5, <1>12, <2>6, AvoidsJoined
  <2>8. Avoids(b, E) /\ Ends(b, c, PortsSet, N)
    <3>1. Ends(<< v >>, f, PortsSet, N)
      BY <1>11, <1>21, OneEnds
    <3> HIDE DEF a
    <3> QED
      BY <1>7, <1>14, <2>6, <2>7, <3>1, AvoidsJoined, EndsJoined DEF f
  <2>9. Due(q, c, PortsSet, N, E)
    <3> HIDE DEF b
    <3>1. Due(b, c, PortsSet, N, E)
      BY <2>8, DueAvoid
    <3>2. Due(w, t, PortsSet, N, E)
      BY <2>3, <2>4, DueSafe
    <3> QED
      BY <1>6, <1>15, <2>8, <3>1, <3>2, DueJoined DEF t
  <2> QED
    BY <2>5, <2>9 DEF E, D, N
<1> QED
  BY <1>1, <1>16, <1>18, <1>20, <1>21 DEF O

LEMMA StreamsRequest ==
  ASSUME Types, OrderlyInv, plan.orderly, NEW type \in {96, 103}, SETUPStreams(type)
  PROVE  OrderlyInv'
<1> DEFINE x == Only("play")
           y == Only("unpause")
           t == << Told, x, y >>
           b == SetupBody(type)
           q == b \o t
           O == SetupOps
<1>1. /\ todo = << >> /\ plan.protocol = 2 /\ sender \in {"setup", "torn"} /\ sender' = "streaming"
      /\ conn' = [conn EXCEPT !.stream_type = type]
      /\ plan' = plan /\ promise' = promise /\ receiver' = receiver
  BY DEF SETUPStreams, At, Receive
<1>2. todo' = q
  BY DEF SETUPStreams, Receive, SetupBody, SetupFront, Only, Told
<1>3. ~Served /\ promise = Nothing
  BY <1>1, AtRest DEF Served
<1>4. x \in Steps /\ y \in Steps /\ Told \in Steps /\ {Told, x, y} = {Only("play"), Only("unpause"), Told}
  BY SetOps DEF Alone
<1>5. t \in Seq(Steps) /\ Avoids(t, Else(Calm)) /\ Avoids(t, Fallible \cup {Only("format")})
  BY <1>4, LastSteps
<1>6. b \in Seq(Steps) /\ Avoids(b, Else(O))
  BY SetupBodyIs
<1>7. S' = StreamOfType(type) /\ task' = task
  BY <1>1 DEF S, Types, Conn, receiver
<1>8. q \in Seq(Steps)
  <2> HIDE DEF b, t
  <2> QED
    BY <1>5, <1>6, Joined
<1>9. Heard'
  <2> DEFINE c == running'["buffered"] /\ port'["buffered"] = conn'.buffered_port
             e == running'[S']
  <2>1. t = << Only("play"), Only("unpause"), Told >> \/ t = << Told, Only("play"), Only("unpause") >>
    OBVIOUS
  <2>2. /\ Ends(b, CurrentKey', {<< "key", "current" >>}, {<< "key", "session" >>, Only("clear")})
        /\ Ends(b, decoder', {Only("format")}, {Only("clear")})
    BY SetupBodyIs
  <2>3. type = 103 => /\ S' = "buffered"
                      /\ Ends(b, e, StartOf("buffered"), Breaks("buffered"))
                      /\ Ends(b, c, {Only("bufferedport")}, Breaks("buffered"))
    BY <1>7, SetupBodyIs DEF StreamOfType
  <2>4. type # 103 => /\ S' = "realtime"
                      /\ Ends(b, e, StartOf("realtime"), Breaks("realtime"))
                      /\ Ends(b, PortFits', Ceases, PortsSet)
                      /\ Ends(b, ControlRuns', Controls, {})
                      /\ Due(b, HasPorts', PortsSet, {}, StartOf("realtime"))
    BY <1>7, SetupBodyIs DEF StreamOfType
  <2> HIDE DEF b, t, c, e
  <2>5. Ends(b, e, StartOf(S'), Breaks(S'))
    BY <2>3, <2>4
  <2>6. S' = "buffered" => Ends(b, c, {Only("bufferedport")}, Breaks("buffered"))
    BY <2>3, <2>4
  <2>7. S' = "realtime" => /\ Due(b, HasPorts', PortsSet, {}, StartOf("realtime"))
                           /\ Ends(b, PortFits', Ceases, PortsSet)
                           /\ Ends(b, ControlRuns', Controls, {})
    BY <2>3, <2>4
  <2> QED
    BY <1>1, <1>2, <1>6, <2>1, <2>2, <2>5, <2>6, <2>7, StartParts DEF c, e
<1>10. Avoids(q, {Only("free")})
  <2> DEFINE D == {Only("free")}
  <2>1. \A u \in D : u[1] \notin O /\ u[1] \notin Calm
    <3>1. Only("free")[1] = "free"
      BY SetOps DEF Alone
    <3>2. "free" \notin O /\ "free" \notin Calm
      BY DEF SetupOps, StartOps, Calm
    <3> QED
      BY <3>1, <3>2
  <2> HIDE DEF D, b, t, O
  <2>2. Avoids(b, D) /\ Avoids(t, D)
    BY <1>5, <1>6, <2>1, ElseIs
  <2>3. Avoids(q, D)
    BY <1>5, <1>6, <2>2, AvoidsJoined
  <2> QED
    BY <2>3 DEF D
<1>11. Unpromised'
  <2> DEFINE c == promise' = Nothing
             N == {}
             D == {Told}
             G == Fallible \cup {Only("format")}
             f == FALSE
  <2>1. c /\ (\A u \in D : u[1] \notin O)
    BY <1>1, <1>3 DEF Told, SetupOps, StartOps
  <2>2. Avoids(t, G)
    BY <1>5
  <2>3. Unpromised' <=> Due(todo', c, N, D, G)
    BY DEF Unpromised, Fallible
  <2> HIDE DEF c, N, D, G, f, b, t, O
  <2>4. Avoids(b, D)
    BY <1>6, <2>1, ElseIs
  <2>5. Due(b, c, N, D, G)
    BY <2>1, <2>4, DueSafe
  <2>6. Due(t, f, N, D, G)
    BY <2>2, DueAvoid
  <2>7. Due(q, c, N, D, G)
    BY <1>5, <1>6, <2>5, <2>6, DueJoined DEF f
  <2> QED
    BY <1>2, <2>3, <2>7
<1> HIDE DEF q
<1>12. Leaving' /\ DecodesPromised' /\ PausedInPeace'
  BY <1>1, <1>2, <1>7, <1>8, <1>10, RequestParts
<1>13. Withdrawn' /\ AirPlay1'
  BY <1>1 DEF Withdrawn, Served, AirPlay1
<1> QED
  BY <1>9, <1>11, <1>12, <1>13 DEF OrderlyInv

(* The other requests. *)
LEMMA RateRequest ==
  ASSUME Types, OrderlyInv, plan.orderly, NEW rate \in {0, 1}, SETRATEANCHORTIME(rate)
  PROVE  OrderlyInv'
<1>1. /\ todo = << >> /\ plan.protocol = 2 /\ sender \in {"streaming", "paused"} /\ conn' = conn
      /\ plan' = plan /\ promise' = promise /\ receiver' = receiver
  BY DEF SETRATEANCHORTIME, At, Receive
<1>2. Served
  BY <1>1 DEF Served
<1>3. \A op \in Alone : Only(op) \in Steps
  BY SetOps
<1>4. CASE rate = 0
  <2> DEFINE x == Only("pause")
             y == Only("hold")
  <2>1. sender' = "paused" /\ todo' = << x, y, Okay >>
    BY <1>4 DEF SETRATEANCHORTIME, Receive, Only, Okay
  <2>2. x \in Steps /\ y \in Steps
    BY <1>3 DEF Alone
  <2> QED
    BY <1>1, <1>2, <2>1, <2>2, PlayOrHold
<1>5. CASE rate = 1
  <2> DEFINE x == Only("unpause")
             y == Only("play")
  <2>1. sender' = "streaming" /\ todo' = << x, y, Okay >>
    <3>1. rate # 0
      BY <1>5
    <3> QED
      BY <3>1 DEF SETRATEANCHORTIME, Receive, Only, Okay
  <2>2. x \in Steps /\ y \in Steps
    BY <1>3 DEF Alone
  <2> QED
    BY <1>1, <1>2, <2>1, <2>2, PlayOrHold
<1> QED
  BY <1>4, <1>5

LEMMA PauseRequest ==
  ASSUME Types, OrderlyInv, plan.orderly, PAUSE
  PROVE  OrderlyInv'
<1> DEFINE x == Only("hold")
           y == Only("pause")
<1>1. /\ todo = << >> /\ sender = "streaming" /\ sender' = "paused" /\ conn' = conn
      /\ plan' = plan /\ promise' = promise /\ receiver' = receiver /\ todo' = << x, y, Okay >>
  BY DEF PAUSE, At, Receive, Only, Okay
<1>2. Served /\ x \in Steps /\ y \in Steps
  BY <1>1, SetOps DEF Served, Alone
<1> QED
  BY <1>1, <1>2, PlayOrHold

LEMMA TeardownRequest ==
  ASSUME Types, OrderlyInv, plan.orderly, NEW has_streams \in BOOLEAN, TEARDOWN(has_streams)
  PROVE  OrderlyInv'
<1> DEFINE x == Only(IF has_streams THEN "pause" ELSE "unpause")
<1>1. /\ todo = << >> /\ conn' = conn /\ plan' = plan /\ promise' = promise /\ receiver' = receiver
      /\ todo' = ReceiverStop \o << x, Okay >>
  BY DEF TEARDOWN, Receive, Only, Okay
<1>2. \/ sender' = "ended" /\ x = Only("unpause")
      \/ plan.protocol = 2 /\ sender' = "torn" /\ x = Only("pause")
  BY DEF TEARDOWN
<1>3. x \in Steps /\ Okay \in Steps
  BY SetOps DEF Alone
<1> QED
  BY <1>1, <1>2, <1>3, StopRequest

LEMMA DisconnectRequest ==
  ASSUME Types, OrderlyInv, plan.orderly, DISCONNECT
  PROVE  OrderlyInv'
<1> DEFINE x == Only("eventstop")
           y == Only("free")
<1>1. /\ todo = << >> /\ conn' = conn /\ plan' = plan /\ promise' = promise /\ receiver' = receiver
      /\ todo' = ReceiverStop \o << x, y >> /\ sender' = "new"
  BY DEF DISCONNECT, EndOfConnection, Receive, Only
<1>2. x \in Steps /\ y \in Steps
  BY SetOps DEF Alone
<1> QED
  BY <1>1, <1>2, StopRequest

LEMMA OrderlyRequest ==
  ASSUME Types, OrderlyInv, plan.orderly, Request
  PROVE  OrderlyInv'
<1>1. 96 \in {96, 103} /\ 103 \in {96, 103} /\ 0 \in {0, 1} /\ 1 \in {0, 1}
  OBVIOUS
<1> QED
  BY <1>1, AnnounceRequest, SetupRequest1, SetupRequest2, StreamsRequest, RecordRequest,
     PauseRequest, RateRequest, TeardownRequest, DisconnectRequest DEF Request

-----------------------------------------------------------------------------
(* The start, the tasks, and every step. *)
LEMMA OrderlyInit ==
  ASSUME Init
  PROVE  OrderlyInv
<1>1. /\ todo = << >> /\ promise = Nothing /\ sender = "new" /\ conn = NewConn(1)
      /\ \A t \in Tasks : task[t] = "none"
  BY DEF Init
<1>2. ASSUME NEW c, NEW E, NEW D, c PROVE Ends(todo, c, E, D)
  <2>1. Ends(<< >>, c, E, D)
    BY <1>2, Empty
  <2> QED
    BY <1>1, <2>1
<1>3. ASSUME NEW c, NEW E, NEW D, NEW G PROVE Due(todo, c, E, D, G)
  <2>1. Due(<< >>, c, E, D, G)
    BY Empty
  <2> QED
    BY <1>1, <2>1
<1>4. Leaving /\ Unpromised /\ Going /\ PausedInPeace
  BY <1>3 DEF Leaving, Unpromised, Going, PausedInPeace
<1>5. Withdrawn
  <2> DEFINE c == promise = Nothing
             W == Withdraws
             D == {Told}
  <2>1. c
    BY <1>1
  <2>2. Ends(todo, c, W, D) => Withdrawn
    BY DEF Withdrawn
  <2> HIDE DEF c, W, D
  <2> QED
    BY <1>2, <2>1, <2>2
<1>6. GoingAtEnd
  <2> DEFINE c == ~conn.paused
             E == {Only("unpause"), Only("free")}
             D == {Only("pause")}
  <2>1. c
    BY <1>1 DEF NewConn
  <2>2. GoingAtEnd <=> Ends(todo, c, E, D)
    BY DEF GoingAtEnd
  <2> HIDE DEF c, E, D
  <2> QED
    BY <1>2, <2>1, <2>2
<1>7. DecodesPromised
  BY <1>1 DEF DecodesPromised
<1>8. Heard /\ AirPlay1
  BY <1>1, <1>4, <1>6 DEF Heard, Served, AirPlay1, NewConn
<1> QED
  BY <1>4, <1>5, <1>7, <1>8 DEF OrderlyInv

(* A step that leaves the handler alone. *)
LEMMA OrderlyFrame ==
  ASSUME OrderlyInv, plan' = plan, sender' = sender, conn' = conn, promise' = promise, todo' = todo,
         running' = running, port' = port, decoder' = decoder, key' = key, playing' = playing,
         DecodesPromised', ControlRuns => ControlRuns'
  PROVE  OrderlyInv'
<1>1. Controlled => Controlled'
  <2> DEFINE c == ControlRuns
             d == ControlRuns'
             N == {}
  <2>1. c => d
    OBVIOUS
  <2>2. (Controlled <=> Ends(todo, c, Controls, N)) /\ (Controlled' <=> Ends(todo', d, Controls, N))
    BY DEF Controlled, Controls, Ceases, StartOf
  <2> HIDE DEF c, d, N
  <2> QED
    BY <2>1, <2>2, Stronger
<1>2. S' = S
  BY DEF S
<1>3. /\ Leaving' <=> Leaving
      /\ Unpromised' <=> Unpromised
      /\ PausedInPeace' <=> PausedInPeace
  BY DEF Leaving, Unpromised, PausedInPeace, Fallible
<1>4. Withdrawn' <=> Withdrawn
  BY DEF Withdrawn, Withdraws, Served
<1>5. Refused' <=> Refused
  BY DEF Refused
<1>6. (Keyed' <=> Keyed) /\ (Codec' <=> Codec) /\ (Playing' <=> Playing)
  BY DEF Keyed, CurrentKey, Codec, Playing
<1>7. Holding' <=> Holding
  BY DEF Holding
<1>8. Answering' <=> Answering
  BY <1>2 DEF Answering, Promised, Asked
<1>9. Runs(S)' <=> Runs(S)
  BY <1>2 DEF Runs, StartOf, Breaks
<1>10. BufferedFits' <=> BufferedFits
  BY DEF BufferedFits, Breaks
<1>11. (PortsReady' <=> PortsReady) /\ (PortIsTold' <=> PortIsTold)
  BY DEF PortsReady, HasPorts, PortIsTold, PortFits, PortsSet, Ceases, StartOf
<1>12. Heard'
  <2>1. Heard
    BY DEF OrderlyInv
  <2>2. (Served' <=> Served) /\ (RealtimeFits => RealtimeFits')
    BY <1>1, <1>11 DEF Served, RealtimeFits
  <2> QED
    BY <1>2, <1>5, <1>6, <1>7, <1>8, <1>9, <1>10, <2>1, <2>2 DEF Heard
<1>13. AirPlay1'
  <2>1. AirPlay1
    BY DEF OrderlyInv
  <2>2. (HasPortsAtEnd' <=> HasPortsAtEnd) /\ (PausedAtEnd' <=> PausedAtEnd)
    BY DEF HasPortsAtEnd, HasPorts, PortsSet, PausedAtEnd
  <2>3. (GoingAtEnd' <=> GoingAtEnd) /\ (Going' <=> Going)
    BY DEF GoingAtEnd, Going, Fallible
  <2> QED
    BY <1>5, <1>6, <2>1, <2>2, <2>3 DEF AirPlay1
<1> QED
  BY <1>3, <1>4, <1>12, <1>13 DEF OrderlyInv

LEMMA OrderlyTask ==
  ASSUME Core, OrderlyInv, NEW t \in Tasks, StreamTask(t)
  PROVE  OrderlyInv'
<1>1. Types /\ Shape /\ StreamsInv /\ DecodesPromised
  BY DEF Core, OrderlyInv
<1>2. UNCHANGED inside /\ (task'[t] = "decode" => promise.port # 0)
  BY <1>1, TaskSteps
<1>3. task \in [Tasks -> {"none", "check", "blocked", "decode"}]
  BY <1>1 DEF Types, TypeOK
<1>4. PICK to : task' = [task EXCEPT ![t] = to] /\ (t = "ctrl" /\ to = "none" => ~running["realtime"] \/ port["realtime"] = 0)
  BY DEF StreamTask, Check, Wake, Packet, Decoded, Move, StreamOf
<1>5. DecodesPromised'
  <2> SUFFICES ASSUME NEW x \in Tasks, task'[x] = "decode" PROVE promise' # Nothing
    BY DEF DecodesPromised
  <2>1. CASE x = t
    BY <1>2, <2>1 DEF Nothing, inside
  <2>2. CASE x # t
    BY <1>1, <1>2, <1>3, <1>4, <2>2 DEF DecodesPromised, inside
  <2> QED
    BY <2>1, <2>2
<1>6. ControlRuns => ControlRuns'
  <2> SUFFICES ASSUME ControlRuns, running'["realtime"], task'["ctrl"] = "none" PROVE FALSE
    BY DEF ControlRuns
  <2>1. running["realtime"] /\ task["ctrl"] # "none" /\ port["realtime"] # 0
    BY <1>1, <1>2 DEF inside, ControlRuns, StreamsInv, Streams
  <2> QED
    BY <1>3, <1>4, <2>1 DEF Tasks
<1> QED
  BY <1>2, <1>5, <1>6, OrderlyFrame DEF inside

Orderly == plan.orderly => OrderlyInv

LEMMA OrderlyStep ==
  ASSUME Core, Orderly, [Next]_vars
  PROVE  Orderly'
<1> SUFFICES ASSUME plan'.orderly PROVE OrderlyInv'
  BY DEF Orderly
<1>1. Types /\ Shape
  BY DEF Core
<1>2. plan' = plan
  BY <1>1, RequestIs, Frame DEF Next, EventTaskEnds, StreamTask, Check, Wake, Packet, Decoded, inside, vars
<1>3. OrderlyInv /\ plan.orderly
  BY <1>2 DEF Orderly
<1>4. ASSUME UNCHANGED << plan, sender, conn, promise, todo, receiver >> PROVE OrderlyInv'
  <2>1. DecodesPromised'
    BY <1>3, <1>4 DEF OrderlyInv, DecodesPromised, receiver
  <2>2. ControlRuns => ControlRuns'
    BY <1>4 DEF ControlRuns, receiver
  <2> QED
    BY <1>3, <1>4, <2>1, <2>2, OrderlyFrame DEF receiver
<1>5. CASE Request
  BY <1>1, <1>3, <1>5, OrderlyRequest
<1>6. CASE Handler
  BY <1>3, <1>6, OrderlyHandler
<1>7. CASE \E t \in Tasks : StreamTask(t)
  BY <1>3, <1>7, OrderlyTask
<1>8. CASE \E n \in event.listeners : EventTaskEnds(n)
  BY <1>4, <1>8 DEF EventTaskEnds
<1>9. CASE UNCHANGED vars
  BY <1>4, <1>9 DEF vars
<1> QED
  BY <1>5, <1>6, <1>7, <1>8, <1>9 DEF Next

LEMMA AlwaysOrderly == Spec => []Orderly
<1>1. Init => Orderly
  BY OrderlyInit DEF Orderly
<1>2. Core /\ Orderly /\ [Next]_vars => Orderly'
  BY OrderlyStep
<1> QED
  BY <1>1, <1>2, AlwaysCore, PTL DEF Spec

(* Between two requests, nothing is left to do: what was promised is there. *)
LEMMA HeardAtRest ==
  ASSUME Core, Orderly
  PROVE  SenderHeard
<1> DEFINE s == promise.stream
<1> SUFFICES ASSUME plan.orderly, todo = << >>, promise # Nothing
             PROVE  /\ stream = s /\ running[s] /\ port[s] = promise.port
                    /\ decoder /\ key[s] = "current"
                    /\ \A t \in TasksOf(s) : task[t] # "none"
                    /\ playing = (sender = "streaming")
  BY DEF SenderHeard
<1>1. /\ Promised /\ CurrentKey /\ decoder /\ running[S]
      /\ sender = "streaming" => playing
      /\ sender = "paused" => ~playing
      /\ S = "buffered" => port["buffered"] = conn.buffered_port
      /\ S = "realtime" => PortFits /\ ControlRuns
      /\ Served
  BY AtRest DEF Orderly
<1>2. S \in Streams /\ Types /\ StreamsInv
  BY DEF S, StreamOfType, Streams, Core
<1>3. s = S /\ promise.port = Asked(S)
  BY <1>1 DEF Promised
<1>4. stream = S
  BY <1>1, <1>2 DEF StreamsInv
<1>5. port[S] = Asked(S)
  BY <1>1, <1>2 DEF Asked, PortFits, Streams
<1>6. \A t \in TasksOf(S) : task[t] # "none"
  <2> SUFFICES ASSUME NEW t \in TasksOf(S), task[t] = "none" PROVE FALSE
    OBVIOUS
  <2>1. CASE t = "ctrl"
    <3>1. S = "realtime"
      BY <1>2, <2>1 DEF TasksOf, Streams
    <3> QED
      BY <1>1, <2>1, <3>1 DEF ControlRuns
  <2>2. CASE t # "ctrl"
    <3>1. t \in {"recv", "buff"} /\ StreamOf(t) = S
      BY <1>2, <2>2 DEF TasksOf, Streams, StreamOf
    <3>2. running[StreamOf(t)]
      BY <1>1, <3>1
    <3> QED
      BY <1>2, <3>1, <3>2 DEF StreamsInv, At1
  <2> QED
    BY <2>1, <2>2
<1>7. playing = (sender = "streaming")
  BY <1>1, <1>2 DEF Served, Types, TypeOK
<1> QED
  BY <1>1, <1>2, <1>3, <1>4, <1>5, <1>6, <1>7 DEF CurrentKey

(* Whatever the requests of an orderly sender, and whichever of them fail: once the
   answer of a SETUP or RECORD (rtsp_handlers.c) has told it where to send its
   audio, and no request is open, audio_receiver.c runs that stream on that port,
   with a decoder and the sender's key, its tasks are there, and it plays unless
   it was paused. *)
THEOREM SenderIsHeard == Spec => []SenderHeard
<1>1. Core /\ Orderly => SenderHeard
  BY HeardAtRest
<1> QED
  BY <1>1, AlwaysCore, AlwaysOrderly, PTL

(* The decoder goes, or is replaced, with nobody at it. *)
LEMMA DecoderStep ==
  ASSUME Core, Orderly, plan.orderly, ClearReceiver \/ Format, NEW t \in Tasks
  PROVE  task[t] # "decode"
<1> SUFFICES ASSUME task[t] = "decode" PROVE FALSE
  OBVIOUS
<1>1. /\ Shape /\ Types /\ Stopped /\ Selected /\ Bound /\ Fresh /\ StreamsInv
      /\ OrderlyInv
  BY DEF Core, Orderly
<1>2. Handler
  BY DEF Handler, OnStreams
<1>3. running[stream] \/ At1(<< "close", stream >>) \/ At1(<< "join", stream >>)
  BY <1>1 DEF StreamsInv
<1>4. CASE ClearReceiver
  <2>1. HeadOp = "clear"
    <3>1. Doing("clear")
      BY <1>4 DEF ClearReceiver
    <3> QED
      BY <1>1, <3>1, HeadIs DEF HeadOp
  <2>2. \A s \in Streams : ~running[s]
    BY <1>1, <1>2, <2>1, AtHead
  <2>3. \A x : todo[1] # << "close", x >> /\ todo[1] # << "join", x >>
    BY <1>1, <1>2, <2>1, HeadPair
  <2> QED
    BY <1>1, <1>3, <2>2, <2>3 DEF At1, Types, TypeOK
<1>5. CASE Format
  <2>1. Doing("format")
    BY <1>5 DEF Format
  <2>2. todo # << >> /\ todo[1] = Only("format") /\ todo \in Seq(Steps)
    BY <1>1, <2>1, HeadIs DEF Only, Alone, Shape
  <2>3. promise = Nothing
    <3> DEFINE c == promise = Nothing
               N == {}
               D == {Told}
               G == Fallible \cup {Only("format")}
    <3>1. Due(todo, c, N, D, G) /\ todo[1] \in G
      BY <1>1, <2>2 DEF OrderlyInv, Unpromised
    <3> HIDE DEF c, N, D, G
    <3>2. c
      BY <2>2, <3>1, DueHead
    <3> QED
      BY <3>2 DEF c
  <2> QED
    BY <1>1, <2>3 DEF OrderlyInv, DecodesPromised
<1> QED
  BY <1>4, <1>5

(* audio_receiver_stop frees the decoder and audio_receiver_set_format replaces it
   without asking whether a stream task decodes with it: for an orderly sender none
   does, in the first case because both streams were halted and waited for, in the
   second because nothing was promised to the sender yet. *)
THEOREM DecoderIsKept == Spec => DecoderKept
<1>1. Core /\ Orderly =>
        [plan.orderly /\ (ClearReceiver \/ Format) => \A t \in Tasks : task[t] # "decode"]_vars
  BY DecoderStep
<1> QED
  BY <1>1, AlwaysCore, AlwaysOrderly, PTL DEF DecoderKept
=============================================================================
