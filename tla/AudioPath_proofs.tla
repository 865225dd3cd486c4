-------------------------- MODULE AudioPath_proofs --------------------------
(***************************************************************************)
(* Of the pool, for every size, timestamp window and set of tasks: types,  *)
(* that each slot is always in exactly one place, that the frames are in   *)
(* play order, and that only a flush upsets the balance of tokens and      *)
(* frames.  Of the way of a frame from the sender to the ear, for every    *)
(* scenario: that none is heard twice or out of order; and for those it    *)
(* holds for: that neither the gates nor an anchor lose a frame of the     *)
(* track, and that no frame of an earlier track is left in the pool.       *)
(***************************************************************************)
EXTENDS AudioBuffer, Playback, FiniteSetTheorems, SequenceTheorems, WellFoundedInduction,
        TLAPS

-----------------------------------------------------------------------------
(* The partition as a relation between the two arrays and the held slot, so *)
(* that the lemmas can speak of the arrays half-way through a lock region.  *)
Once(s) == \A i, j \in 1 .. Len(s) : s[i] = s[j] => i = j
Apart(s, f) == \A i \in 1 .. Len(s), j \in 1 .. Len(f) : s[i] # f[j]
Lacks(s, x) == \A i \in 1 .. Len(s) : s[i] # x
Has(s, x) == \E i \in 1 .. Len(s) : s[i] = x
Parts(s, f, h) ==
  /\ s \in Seq(Slots) /\ f \in Seq(Slots)
  /\ Once(s) /\ Once(f) /\ Apart(s, f) /\ Lacks(s, h) /\ Lacks(f, h)
  /\ \A x \in Slots : x = h \/ Has(s, x) \/ Has(f, x)

HeldCount(h) == IF h = NoSlot THEN 0 ELSE 1

(* The inductive invariant: the partition with the sizes that bound the    *)
(* arrays, and what the program counters of the two kinds of task imply.   *)
IInv ==
  /\ TypeOK
  /\ Parts(sorted, free_stack, held)
  /\ count + free_top + HeldCount(held) = Capacity
  /\ pc[Playback] = "holding" <=> held # NoSlot
  /\ \A p \in Producers : pc[p] \in {"queue", "give"} => chunk[p].left > 0

-----------------------------------------------------------------------------
(* Lemmas on the operators of the model. *)

(* A frame goes somewhere between the front and the end of the index. *)
LEMMA InsertPosRange ==
  ASSUME NEW s \in Seq(Slots), NEW t
  PROVE  sorted_insert_pos(s, t) \in 0 .. Len(s)
<1> DEFINE D == {i \in 1 .. Len(s) : ts_cmp(rtp[s[i]], t) < 0}
<1>1. Len(s) \in Nat
  OBVIOUS
<1>2. IsFiniteSet(1 .. Len(s)) /\ Cardinality(1 .. Len(s)) = Len(s)
  BY <1>1, FS_Interval, SMTT(30)
<1>3. IsFiniteSet(D) /\ Cardinality(D) <= Len(s)
  BY <1>2, FS_Subset
<1>4. Cardinality(D) \in Nat
  BY <1>3, FS_CardinalityType
<1> QED
  BY <1>1, <1>3, <1>4 DEF sorted_insert_pos

(* The index with a slot inserted, position by position. *)
LEMMA InsertSlotProperties ==
  ASSUME NEW s \in Seq(Slots), NEW pos \in 0 .. Len(s), NEW x \in Slots
  PROVE  /\ InsertSlot(s, pos, x) \in Seq(Slots)
         /\ Len(InsertSlot(s, pos, x)) = Len(s) + 1
         /\ \A i \in 1 .. Len(s) + 1 :
              InsertSlot(s, pos, x)[i] =
                IF i <= pos THEN s[i] ELSE IF i = pos + 1 THEN x ELSE s[i - 1]
<1> DEFINE a == SubSeq(s, 1, pos)
           b == SubSeq(s, pos + 1, Len(s))
           ax == a \o << x >>
<1>1. /\ a \in Seq(Slots) /\ Len(a) = pos /\ \A i \in 1 .. pos : a[i] = s[i]
      /\ b \in Seq(Slots) /\ Len(b) = Len(s) - pos
      /\ \A i \in 1 .. Len(s) - pos : b[i] = s[pos + i]
  <2>1. Len(s) \in Nat /\ \A i \in 1 .. Len(s) : s[i] \in Slots
    OBVIOUS
  <2>2. /\ a \in Seq(Slots) /\ Len(a) = IF 1 <= pos THEN pos - 1 + 1 ELSE 0
        /\ \A i \in 1 .. pos - 1 + 1 : a[i] = s[1 + i - 1]
    <3> HIDE DEF a
    <3>1. \A i \in 1 .. pos : s[i] \in Slots
      BY <2>1
    <3> QED
      BY <2>1, <3>1, SubSeqProperties DEF a
  <2>3. /\ b \in Seq(Slots) /\ Len(b) = IF pos + 1 <= Len(s) THEN Len(s) - (pos + 1) + 1 ELSE 0
        /\ \A i \in 1 .. Len(s) - (pos + 1) + 1 : b[i] = s[pos + 1 + i - 1]
    <3>1. \A i \in pos + 1 .. Len(s) : s[i] \in Slots
      BY <2>1
    <3>2. pos + 1 \in Int /\ Len(s) \in Int
      BY <2>1
    <3> QED
      BY <3>1, <3>2, SubSeqProperties
  <2> QED
    BY <2>1, <2>2, <2>3
<1>2. << x >> \in Seq(Slots) /\ Len(<< x >>) = 1 /\ << x >>[1] = x
  OBVIOUS
<1>3. /\ ax \in Seq(Slots) /\ Len(ax) = pos + 1
      /\ \A i \in 1 .. pos + 1 : ax[i] = IF i <= pos THEN s[i] ELSE x
  <2> HIDE DEF a
  <2>1. /\ ax \in Seq(Slots) /\ Len(ax) = Len(a) + 1
        /\ \A i \in 1 .. Len(a) + 1 : ax[i] = IF i <= Len(a) THEN a[i] ELSE << x >>[i - Len(a)]
    BY <1>1, <1>2, ConcatProperties
  <2> QED
    BY <2>1, <1>1, <1>2
<1>4. /\ ax \o b \in Seq(Slots) /\ Len(ax \o b) = Len(ax) + Len(b)
      /\ \A i \in 1 .. Len(ax) + Len(b) :
           (ax \o b)[i] = IF i <= Len(ax) THEN ax[i] ELSE b[i - Len(ax)]
  <2> HIDE DEF ax, b
  <2> QED
    BY <1>1, <1>3, ConcatProperties
<1>5. InsertSlot(s, pos, x) = ax \o b
  BY DEF InsertSlot
<1>6. pos \in Nat /\ Len(s) \in Nat /\ pos <= Len(s)
  OBVIOUS
<1> DEFINE r == ax \o b
<1> HIDE DEF a, b, ax, r
<1>7. r \in Seq(Slots) /\ Len(r) = Len(s) + 1
  BY <1>1, <1>3, <1>4, <1>6 DEF r
<1>8. ASSUME NEW i \in 1 .. Len(s) + 1
      PROVE  r[i] = IF i <= pos THEN s[i] ELSE IF i = pos + 1 THEN x ELSE s[i - 1]
  <2>0. i \in Nat /\ i >= 1 /\ i <= Len(s) + 1
    BY <1>6
  <2>1. CASE i <= pos + 1
    <3>1. r[i] = ax[i]
      <4>1. Len(ax) = pos + 1 /\ Len(b) = Len(s) - pos
        BY <1>1, <1>3
      <4>2. i \in 1 .. Len(ax) + Len(b) /\ i <= Len(ax)
        BY <1>6, <2>0, <2>1, <4>1
      <4> QED
        BY <1>4, <4>2 DEF r
    <3> QED
      BY <3>1, <2>0, <2>1, <1>3, <1>6
  <2>2. CASE i > pos + 1
    <3>1. r[i] = b[i - (pos + 1)]
      <4>1. Len(ax) = pos + 1 /\ Len(b) = Len(s) - pos
        BY <1>1, <1>3
      <4>2. i \in 1 .. Len(ax) + Len(b) /\ ~(i <= Len(ax))
        BY <1>6, <2>0, <2>2, <4>1
      <4>3. (ax \o b)[i] = b[i - Len(ax)]
        BY <1>4, <4>2
      <4> QED
        BY <4>1, <4>3 DEF r
    <3>2. b[i - (pos + 1)] = s[pos + (i - (pos + 1))]
      BY <2>0, <2>2, <1>1, <1>6
    <3>3. pos + (i - (pos + 1)) = i - 1
      BY <2>0, <1>6
    <3>4. r[i] = s[i - 1]
      BY <3>1, <3>2, <3>3
    <3> QED
      BY <2>0, <2>2, <3>4, <1>6
  <2> QED
    BY <2>0, <2>1, <2>2, <1>6
<1> QED
  BY <1>5, <1>7, <1>8 DEF r

(* The oldest frame's slot moves from the index to the free stack. *)
LEMMA PartsDropOldest ==
  ASSUME NEW s, NEW f, NEW h, Parts(s, f, h), s # << >>
  PROVE  /\ Parts(Tail(s), Append(f, Head(s)), h)
         /\ Len(Tail(s)) = Len(s) - 1 /\ Len(Append(f, Head(s))) = Len(f) + 1
<1> DEFINE u == Tail(s)
           g == Append(f, Head(s))
<1>1. s \in Seq(Slots) /\ f \in Seq(Slots) /\ Len(s) \in Nat \ {0} /\ Len(f) \in Nat
  BY EmptySeq DEF Parts
<1>2. Head(s) = s[1] /\ s[1] \in Slots
  BY <1>1
<1>3. u \in Seq(Slots) /\ Len(u) = Len(s) - 1 /\ \A i \in 1 .. Len(s) - 1 : u[i] = s[i + 1]
  BY <1>1, HeadTailProperties
<1>4. /\ g \in Seq(Slots) /\ Len(g) = Len(f) + 1
      /\ \A i \in 1 .. Len(f) + 1 : g[i] = IF i <= Len(f) THEN f[i] ELSE s[1]
  BY <1>1, <1>2, AppendProperties
<1> HIDE DEF u, g
<1>5. Once(u)
  BY <1>1, <1>3 DEF Parts, Once
<1>6. Once(g)
  <2>1. 1 \in 1 .. Len(s)
    BY <1>1
  <2>2. \A i \in 1 .. Len(f) : s[1] # f[i]
    BY <2>1 DEF Parts, Apart
  <2>3. \A i, j \in 1 .. Len(f) : f[i] = f[j] => i = j
    BY DEF Parts, Once
  <2> QED
    BY <1>1, <1>4, <2>2, <2>3 DEF Once
<1>7. Apart(u, g)
  <2> SUFFICES ASSUME NEW i \in 1 .. Len(u), NEW j \in 1 .. Len(g) PROVE u[i] # g[j]
    BY DEF Apart
  <2>1. i + 1 \in 1 .. Len(s) /\ 1 \in 1 .. Len(s) /\ i + 1 # 1 /\ u[i] = s[i + 1]
    BY <1>1, <1>3
  <2>2. s[i + 1] # s[1]
    BY <2>1 DEF Parts, Once
  <2>3. j \in 1 .. Len(f) + 1 /\ g[j] = IF j <= Len(f) THEN f[j] ELSE s[1]
    BY <1>4
  <2>4. CASE j <= Len(f)
    <3>1. j \in 1 .. Len(f)
      BY <1>1, <2>3, <2>4
    <3>2. s[i + 1] # f[j]
      BY <2>1, <3>1 DEF Parts, Apart
    <3> QED
      BY <2>1, <2>3, <2>4, <3>2
  <2>5. CASE ~(j <= Len(f))
    BY <2>1, <2>2, <2>3, <2>5
  <2> QED
    BY <2>4, <2>5
<1>8. Lacks(u, h) /\ Lacks(g, h)
  <2>1. Lacks(u, h)
    BY <1>1, <1>3 DEF Parts, Lacks
  <2>2. Lacks(g, h)
    BY <1>1, <1>4 DEF Parts, Lacks
  <2> QED
    BY <2>1, <2>2
<1>9. ASSUME NEW x \in Slots PROVE x = h \/ Has(u, x) \/ Has(g, x)
  <2>1. CASE Has(s, x)
    <3>1. PICK i \in 1 .. Len(s) : s[i] = x
      BY <2>1 DEF Has
    <3>2. CASE i = 1
      <4>1. g[Len(f) + 1] = x
        BY <1>1, <1>4, <3>1, <3>2
      <4> QED
        BY <1>1, <1>4, <4>1 DEF Has
    <3>3. CASE i # 1
      <4>1. i - 1 \in 1 .. Len(u) /\ u[i - 1] = x
        BY <1>1, <1>3, <3>1, <3>3
      <4> QED
        BY <4>1 DEF Has
    <3> QED
      BY <3>2, <3>3
  <2>2. CASE Has(f, x)
    BY <2>2, <1>1, <1>4 DEF Has
  <2> QED
    BY <2>1, <2>2 DEF Parts
<1> QED
  BY <1>3, <1>4, <1>5, <1>6, <1>7, <1>8, <1>9 DEF Parts, u, g

(* The free stack without its top, position by position. *)
LEMMA PopProperties ==
  ASSUME NEW f \in Seq(Slots), f # << >>
  PROVE  /\ SubSeq(f, 1, Len(f) - 1) \in Seq(Slots)
         /\ Len(SubSeq(f, 1, Len(f) - 1)) = Len(f) - 1
         /\ \A i \in 1 .. Len(f) - 1 : SubSeq(f, 1, Len(f) - 1)[i] = f[i]
<1> DEFINE n == Len(f) - 1
           g == SubSeq(f, 1, n)
<1>1. n \in Nat /\ \A i \in 1 .. n : f[i] \in Slots
  BY EmptySeq
<1> HIDE DEF n
<1>2. /\ g \in Seq(Slots)
      /\ Len(g) = IF 1 <= n THEN n - 1 + 1 ELSE 0
      /\ \A i \in 1 .. n - 1 + 1 : g[i] = f[1 + i - 1]
  BY <1>1, SubSeqProperties
<1> HIDE DEF g
<1>3. Len(g) = n
  BY <1>1, <1>2
<1>4. ASSUME NEW i \in 1 .. n PROVE g[i] = f[i]
  <2>1. i \in 1 .. n - 1 + 1 /\ 1 + i - 1 = i
    BY <1>1
  <2> QED
    BY <1>2, <2>1
<1> QED
  BY <1>2, <1>3, <1>4 DEF g, n

(* The top of the free stack moves into the index. *)
LEMMA PartsInsert ==
  ASSUME NEW s, NEW f, NEW h, Parts(s, f, h), f # << >>, NEW pos \in 0 .. Len(s)
  PROVE  /\ f[Len(f)] \in Slots
         /\ Parts(InsertSlot(s, pos, f[Len(f)]), SubSeq(f, 1, Len(f) - 1), h)
         /\ Len(InsertSlot(s, pos, f[Len(f)])) = Len(s) + 1
         /\ Len(SubSeq(f, 1, Len(f) - 1)) = Len(f) - 1
<1> DEFINE top == f[Len(f)]
           u == InsertSlot(s, pos, top)
           g == SubSeq(f, 1, Len(f) - 1)
<1>1. s \in Seq(Slots) /\ f \in Seq(Slots) /\ Len(f) \in Nat \ {0} /\ Len(s) \in Nat
  BY EmptySeq DEF Parts
<1>2. top \in Slots
  BY <1>1
<1> HIDE DEF top, u, g
<1>3. /\ u \in Seq(Slots) /\ Len(u) = Len(s) + 1
      /\ \A i \in 1 .. Len(s) + 1 :
           u[i] = IF i <= pos THEN s[i] ELSE IF i = pos + 1 THEN top ELSE s[i - 1]
  BY <1>1, <1>2, InsertSlotProperties DEF u
<1>4. /\ g \in Seq(Slots) /\ Len(g) = Len(f) - 1
      /\ \A i \in 1 .. Len(f) - 1 : g[i] = f[i]
  BY <1>1, PopProperties DEF g
<1>10. pos \in Nat /\ pos <= Len(s)
  BY <1>1
<1>11. Lacks(s, top)
  BY <1>1 DEF Parts, Apart, Lacks, top
<1>12. top # h
  BY <1>1 DEF Parts, Lacks, top
<1>13. ASSUME NEW i \in 1 .. Len(u), i # pos + 1
       PROVE  \E k \in 1 .. Len(s) : u[i] = s[k] /\ k = IF i <= pos THEN i ELSE i - 1
  <2>1. i \in 1 .. Len(s) + 1 /\ i \in Nat
    BY <1>1, <1>3
  <2>2. CASE i <= pos
    <3>1. i \in 1 .. Len(s)
      BY <2>1, <2>2, <1>1, <1>10
    <3> QED
      BY <2>1, <2>2, <3>1, <1>3
  <2>3. CASE i > pos
    <3>1. i - 1 \in 1 .. Len(s) /\ ~(i <= pos)
      BY <2>1, <2>3, <1>13, <1>1, <1>10
    <3>2. u[i] = s[i - 1]
      BY <2>1, <3>1, <1>13, <1>3
    <3> QED
      BY <3>1, <3>2
  <2> QED
    BY <2>1, <2>2, <2>3, <1>10
<1>14. u[pos + 1] = top /\ pos + 1 \in 1 .. Len(u)
  BY <1>1, <1>3, <1>10
<1>5. Once(u)
  <2> SUFFICES ASSUME NEW i \in 1 .. Len(u), NEW j \in 1 .. Len(u), u[i] = u[j]
               PROVE  i = j
    BY DEF Once
  <2>1. i \in 1 .. Len(s) + 1 /\ j \in 1 .. Len(s) + 1
    BY <1>3
  <2>2. CASE i = pos + 1 \/ j = pos + 1
    BY <2>2, <1>11, <1>13, <1>14 DEF Lacks
  <2>3. CASE i # pos + 1 /\ j # pos + 1
    <3>1. PICK k \in 1 .. Len(s) : u[i] = s[k] /\ k = IF i <= pos THEN i ELSE i - 1
      BY <2>3, <1>13
    <3>2. PICK l \in 1 .. Len(s) : u[j] = s[l] /\ l = IF j <= pos THEN j ELSE j - 1
      BY <2>3, <1>13
    <3>3. k = l
      BY <3>1, <3>2 DEF Parts, Once
    <3> QED
      BY <2>1, <2>3, <3>1, <3>2, <3>3, <1>1, <1>10
  <2> QED
    BY <2>2, <2>3
<1>6. Once(g)
  BY <1>1, <1>4 DEF Parts, Once
<1>7. Apart(u, g)
  <2> SUFFICES ASSUME NEW i \in 1 .. Len(u), NEW j \in 1 .. Len(g)
               PROVE  u[i] # g[j]
    BY DEF Apart
  <2>1. i \in 1 .. Len(s) + 1 /\ j \in 1 .. Len(f) /\ j < Len(f) /\ g[j] = f[j]
    <3>1. Len(f) \in Nat /\ j \in 1 .. Len(f) - 1
      BY <1>1, <1>4
    <3>2. j \in 1 .. Len(f) /\ j < Len(f)
      BY <3>1
    <3> QED
      BY <3>1, <3>2, <1>3, <1>4
  <2>2. CASE i = pos + 1
    <3>1. u[i] = f[Len(f)] /\ Len(f) \in 1 .. Len(f)
      BY <2>2, <1>1, <1>14 DEF top
    <3> QED
      BY <2>1, <3>1 DEF Parts, Once
  <2>3. CASE i # pos + 1
    <3>1. PICK k \in 1 .. Len(s) : u[i] = s[k]
      BY <2>3, <1>13
    <3> QED
      BY <2>1, <3>1 DEF Parts, Apart
  <2> QED
    BY <2>2, <2>3
<1>8. Lacks(u, h) /\ Lacks(g, h)
  <2>1. Lacks(u, h)
    <3> SUFFICES ASSUME NEW i \in 1 .. Len(u) PROVE u[i] # h
      BY DEF Lacks
    <3>1. CASE i = pos + 1
      BY <3>1, <1>12, <1>14
    <3>2. CASE i # pos + 1
      <4>1. PICK k \in 1 .. Len(s) : u[i] = s[k]
        BY <3>2, <1>13
      <4> QED
        BY <4>1 DEF Parts, Lacks
    <3> QED
      BY <3>1, <3>2
  <2>2. Lacks(g, h)
    BY <1>1, <1>4 DEF Parts, Lacks
  <2> QED
    BY <2>1, <2>2
<1>9. ASSUME NEW x \in Slots PROVE x = h \/ Has(u, x) \/ Has(g, x)
  <2>1. CASE Has(s, x)
    <3>1. PICK i \in 1 .. Len(s) : s[i] = x
      BY <2>1 DEF Has
    <3>2. CASE i <= pos
      BY <1>1, <1>3, <3>1, <3>2 DEF Has
    <3>3. CASE i > pos
      <4>1. i + 1 \in 1 .. Len(u) /\ u[i + 1] = x
        BY <1>1, <1>3, <3>1, <3>3
      <4> QED
        BY <4>1 DEF Has
    <3> QED
      BY <3>2, <3>3, <1>1
  <2>2. CASE Has(f, x)
    <3>1. PICK j \in 1 .. Len(f) : f[j] = x
      BY <2>2 DEF Has
    <3>2. CASE j = Len(f)
      <4>1. pos + 1 \in 1 .. Len(u) /\ u[pos + 1] = x
        BY <1>1, <1>3, <1>10, <3>1, <3>2 DEF top
      <4> QED
        BY <4>1 DEF Has
    <3>3. CASE j # Len(f)
      <4>1. j \in 1 .. Len(g) /\ g[j] = x
        BY <1>1, <1>4, <3>1, <3>3
      <4> QED
        BY <4>1 DEF Has
    <3> QED
      BY <3>2, <3>3
  <2> QED
    BY <2>1, <2>2 DEF Parts
<1> QED
  BY <1>2, <1>3, <1>4, <1>5, <1>6, <1>7, <1>8, <1>9 DEF Parts, u, g, top

(* The playback task takes the oldest frame. *)
LEMMA PartsTake ==
  ASSUME NEW s, NEW f, Parts(s, f, NoSlot), s # << >>
  PROVE  /\ Head(s) \in Slots /\ Parts(Tail(s), f, Head(s))
         /\ Len(Tail(s)) = Len(s) - 1
<1> DEFINE u == Tail(s)
<1>1. s \in Seq(Slots) /\ f \in Seq(Slots) /\ Len(s) \in Nat \ {0} /\ Len(f) \in Nat
  BY EmptySeq DEF Parts
<1>2. Head(s) = s[1] /\ s[1] \in Slots
  BY <1>1
<1>3. u \in Seq(Slots) /\ Len(u) = Len(s) - 1 /\ \A i \in 1 .. Len(s) - 1 : u[i] = s[i + 1]
  BY <1>1, HeadTailProperties
<1> HIDE DEF u
<1>4. Once(u) /\ Apart(u, f)
  <2>1. \A i \in 1 .. Len(u) : i \in 1 .. Len(s) - 1 /\ i \in Nat /\ i + 1 \in 1 .. Len(s) /\ u[i] = s[i + 1]
    BY <1>1, <1>3
  <2>2. ASSUME NEW i \in 1 .. Len(u), NEW j \in 1 .. Len(u), u[i] = u[j] PROVE i = j
    <3>1. i + 1 = j + 1
      BY <2>1, <2>2 DEF Parts, Once
    <3> QED
      BY <2>1, <3>1
  <2>3. Apart(u, f)
    BY <2>1 DEF Parts, Apart
  <2> QED
    BY <2>2, <2>3 DEF Once
<1>5. Lacks(u, s[1]) /\ Lacks(f, s[1])
  BY <1>1, <1>3 DEF Parts, Once, Apart, Lacks
<1>6. ASSUME NEW x \in Slots PROVE x = s[1] \/ Has(u, x) \/ Has(f, x)
  <2>1. CASE Has(s, x)
    <3>1. PICK i \in 1 .. Len(s) : s[i] = x
      BY <2>1 DEF Has
    <3>2. CASE i # 1
      <4>1. i - 1 \in 1 .. Len(u) /\ u[i - 1] = x
        BY <1>1, <1>3, <3>1, <3>2
      <4> QED
        BY <4>1 DEF Has
    <3> QED
      BY <3>1, <3>2
  <2> QED
    BY <2>1, NoSlotAssumption DEF Parts
<1> QED
  BY <1>1, <1>2, <1>3, <1>4, <1>5, <1>6 DEF Parts, u

(* The playback task gives its slot back. *)
LEMMA PartsReturn ==
  ASSUME NEW s, NEW f, NEW h \in Slots, Parts(s, f, h)
  PROVE  Parts(s, Append(f, h), NoSlot) /\ Len(Append(f, h)) = Len(f) + 1
<1> DEFINE g == Append(f, h)
<1>1. s \in Seq(Slots) /\ f \in Seq(Slots) /\ Len(s) \in Nat /\ Len(f) \in Nat
  BY DEF Parts
<1>2. /\ g \in Seq(Slots) /\ Len(g) = Len(f) + 1
      /\ \A i \in 1 .. Len(f) + 1 : g[i] = IF i <= Len(f) THEN f[i] ELSE h
  BY <1>1, AppendProperties
<1> HIDE DEF g
<1>3. Once(g) /\ Apart(s, g)
  BY <1>1, <1>2 DEF Parts, Once, Apart, Lacks
<1>4. Lacks(s, NoSlot) /\ Lacks(g, NoSlot)
  BY <1>1, <1>2, NoSlotAssumption, ElementOfSeq DEF Lacks
<1>5. ASSUME NEW x \in Slots PROVE Has(s, x) \/ Has(g, x)
  <2>1. CASE x = h
    <3>1. Len(f) + 1 \in 1 .. Len(g) /\ g[Len(f) + 1] = x
      BY <1>1, <1>2, <2>1
    <3> QED
      BY <3>1 DEF Has
  <2>2. CASE Has(f, x)
    BY <1>1, <1>2, <2>2 DEF Has
  <2> QED
    BY <2>1, <2>2 DEF Parts
<1> QED
  BY <1>1, <1>2, <1>3, <1>4, <1>5 DEF Parts, g

(* A flush frees every frame of the index. *)
LEMMA PartsFlush ==
  ASSUME NEW s, NEW f, NEW h, Parts(s, f, h)
  PROVE  Parts(<< >>, f \o s, h) /\ Len(f \o s) = Len(f) + Len(s)
<1> DEFINE g == f \o s
<1>1. s \in Seq(Slots) /\ f \in Seq(Slots) /\ Len(s) \in Nat /\ Len(f) \in Nat
  BY DEF Parts
<1>2. /\ g \in Seq(Slots) /\ Len(g) = Len(f) + Len(s)
      /\ \A i \in 1 .. Len(f) + Len(s) : g[i] = IF i <= Len(f) THEN f[i] ELSE s[i - Len(f)]
  BY <1>1, ConcatProperties
<1> HIDE DEF g
<1>10. /\ \A i, j \in 1 .. Len(f) : f[i] = f[j] => i = j
      /\ \A i \in 1 .. Len(s), j \in 1 .. Len(f) : s[i] # f[j]
  BY DEF Parts, Once, Apart
<1>3. Once(g)
  <2> SUFFICES ASSUME NEW i \in 1 .. Len(g), NEW j \in 1 .. Len(g), g[i] = g[j]
               PROVE  i = j
    BY DEF Once
  <2>1. i \in 1 .. Len(f) + Len(s) /\ j \in 1 .. Len(f) + Len(s)
    BY <1>2
  <2>2. CASE i <= Len(f) /\ j <= Len(f)
    BY <2>1, <2>2, <1>1, <1>2 DEF Parts, Once
  <2>3. CASE i > Len(f) /\ j > Len(f)
    <3>1. i - Len(f) \in 1 .. Len(s) /\ j - Len(f) \in 1 .. Len(s)
      BY <2>1, <2>3, <1>1
    <3>2. s[i - Len(f)] = s[j - Len(f)]
      BY <2>1, <2>3, <1>1, <1>2
    <3>3. i - Len(f) = j - Len(f)
      BY <3>1, <3>2 DEF Parts, Once
    <3> QED
      BY <3>3, <2>1, <1>1
  <2>4. CASE i <= Len(f) /\ j > Len(f)
    <3>1. i \in 1 .. Len(f) /\ j - Len(f) \in 1 .. Len(s)
      BY <2>1, <2>4, <1>1
    <3>2. g[i] = f[i] /\ g[j] = s[j - Len(f)]
      <4>1. ~(j <= Len(f))
        BY <1>1, <2>1, <2>4
      <4>2. g[i] = f[i]
        BY <1>2, <2>1, <2>4
      <4>3. g[j] = s[j - Len(f)]
        BY <1>2, <2>1, <4>1
      <4> QED
        BY <4>2, <4>3
    <3>3. s[j - Len(f)] # f[i]
      BY <1>10, <3>1
    <3> QED
      BY <3>2, <3>3
  <2>5. CASE i > Len(f) /\ j <= Len(f)
    <3>1. j \in 1 .. Len(f) /\ i - Len(f) \in 1 .. Len(s)
      BY <2>1, <2>5, <1>1
    <3>2. g[j] = f[j] /\ g[i] = s[i - Len(f)]
      <4>1. ~(i <= Len(f))
        BY <1>1, <2>1, <2>5
      <4>2. g[j] = f[j]
        BY <1>2, <2>1, <2>5
      <4>3. g[i] = s[i - Len(f)]
        BY <1>2, <2>1, <4>1
      <4> QED
        BY <4>2, <4>3
    <3>3. s[i - Len(f)] # f[j]
      BY <1>10, <3>1
    <3> QED
      BY <3>2, <3>3
  <2> QED
    BY <2>1, <2>2, <2>3, <2>4, <2>5, <1>1
<1>4. Lacks(g, h)
  <2>1. /\ \A i \in 1 .. Len(s) : s[i] # h
        /\ \A i \in 1 .. Len(f) : f[i] # h
    BY DEF Parts, Lacks
  <2>2. ASSUME NEW i \in 1 .. Len(g) PROVE g[i] # h
    <3>1. CASE i <= Len(f)
      BY <1>1, <1>2, <2>1, <3>1
    <3>2. CASE i > Len(f)
      <4>1. i - Len(f) \in 1 .. Len(s) /\ g[i] = s[i - Len(f)]
        BY <1>1, <1>2, <3>2
      <4> QED
        BY <2>1, <4>1
    <3> QED
      BY <1>1, <1>2, <3>1, <3>2
  <2> QED
    BY <2>2 DEF Lacks
<1>5. ASSUME NEW x \in Slots PROVE x = h \/ Has(g, x)
  <2>1. CASE Has(f, x)
    BY <1>1, <1>2, <2>1 DEF Has
  <2>2. CASE Has(s, x)
    <3>1. PICK i \in 1 .. Len(s) : s[i] = x
      BY <2>2 DEF Has
    <3>2. Len(f) + i \in 1 .. Len(g) /\ Len(f) + i > Len(f) /\ Len(f) + i - Len(f) = i
      BY <1>1, <1>2, <3>1
    <3>3. g[Len(f) + i] = x
      BY <1>1, <1>2, <3>1, <3>2
    <3> QED
      BY <3>2, <3>3 DEF Has
  <2> QED
    BY <2>1, <2>2 DEF Parts
<1>6. << >> \in Seq(Slots) /\ Once(<< >>) /\ Apart(<< >>, g) /\ Lacks(<< >>, h)
  BY DEF Once, Apart, Lacks
<1> QED
  BY <1>2, <1>3, <1>4, <1>5, <1>6 DEF Parts, g

-----------------------------------------------------------------------------
(* All slots are free in the state audio_buffer_init leaves. *)
LEMMA InitIInv == Init => IInv
<1> SUFFICES ASSUME Init PROVE IInv
  OBVIOUS
<1>1. Capacity \in Nat /\ free_stack \in Seq(Slots) /\ free_top = Capacity
  BY CapacityAssumption DEF Init, Slots, free_top
<1>2. sorted \in Seq(Slots) /\ count = 0
  BY DEF Init, count
<1>3. TypeOK
  <2>1. 0 \in 0 .. TsMod - 1 /\ 0 \in 0 .. MaxChunks
    BY TimestampAssumption
  <2> QED
    BY <1>1, <1>2, <2>1 DEF Init, TypeOK
<1>4. Parts(sorted, free_stack, held)
  <2>1. Once(sorted) /\ Apart(sorted, free_stack) /\ Lacks(sorted, held)
    BY DEF Init, Once, Apart, Lacks
  <2>2. Once(free_stack)
    BY <1>1 DEF Init, Once, free_top
  <2>3. Lacks(free_stack, held)
    BY <1>1, NoSlotAssumption, ElementOfSeq DEF Init, Lacks
  <2>4. ASSUME NEW x \in Slots PROVE Has(free_stack, x)
    <3>1. x + 1 \in 1 .. Len(free_stack) /\ free_stack[x + 1] = x
      BY <1>1 DEF Init, Slots, free_top
    <3> QED
      BY <3>1 DEF Has
  <2> QED
    BY <1>1, <1>2, <2>1, <2>2, <2>3, <2>4 DEF Parts
<1>5. Playback \in Tasks /\ \A p \in Producers : p \in Tasks
  BY DEF Tasks
<1> QED
  BY <1>1, <1>2, <1>3, <1>4, <1>5 DEF Init, IInv, HeldCount

-----------------------------------------------------------------------------
(* What the invariant says of lengths, in the form the steps below need. *)
LEMMA IInvFacts ==
  ASSUME IInv
  PROVE  /\ Capacity \in Nat \ {0} /\ count \in Nat /\ free_top \in Nat
         /\ data_ready \in 0 .. Capacity
         /\ held \in Slots \cup {NoSlot}
         /\ HeldCount(held) \in {0, 1}
         /\ Playback \in Tasks /\ Producers \subseteq Tasks /\ Playback \notin Producers
         /\ Flushers \subseteq Tasks /\ Playback \notin Flushers
         /\ \A p \in Producers : p \notin Flushers
BY CapacityAssumption, TaskAssumption DEF IInv, TypeOK, count, free_top, HeldCount, Tasks

(* audio_buffer_queue_decoded starts a packet: the arrays are not touched. *)
LEMMA QueueDecodedIInv ==
  ASSUME IInv, NEW p \in Producers, QueueDecoded(p)
  PROVE  IInv'
<1>1. /\ UNCHANGED << sorted, free_stack, rtp, data_ready, held >>
      /\ pc' = [pc EXCEPT ![p] = "queue"]
  BY DEF QueueDecoded, Goto
<1>2. PICK t \in Timestamps, n \in 1 .. MaxChunks :
        chunk' = [chunk EXCEPT ![p] = [ts |-> t, left |-> n]]
  BY DEF QueueDecoded
<1>3. t \in 0 .. TsMod - 1 /\ n \in 0 .. MaxChunks /\ n > 0
  BY TimestampAssumption
<1>4. TypeOK'
  BY <1>1, <1>2, <1>3, IInvFacts DEF IInv, TypeOK, count, free_top
<1>5. pc'[Playback] = "holding" <=> held' # NoSlot
  BY <1>1, IInvFacts DEF IInv, TypeOK
<1>6. \A q \in Producers : pc'[q] \in {"queue", "give"} => chunk'[q].left > 0
  BY <1>1, <1>2, <1>3, IInvFacts DEF IInv, TypeOK
<1> QED
  BY <1>1, <1>4, <1>5, <1>6 DEF IInv, count, free_top

(* The two arrays after the overflow path of audio_buffer_queue_chunk. *)
LEMMA OverflowParts ==
  ASSUME IInv
  PROVE  LET kept == IF AtCapacity THEN Tail(sorted) ELSE sorted
             free == IF AtCapacity THEN Append(free_stack, Head(sorted)) ELSE free_stack
         IN  /\ Parts(kept, free, held)
             /\ Len(kept) + Len(free) = count + free_top
             /\ Len(kept) \in Nat /\ Len(free) \in Nat
<1>1. CASE AtCapacity
  <2>1. sorted # << >>
    BY <1>1, IInvFacts DEF AtCapacity, count
  <2> QED
    BY <1>1, <2>1, PartsDropOldest, IInvFacts DEF IInv, count, free_top
<1>2. CASE ~AtCapacity
  BY <1>2, IInvFacts DEF IInv, count, free_top
<1> QED
  BY <1>1, <1>2

(* The lock region of audio_buffer_queue_chunk, with and without overflow. *)
LEMMA QueueChunkIInv ==
  ASSUME IInv, NEW p \in Producers, QueueChunk(p)
  PROVE  IInv'
<1> DEFINE kept == IF AtCapacity THEN Tail(sorted) ELSE sorted
           free == IF AtCapacity THEN Append(free_stack, Head(sorted)) ELSE free_stack
           slot == free[Len(free)]
           pos == sorted_insert_pos(kept, chunk[p].ts)
<1>1. /\ Parts(kept, free, held)
      /\ Len(kept) + Len(free) = count + free_top
      /\ Len(kept) \in Nat /\ Len(free) \in Nat
  BY OverflowParts
<1>2. data_ready' \in 0 .. Capacity
  BY IInvFacts DEF QueueChunk, TokensAfterOverflow, TakeIfAny
<1>3. held' = held /\ chunk' = chunk
  BY DEF QueueChunk
<1>4. chunk[p].ts \in 0 .. TsMod - 1
  BY DEF IInv, TypeOK
<1>5. CASE free = << >>
  <2>1. /\ sorted' = kept /\ free_stack' = free_stack /\ rtp' = rtp
        /\ pc' = [pc EXCEPT ![p] = "idle"]
    BY <1>5 DEF QueueChunk, Goto
  <2>2. ~AtCapacity
    <3> SUFFICES ASSUME AtCapacity PROVE FALSE
      OBVIOUS
    <3>1. sorted # << >>
      BY IInvFacts DEF AtCapacity, count
    <3>2. Len(free) = free_top + 1
      BY <3>1, PartsDropOldest DEF IInv, free_top
    <3> QED
      BY <1>5, <3>2, IInvFacts
  <2>3. sorted' = sorted /\ free_stack' = free_stack
    BY <2>1, <2>2
  <2> QED
    BY <1>2, <1>3, <2>1, <2>3, IInvFacts DEF IInv, TypeOK, count, free_top
<1>6. CASE free # << >>
  <2>1. /\ free_stack' = SubSeq(free, 1, Len(free) - 1)
        /\ sorted' = InsertSlot(kept, pos, slot)
        /\ rtp' = [rtp EXCEPT ![slot] = chunk[p].ts]
        /\ pc' = [pc EXCEPT ![p] = "give"]
    BY <1>6 DEF QueueChunk, Goto
  <2>2. pos \in 0 .. Len(kept)
    <3>1. kept \in Seq(Slots)
      BY <1>1 DEF Parts
    <3> HIDE DEF kept
    <3> QED
      BY <3>1, InsertPosRange
  <2> HIDE DEF kept, free, pos
  <2>3. /\ slot \in Slots /\ Parts(sorted', free_stack', held')
        /\ Len(sorted') = Len(kept) + 1 /\ Len(free_stack') = Len(free) - 1
    BY <1>1, <1>3, <1>6, <2>1, <2>2, PartsInsert
  <2>4. count' + free_top' + HeldCount(held') = Capacity /\ count' \in Nat /\ free_top' \in Nat
    <3>1. Len(free) > 0
      BY <1>1, <1>6, EmptySeq DEF Parts
    <3>2. count' = Len(kept) + 1 /\ free_top' = Len(free) - 1 /\ HeldCount(held') = HeldCount(held)
      BY <1>3, <2>3 DEF count, free_top, HeldCount
    <3>3. Len(kept) + Len(free) = count + free_top /\ Len(kept) \in Nat /\ Len(free) \in Nat
      BY <1>1
    <3>4. count + free_top + HeldCount(held) = Capacity /\ count \in Nat /\ free_top \in Nat
      BY IInvFacts DEF IInv
    <3>5. HeldCount(held) \in Nat
      BY DEF HeldCount
    <3> QED
      BY <3>1, <3>2, <3>3, <3>4, <3>5
  <2>5. TypeOK'
    <3>1. sorted' \in Seq(Slots) /\ free_stack' \in Seq(Slots)
      BY <2>3 DEF Parts
    <3>2. count' <= Capacity /\ free_top' <= Capacity
      BY <1>3, <2>4, IInvFacts
    <3>3. rtp' \in [Slots -> 0 .. TsMod - 1]
      BY <1>4, <2>1, <2>3 DEF IInv, TypeOK
    <3> QED
      BY <1>2, <1>3, <2>1, <3>1, <3>2, <3>3 DEF IInv, TypeOK
  <2>6. pc'[Playback] = "holding" <=> held' # NoSlot
    BY <1>3, <2>1, IInvFacts DEF IInv, TypeOK
  <2>7. \A q \in Producers : pc'[q] \in {"queue", "give"} => chunk'[q].left > 0
    BY <1>3, <2>1, IInvFacts DEF IInv, TypeOK, QueueChunk
  <2> QED
    BY <2>3, <2>4, <2>5, <2>6, <2>7 DEF IInv
<1> QED
  BY <1>5, <1>6

(* The semaphore after a chunk, and the next chunk of the packet. *)
LEMMA GiveTokenIInv ==
  ASSUME IInv, NEW p \in Producers, GiveToken(p)
  PROVE  IInv'
<1>1. UNCHANGED << sorted, free_stack, rtp, held >>
  BY DEF GiveToken
<1>2. data_ready' \in 0 .. Capacity
  BY IInvFacts DEF GiveToken
<1> DEFINE c == [ts |-> (chunk[p].ts + 1) % TsMod, left |-> chunk[p].left - 1]
<1>3. chunk' = [chunk EXCEPT ![p] = c]
  BY DEF GiveToken, IInv, TypeOK
<1>4. chunk[p].left \in 1 .. MaxChunks /\ chunk[p].ts \in 0 .. TsMod - 1
  BY TimestampAssumption DEF GiveToken, IInv, TypeOK
<1>5. c \in [ts : 0 .. TsMod - 1, left : 0 .. MaxChunks]
  <2>1. (chunk[p].ts + 1) % TsMod \in 0 .. TsMod - 1
    BY <1>4, TimestampAssumption
  <2>2. chunk[p].left - 1 \in 0 .. MaxChunks
    BY <1>4, TimestampAssumption
  <2> QED
    BY <2>1, <2>2
<1>6. /\ pc' = [pc EXCEPT ![p] = IF chunk[p].left > 1 THEN "queue" ELSE "idle"]
      /\ pc[p] = "give"
  BY DEF GiveToken, Goto
<1> HIDE DEF c
<1>7. TypeOK'
  BY <1>1, <1>2, <1>3, <1>5, <1>6 DEF IInv, TypeOK, count, free_top
<1>8. pc'[Playback] = "holding" <=> held' # NoSlot
  BY <1>1, <1>6, IInvFacts DEF IInv, TypeOK
<1>9. ASSUME NEW q \in Producers, pc'[q] \in {"queue", "give"}
      PROVE  chunk'[q].left > 0
  <2>1. CASE q = p
    <3>1. chunk[p].left > 1
      BY <1>6, <1>9, <2>1, IInvFacts DEF IInv, TypeOK
    <3>2. chunk'[q].left = chunk[p].left - 1
      BY <1>3, <2>1 DEF c, IInv, TypeOK
    <3> QED
      BY <1>4, <3>1, <3>2
  <2>2. CASE q # p
    BY <1>3, <1>6, <1>9, <2>2, IInvFacts DEF IInv, TypeOK
  <2> QED
    BY <2>1, <2>2
<1> QED
  BY <1>1, <1>7, <1>8, <1>9 DEF IInv, count, free_top

(* The three steps of the playback task. *)
LEMMA ConsumeIInv ==
  ASSUME IInv, Consume
  PROVE  IInv'
<1>1. CASE TakeToken
  <2>1. /\ UNCHANGED << sorted, free_stack, rtp, held, chunk >>
        /\ pc' = [pc EXCEPT ![Playback] = "take"] /\ pc[Playback] = "idle"
    BY <1>1 DEF TakeToken, Goto
  <2>2. data_ready' \in 0 .. Capacity
    BY <1>1, IInvFacts DEF TakeToken, TakeIfAny
  <2>3. TypeOK'
    BY <2>1, <2>2 DEF IInv, TypeOK, count, free_top
  <2>4. pc'[Playback] = "holding" <=> held' # NoSlot
    BY <2>1, IInvFacts DEF IInv, TypeOK
  <2>5. \A q \in Producers : pc'[q] \in {"queue", "give"} => chunk'[q].left > 0
    BY <2>1, IInvFacts DEF IInv, TypeOK
  <2> QED
    BY <2>1, <2>3, <2>4, <2>5 DEF IInv, count, free_top
<1>2. CASE TakeOldest /\ count = 0
  <2>1. /\ UNCHANGED << sorted, free_stack, rtp, held, chunk, data_ready >>
        /\ pc' = [pc EXCEPT ![Playback] = "idle"] /\ pc[Playback] = "take"
    BY <1>2 DEF TakeOldest, Goto
  <2> QED
    BY <2>1, IInvFacts DEF IInv, TypeOK, count, free_top
<1>3. CASE TakeOldest /\ count # 0
  <2>1. /\ UNCHANGED << free_stack, rtp, chunk, data_ready >>
        /\ held' = Head(sorted) /\ sorted' = Tail(sorted)
        /\ pc' = [pc EXCEPT ![Playback] = "holding"] /\ pc[Playback] = "take"
    BY <1>3 DEF TakeOldest, Goto
  <2>2. held = NoSlot
    BY <2>1 DEF IInv
  <2>3. sorted # << >>
    BY <1>3 DEF count
  <2>4. /\ held' \in Slots /\ Parts(sorted', free_stack', held')
        /\ Len(sorted') = Len(sorted) - 1
    BY <2>1, <2>2, <2>3, PartsTake DEF IInv
  <2>5. count' + free_top' + HeldCount(held') = Capacity /\ count' <= Capacity
    <3>1. HeldCount(held') = 1 /\ HeldCount(held) = 0
      BY <2>2, <2>4, NoSlotAssumption DEF HeldCount
    <3>2. count' = count - 1 /\ free_top' = free_top
      BY <2>1, <2>4 DEF count, free_top
    <3>3. count + free_top + 0 = Capacity
      BY <3>1 DEF IInv
    <3> HIDE DEF count, free_top
    <3> QED
      BY <3>1, <3>2, <3>3, IInvFacts
  <2>6. TypeOK'
    BY <2>1, <2>4, <2>5 DEF IInv, TypeOK, Parts, free_top
  <2>7. pc'[Playback] = "holding" <=> held' # NoSlot
    BY <2>1, <2>4, NoSlotAssumption, IInvFacts DEF IInv, TypeOK
  <2>8. \A q \in Producers : pc'[q] \in {"queue", "give"} => chunk'[q].left > 0
    BY <2>1, IInvFacts DEF IInv, TypeOK
  <2> QED
    BY <2>4, <2>5, <2>6, <2>7, <2>8 DEF IInv
<1>4. CASE Return
  <2>1. /\ UNCHANGED << sorted, rtp, chunk, data_ready >>
        /\ held' = NoSlot /\ free_stack' = Append(free_stack, held)
        /\ pc[Playback] = "holding"
    BY <1>4 DEF Return
  <2>2. PICK l \in {"idle", "flush"} : pc' = [pc EXCEPT ![Playback] = l]
    BY <1>4 DEF Return, Goto
  <2>3. held \in Slots
    BY <2>1, IInvFacts DEF IInv
  <2>4. Parts(sorted', free_stack', held') /\ Len(free_stack') = Len(free_stack) + 1
    BY <2>1, <2>3, PartsReturn DEF IInv
  <2>5. count' + free_top' + HeldCount(held') = Capacity /\ free_top' <= Capacity
    BY <2>1, <2>3, <2>4, NoSlotAssumption, IInvFacts DEF IInv, HeldCount, count, free_top
  <2>6. TypeOK'
    BY <2>1, <2>2, <2>4, <2>5 DEF IInv, TypeOK, Parts, count
  <2>7. pc'[Playback] = "holding" <=> held' # NoSlot
    BY <2>1, <2>2, IInvFacts DEF IInv, TypeOK
  <2>8. \A q \in Producers : pc'[q] \in {"queue", "give"} => chunk'[q].left > 0
    BY <2>1, <2>2, IInvFacts DEF IInv, TypeOK
  <2> QED
    BY <2>4, <2>5, <2>6, <2>7, <2>8 DEF IInv
<1> QED
  BY <1>1, <1>2, <1>3, <1>4 DEF Consume

(* The two steps of audio_buffer_flush, by any task. *)
LEMMA FlushIInv ==
  ASSUME IInv, NEW t \in Flushers \cup {Playback}, Flush(t)
  PROVE  IInv'
<1>0. t \in Tasks /\ t \notin Producers
  BY IInvFacts
<1>1. CASE FlushSlots(t)
  <2>1. /\ UNCHANGED << rtp, chunk, data_ready, held >>
        /\ sorted' = << >> /\ free_stack' = free_stack \o sorted
        /\ pc' = [pc EXCEPT ![t] = "drain"]
        /\ t = Playback => pc[Playback] # "holding"
    BY <1>1 DEF FlushSlots, MayFlush, Goto
  <2>2. Parts(sorted', free_stack', held') /\ Len(free_stack') = Len(free_stack) + Len(sorted)
    BY <2>1, PartsFlush DEF IInv
  <2>3. count' = 0
    BY <2>1 DEF count
  <2>4. count' + free_top' + HeldCount(held') = Capacity /\ free_top' <= Capacity
    BY <2>1, <2>2, <2>3, IInvFacts DEF IInv, count, free_top, HeldCount
  <2>5. TypeOK'
    BY <2>1, <2>2, <2>3, <2>4, IInvFacts DEF IInv, TypeOK, Parts
  <2>6. pc'[Playback] = "holding" <=> held' # NoSlot
    BY <1>0, <2>1, IInvFacts DEF IInv, TypeOK
  <2>7. \A q \in Producers : pc'[q] \in {"queue", "give"} => chunk'[q].left > 0
    BY <1>0, <2>1, IInvFacts DEF IInv, TypeOK
  <2> QED
    BY <2>2, <2>4, <2>5, <2>6, <2>7 DEF IInv
<1>2. CASE DrainToken(t)
  <2>1. /\ UNCHANGED << sorted, free_stack, rtp, held, chunk >>
        /\ pc[t] = "drain"
        /\ pc' = pc \/ pc' = [pc EXCEPT ![t] = "idle"]
    BY <1>2 DEF DrainToken, Goto
  <2>2. data_ready' \in 0 .. Capacity
    BY <1>2, IInvFacts DEF DrainToken, TakeIfAny
  <2>3. TypeOK'
    BY <2>1, <2>2 DEF IInv, TypeOK, count, free_top
  <2>4. pc'[Playback] = "holding" <=> held' # NoSlot
    BY <1>0, <2>1, IInvFacts DEF IInv, TypeOK
  <2>5. \A q \in Producers : pc'[q] \in {"queue", "give"} => chunk'[q].left > 0
    BY <1>0, <2>1, IInvFacts DEF IInv, TypeOK
  <2> QED
    BY <2>1, <2>3, <2>4, <2>5 DEF IInv, count, free_top
<1> QED
  BY <1>1, <1>2 DEF Flush

(* Every step keeps the invariant. *)
LEMMA NextIInv == IInv /\ [Next]_vars => IInv'
<1> SUFFICES ASSUME IInv, [Next]_vars PROVE IInv'
  OBVIOUS
<1>1. ASSUME NEW p \in Producers, Produce(p) PROVE IInv'
  BY <1>1, QueueDecodedIInv, QueueChunkIInv, GiveTokenIInv DEF Produce
<1>2. CASE Consume
  BY <1>2, ConsumeIInv
<1>3. ASSUME NEW t \in Flushers \cup {Playback}, Flush(t) PROVE IInv'
  BY <1>3, FlushIInv
<1>4. CASE UNCHANGED vars
  BY <1>4 DEF vars, IInv, TypeOK, count, free_top
<1> QED
  BY <1>1, <1>2, <1>3, <1>4 DEF Next

-----------------------------------------------------------------------------
(* The inductive invariant holds of every run of the pool. *)
THEOREM Invariance == Spec => []IInv
BY InitIInv, NextIInv, PTL DEF Spec

(* The variables keep their types: the two index arrays never hold more    *)
(* than capacity entries, so no push writes past their end.                *)
THEOREM TypeCorrect == Spec => []TypeOK
<1>1. IInv => TypeOK
  BY DEF IInv
<1> QED
  BY Invariance, <1>1, PTL

(* Every slot of the pool is in exactly one place, whatever the size of    *)
(* the pool and however producers, flushers and the playback task mix.     *)
THEOREM PoolPartition == Spec => []SlotPartition
<1>1. IInv => SlotPartition
  BY DEF IInv, Parts, Once, Apart, Lacks, Has, SlotPartition, NoSlotDoubled,
         NoSlotLost, count, free_top
<1> QED
  BY Invariance, <1>1, PTL

(* A chunk is refused only while the playback task holds the last slot:    *)
(* the overflow path always frees one when the index is full.              *)
THEOREM RefusalExplained == Spec => RefusedOnlyWhileHeld
<1>1. ASSUME IInv, Next, NEW p \in Producers, pc[p] = "queue", pc'[p] = "idle"
      PROVE  held # NoSlot
  <2>1. QueueChunk(p)
    <3>1. ASSUME NEW q \in Producers, Produce(q) PROVE QueueChunk(p)
      <4>1. q = p
        BY <1>1, <3>1, IInvFacts
           DEF Produce, QueueDecoded, QueueChunk, GiveToken, Goto, IInv, TypeOK
      <4> QED
        BY <1>1, <3>1, <4>1 DEF Produce, QueueDecoded, GiveToken
    <3>2. ~Consume
      BY <1>1, IInvFacts DEF Consume, TakeToken, TakeOldest, Return, Goto, IInv, TypeOK
    <3>3. ASSUME NEW t \in Flushers \cup {Playback}, Flush(t) PROVE FALSE
      BY <1>1, <3>3, IInvFacts DEF Flush, FlushSlots, DrainToken, Goto, IInv, TypeOK
    <3> QED
      BY <1>1, <3>1, <3>2, <3>3 DEF Next
  <2> DEFINE free == IF AtCapacity THEN Append(free_stack, Head(sorted)) ELSE free_stack
  <2>2. free = << >>
    BY <1>1, <2>1, IInvFacts DEF QueueChunk, Goto, IInv, TypeOK
  <2>3. ~AtCapacity
    <3> SUFFICES ASSUME AtCapacity PROVE FALSE
      OBVIOUS
    <3>1. sorted # << >>
      BY <1>1, IInvFacts DEF AtCapacity, count
    <3>2. Len(free) = free_top + 1
      BY <1>1, <3>1, PartsDropOldest DEF IInv, free_top
    <3> QED
      BY <1>1, <2>2, <3>2, IInvFacts
  <2>4. free_top = 0 /\ count < Capacity
    BY <1>1, <2>2, <2>3, IInvFacts DEF AtCapacity, free_top
  <2>5. count + free_top + HeldCount(held) = Capacity
    BY <1>1 DEF IInv
  <2> QED
    BY <1>1, <2>4, <2>5, IInvFacts DEF HeldCount
<1>2. ASSUME IInv, [Next]_vars
      PROVE  [\A p \in Producers : (pc[p] = "queue" /\ pc'[p] = "idle") => held # NoSlot]_vars
  BY <1>1, <1>2
<1> QED
  BY <1>2, Invariance, PTL DEF Spec, RefusedOnlyWhileHeld
-----------------------------------------------------------------------------
(* The signed difference of two timestamps, case by case. *)
LEMMA ModSmall ==
  ASSUME NEW x \in Int
  PROVE  /\ 0 <= x /\ x < TsMod => x % TsMod = x
         /\ -TsMod <= x /\ x < 0 => x % TsMod = x + TsMod
BY TimestampAssumption

LEMMA TsCmpCases ==
  ASSUME NEW a \in 0 .. TsMod - 1, NEW b \in 0 .. TsMod - 1
  PROVE  ts_cmp(a, b) =
           IF a >= b THEN IF 2 * (a - b) < TsMod THEN a - b ELSE a - b - TsMod
           ELSE IF 2 * (a - b + TsMod) < TsMod THEN a - b + TsMod ELSE a - b
<1>1. a - b \in Int /\ TsMod \in Nat /\ a \in Nat /\ b \in Nat /\ a < TsMod /\ b < TsMod
  BY TimestampAssumption
<1>2. (a - b) % TsMod = IF a >= b THEN a - b ELSE a - b + TsMod
  BY <1>1, ModSmall
<1> QED
  BY <1>1, <1>2 DEF ts_cmp

LEMMA TsCmpReverse ==
  ASSUME NEW a \in 0 .. TsMod - 1, NEW b \in 0 .. TsMod - 1
  PROVE  /\ ts_cmp(a, b) \in Int /\ ts_cmp(a, a) = 0
         /\ ts_cmp(a, b) >= 0 => ts_cmp(b, a) <= 0
         /\ ts_cmp(a, b) > 0 => ts_cmp(b, a) < 0
<1>1. TsMod \in Nat \ {0} /\ a \in Nat /\ b \in Nat /\ a < TsMod /\ b < TsMod
  BY TimestampAssumption
<1> QED
  BY <1>1, TsCmpCases

(* What PlayOrder says of two timestamps, when they are not opposite. *)
LEMMA TsCmpWithin ==
  ASSUME NEW a \in Timestamps, NEW b \in Timestamps, ts_cmp(a, b) <= 0
  PROVE  2 * ((b - a) % TsMod) < TsMod
<1>1. /\ TsMod \in Nat \ {0} /\ a \in 0 .. TsMod - 1 /\ b \in 0 .. TsMod - 1
      /\ a \in Nat /\ b \in Nat /\ a < TsMod /\ b < TsMod
  BY TimestampAssumption
<1>2. ~(ts_cmp(b, a) < 0 /\ ts_cmp(a, b) <= 0)
  <2>1. ts_cmp(a, b) <= 0 /\ ts_cmp(b, a) < 0 => ts_cmp(a, a) < 0
    BY OrderAssumption
  <2> QED
    BY <1>1, <2>1, TsCmpReverse
<1>3. (b - a) % TsMod = IF b >= a THEN b - a ELSE b - a + TsMod
  BY <1>1, ModSmall
<1> QED
  BY <1>1, <1>2, <1>3, TsCmpCases

LEMMA TsCmpTransitive ==
  ASSUME NEW a \in Timestamps, NEW b \in Timestamps, NEW c \in Timestamps,
         ts_cmp(a, b) <= 0, ts_cmp(b, c) <= 0
  PROVE  ts_cmp(a, c) <= 0
<1>1. a \in 0 .. TsMod - 1 /\ b \in 0 .. TsMod - 1 /\ c \in 0 .. TsMod - 1
  BY TimestampAssumption
<1>2. SUFFICES ASSUME ts_cmp(a, c) > 0 PROVE FALSE
  BY <1>1, TsCmpReverse
<1>3. ts_cmp(c, a) < 0
  BY <1>1, <1>2, TsCmpReverse
<1>4. ts_cmp(b, a) < 0
  BY <1>3, OrderAssumption
<1>5. ts_cmp(a, a) < 0
  BY <1>4, OrderAssumption
<1> QED
  BY <1>1, <1>5, TsCmpReverse

(* The timestamp k chunks after one that was itself wrapped. *)
LEMMA ModShift ==
  ASSUME NEW t \in 0 .. TsMod - 1, NEW k \in Nat
  PROVE  (((t + 1) % TsMod) + k) % TsMod = (t + (k + 1)) % TsMod
<1>1. TsMod \in Nat \ {0} /\ t \in Nat /\ t < TsMod
  BY TimestampAssumption
<1>2. CASE t + 1 < TsMod
  BY <1>1, <1>2, ModSmall
<1>3. CASE t + 1 = TsMod
  <2>1. (t + 1) % TsMod = 0
    BY <1>1, <1>3
  <2>2. (TsMod + k) % TsMod = k % TsMod
    <3> DEFINE q == k \div TsMod
               r == k % TsMod
    <3>1. q \in Int /\ r \in 0 .. TsMod - 1 /\ k = TsMod * q + r
      BY <1>1
    <3> HIDE DEF q, r
    <3>2. TsMod + k = TsMod * (q + 1) + r
      BY <1>1, <3>1
    <3>3. (TsMod * (q + 1) + r) % TsMod = r
      BY <1>1, <3>1
    <3> QED
      BY <3>2, <3>3 DEF r
  <2> QED
    BY <1>1, <1>3, <2>1, <2>2
<1> QED
  BY <1>1, <1>2, <1>3

-----------------------------------------------------------------------------
(* The strengthening of PlayOrder: the index is ascending, and what is in  *)
(* it and what a packet still brings are timestamps of the stream.         *)
Ordered(s, r) ==
  /\ \A i \in 1 .. Len(s) : r[s[i]] \in Timestamps
  /\ \A i, j \in 1 .. Len(s) : i < j => ts_cmp(r[s[i]], r[s[j]]) <= 0

ChunksKnown ==
  \A p \in Producers : pc[p] \in {"queue", "give"} =>
    \A k \in 0 .. chunk[p].left - 1 : (chunk[p].ts + k) % TsMod \in Timestamps

OrderInv == IInv /\ Ordered(sorted, rtp) /\ ChunksKnown

(* In an ascending index the older frames are the first ones, as many as   *)
(* sorted_insert_pos counts.                                               *)
LEMMA InsertPosSplits ==
  ASSUME NEW s \in Seq(Slots), Ordered(s, rtp), NEW t \in Timestamps
  PROVE  \A i \in 1 .. Len(s) : ts_cmp(rtp[s[i]], t) < 0 <=> i <= sorted_insert_pos(s, t)
<1> DEFINE D == {i \in 1 .. Len(s) : ts_cmp(rtp[s[i]], t) < 0}
<1>1. Len(s) \in Nat
  OBVIOUS
<1>2. IsFiniteSet(1 .. Len(s))
  BY <1>1, FS_Interval
<1>3. IsFiniteSet(D) /\ Cardinality(D) \in Nat
  BY <1>2, FS_Subset, FS_CardinalityType
<1>4. sorted_insert_pos(s, t) = Cardinality(D)
  BY DEF sorted_insert_pos
<1>5. ASSUME NEW i \in D, NEW j \in 1 .. i PROVE j \in D
  <2>1. CASE j = i
    BY <2>1
  <2>2. CASE j # i
    <3>1. j \in 1 .. Len(s) /\ j < i /\ i \in 1 .. Len(s)
      BY <1>1, <1>5, <2>2
    <3>2. rtp[s[j]] \in Timestamps /\ rtp[s[i]] \in Timestamps /\ ts_cmp(rtp[s[j]], rtp[s[i]]) <= 0
      BY <3>1 DEF Ordered
    <3>3. ts_cmp(rtp[s[i]], t) < 0
      OBVIOUS
    <3>4. ts_cmp(rtp[s[j]], t) < 0
      BY <3>2, <3>3, OrderAssumption
    <3> QED
      BY <3>1, <3>4
  <2> QED
    BY <2>1, <2>2
<1>6. ASSUME NEW i \in 1 .. Len(s), i \in D PROVE i <= Cardinality(D)
  <2>1. 1 .. i \subseteq D
    BY <1>5, <1>6
  <2>2. Cardinality(1 .. i) = i
    BY <1>1, FS_Interval
  <2> QED
    BY <1>3, <2>1, <2>2, FS_Subset
<1>7. ASSUME NEW i \in 1 .. Len(s), i \notin D PROVE Cardinality(D) < i
  <2>1. D \subseteq 1 .. i - 1
    <3>1. ASSUME NEW j \in D, ~(j < i) PROVE FALSE
      <4>1. i \in 1 .. j
        BY <1>1, <3>1
      <4> QED
        BY <1>5, <1>7, <4>1
    <3>2. D \subseteq 1 .. Len(s)
      OBVIOUS
    <3> HIDE DEF D
    <3> QED
      BY <1>1, <3>1, <3>2
  <2>2. IsFiniteSet(1 .. i - 1) /\ Cardinality(1 .. i - 1) = i - 1
    <3>1. 1 \in Int /\ i - 1 \in Int /\ i >= 1
      BY <1>1
    <3>2. Cardinality(1 .. i - 1) = IF 1 > i - 1 THEN 0 ELSE i - 1 - 1 + 1
      BY <3>1, FS_Interval
    <3> QED
      BY <3>1, <3>2, FS_Interval
  <2> HIDE DEF D
  <2>3. Cardinality(D) <= i - 1
    <3>1. Cardinality(D) <= Cardinality(1 .. i - 1)
      BY <2>1, <2>2, FS_Subset
    <3> QED
      BY <2>2, <3>1
  <2> QED
    BY <1>1, <1>3, <2>3
<1>8. \A i \in 1 .. Len(s) : i \in D <=> ts_cmp(rtp[s[i]], t) < 0
  OBVIOUS
<1> HIDE DEF D
<1> QED
  BY <1>1, <1>3, <1>4, <1>6, <1>7, <1>8

(* An ascending index stays so without its first frame, and with a new     *)
(* frame at its place.                                                     *)
LEMMA TailOrdered ==
  ASSUME NEW s \in Seq(Slots), s # << >>, Ordered(s, rtp)
  PROVE  Ordered(Tail(s), rtp) /\ Tail(s) \in Seq(Slots)
<1>1. Len(s) \in Nat \ {0}
  BY EmptySeq
<1>2. Tail(s) \in Seq(Slots) /\ Len(Tail(s)) = Len(s) - 1
      /\ \A i \in 1 .. Len(s) - 1 : Tail(s)[i] = s[i + 1]
  BY <1>1, HeadTailProperties
<1> QED
  BY <1>1, <1>2 DEF Ordered

LEMMA InsertOrdered ==
  ASSUME NEW s \in Seq(Slots), Ordered(s, rtp), NEW t \in Timestamps,
         NEW x \in Slots, Lacks(s, x), rtp \in [Slots -> 0 .. TsMod - 1]
  PROVE  Ordered(InsertSlot(s, sorted_insert_pos(s, t), x), [rtp EXCEPT ![x] = t])
<1> DEFINE pos == sorted_insert_pos(s, t)
           u == InsertSlot(s, pos, x)
           r == [rtp EXCEPT ![x] = t]
<1>1. Len(s) \in Nat /\ pos \in 0 .. Len(s) /\ pos \in Nat
  BY InsertPosRange
<1>2. \A i \in 1 .. Len(s) : ts_cmp(rtp[s[i]], t) < 0 <=> i <= pos
  BY InsertPosSplits
<1> HIDE DEF pos
<1>3. /\ u \in Seq(Slots) /\ Len(u) = Len(s) + 1
      /\ \A i \in 1 .. Len(s) + 1 :
           u[i] = IF i <= pos THEN s[i] ELSE IF i = pos + 1 THEN x ELSE s[i - 1]
  BY <1>1, InsertSlotProperties
<1>4. r[x] = t /\ \A i \in 1 .. Len(s) : r[s[i]] = rtp[s[i]]
  BY DEF Lacks
<1> HIDE DEF u, r
<1>5. ASSUME NEW i \in 1 .. Len(s) + 1
      PROVE  /\ i <= pos => i \in 1 .. Len(s) /\ r[u[i]] = rtp[s[i]]
             /\ i = pos + 1 => r[u[i]] = t
             /\ i > pos + 1 => i - 1 \in 1 .. Len(s) /\ r[u[i]] = rtp[s[i - 1]]
  <2>1. u[i] = IF i <= pos THEN s[i] ELSE IF i = pos + 1 THEN x ELSE s[i - 1]
    BY <1>3
  <2>2. i <= pos => i \in 1 .. Len(s)
    BY <1>1
  <2>3. i > pos + 1 => i - 1 \in 1 .. Len(s) /\ ~(i <= pos) /\ i # pos + 1
    BY <1>1
  <2>4. i = pos + 1 => ~(i <= pos)
    BY <1>1
  <2> QED
    BY <1>4, <2>1, <2>2, <2>3, <2>4
<1>6. ASSUME NEW i \in 1 .. Len(u) PROVE r[u[i]] \in Timestamps
  <2>1. i \in 1 .. Len(s) + 1 /\ (i <= pos \/ i = pos + 1 \/ i > pos + 1)
    <3>1. Len(u) = Len(s) + 1
      BY <1>3
    <3>2. i \in 1 .. Len(s) + 1
      BY <3>1
    <3> QED
      BY <1>1, <3>2
  <2>2. \A k \in 1 .. Len(s) : rtp[s[k]] \in Timestamps
    BY DEF Ordered
  <2>3. CASE i <= pos
    BY <1>5, <2>1, <2>2, <2>3
  <2>4. CASE i = pos + 1
    BY <1>5, <2>1, <2>4
  <2>5. CASE i > pos + 1
    BY <1>5, <2>1, <2>2, <2>5
  <2> QED
    BY <2>1, <2>3, <2>4, <2>5
<1>7. /\ \A i \in 1 .. Len(s) : i <= pos => ts_cmp(rtp[s[i]], t) <= 0
      /\ \A i \in 1 .. Len(s) : i > pos => ts_cmp(t, rtp[s[i]]) <= 0
  <2>1. ASSUME NEW i \in 1 .. Len(s)
        PROVE  /\ ts_cmp(rtp[s[i]], t) \in Int
               /\ ts_cmp(rtp[s[i]], t) >= 0 => ts_cmp(t, rtp[s[i]]) <= 0
    <3>1. rtp[s[i]] \in 0 .. TsMod - 1 /\ t \in 0 .. TsMod - 1
      BY TimestampAssumption DEF Ordered
    <3> QED
      BY <3>1, TsCmpReverse
  <2> QED
    BY <1>1, <1>2, <2>1
<1>8. ASSUME NEW i \in 1 .. Len(u), NEW j \in 1 .. Len(u), i < j
      PROVE  ts_cmp(r[u[i]], r[u[j]]) <= 0
  <2>0. i \in 1 .. Len(s) + 1 /\ j \in 1 .. Len(s) + 1
    BY <1>3
  <2>1. CASE j <= pos
    <3>1. i <= pos
      BY <1>1, <1>8, <2>0, <2>1
    <3> QED
      BY <1>5, <1>8, <2>0, <2>1, <3>1 DEF Ordered
  <2>2. CASE j = pos + 1
    <3>1. i <= pos
      BY <1>1, <1>8, <2>0, <2>2
    <3> QED
      BY <1>5, <1>7, <2>0, <2>2, <3>1
  <2>3. CASE j > pos + 1 /\ i <= pos
    <3>1. i < j - 1
      BY <1>1, <2>0, <2>3
    <3> QED
      BY <1>5, <2>0, <2>3, <3>1 DEF Ordered
  <2>4. CASE j > pos + 1 /\ i = pos + 1
    <3>1. j - 1 > pos
      BY <1>1, <2>0, <2>4
    <3> QED
      BY <1>5, <1>7, <2>0, <2>4, <3>1
  <2>5. CASE i > pos + 1
    <3>1. i - 1 < j - 1 /\ j > pos + 1
      BY <1>1, <1>8, <2>0, <2>5
    <3> QED
      BY <1>5, <2>0, <2>5, <3>1 DEF Ordered
  <2> QED
    BY <1>1, <2>0, <2>1, <2>2, <2>3, <2>4, <2>5
<1>9. Ordered(u, r)
  BY <1>6, <1>8 DEF Ordered
<1> QED
  BY <1>9 DEF u, r, pos

-----------------------------------------------------------------------------
(* The initial state and every step keep the order. *)
LEMMA InitOrder == Init => OrderInv
<1> SUFFICES ASSUME Init PROVE OrderInv
  OBVIOUS
<1>1. Ordered(sorted, rtp)
  BY DEF Init, Ordered
<1>2. ChunksKnown
  BY DEF Init, ChunksKnown, Tasks
<1> QED
  BY <1>1, <1>2, InitIInv DEF OrderInv

LEMMA QueueDecodedOrder ==
  ASSUME OrderInv, NEW p \in Producers, QueueDecoded(p)
  PROVE  Ordered(sorted', rtp') /\ ChunksKnown'
<1>1. sorted' = sorted /\ rtp' = rtp /\ pc' = [pc EXCEPT ![p] = "queue"]
  BY DEF QueueDecoded, Goto
<1>2. PICK t \in Timestamps, n \in 1 .. MaxChunks :
        /\ \A k \in 0 .. n - 1 : (t + k) % TsMod \in Timestamps
        /\ chunk' = [chunk EXCEPT ![p] = [ts |-> t, left |-> n]]
  BY DEF QueueDecoded
<1>3. ASSUME NEW q \in Producers, pc'[q] \in {"queue", "give"},
             NEW k \in 0 .. chunk'[q].left - 1
      PROVE  (chunk'[q].ts + k) % TsMod \in Timestamps
  <2>1. CASE q = p
    BY <1>2, <1>3, <2>1 DEF OrderInv, IInv, TypeOK
  <2>2. CASE q # p
    <3>1. chunk'[q] = chunk[q] /\ pc'[q] = pc[q]
      BY <1>1, <1>2, <2>2 DEF OrderInv, IInv, TypeOK
    <3> QED
      BY <1>3, <3>1 DEF OrderInv, ChunksKnown
  <2> QED
    BY <2>1, <2>2
<1> QED
  BY <1>1, <1>3 DEF OrderInv, Ordered, ChunksKnown

LEMMA QueueChunkOrder ==
  ASSUME OrderInv, NEW p \in Producers, QueueChunk(p)
  PROVE  Ordered(sorted', rtp') /\ ChunksKnown'
<1> DEFINE kept == IF AtCapacity THEN Tail(sorted) ELSE sorted
           free == IF AtCapacity THEN Append(free_stack, Head(sorted)) ELSE free_stack
           slot == free[Len(free)]
           t == chunk[p].ts
<1>0. IInv
  BY DEF OrderInv
<1>1. Parts(kept, free, held) /\ Len(free) \in Nat
  BY <1>0, OverflowParts
<1>2. kept \in Seq(Slots) /\ Ordered(kept, rtp)
  <2>1. CASE AtCapacity
    <3>1. sorted # << >> /\ sorted \in Seq(Slots)
      BY <1>0, <2>1, IInvFacts DEF AtCapacity, count, IInv, TypeOK
    <3> QED
      BY <2>1, <3>1, TailOrdered DEF OrderInv
  <2>2. CASE ~AtCapacity
    BY <2>2 DEF OrderInv, IInv, TypeOK
  <2> QED
    BY <2>1, <2>2
<1>3. pc[p] = "queue" /\ chunk' = chunk /\ (pc' = [pc EXCEPT ![p] = "idle"] \/ pc' = [pc EXCEPT ![p] = "give"])
  BY DEF QueueChunk, Goto
<1>4. ChunksKnown'
  BY <1>0, <1>3, IInvFacts DEF OrderInv, ChunksKnown, IInv, TypeOK
<1>5. t \in Timestamps
  <2>1. chunk[p].left \in Nat /\ chunk[p].left > 0 /\ t \in 0 .. TsMod - 1
    BY <1>0, <1>3 DEF IInv, TypeOK
  <2>2. (t + 0) % TsMod \in Timestamps
    BY <1>3, <2>1 DEF OrderInv, ChunksKnown
  <2> QED
    BY <2>1, <2>2, TimestampAssumption, ModSmall
<1>6. CASE free = << >>
  <2>1. sorted' = kept /\ rtp' = rtp
    BY <1>6 DEF QueueChunk
  <2> QED
    BY <1>2, <1>4, <2>1
<1>7. CASE free # << >>
  <2>1. /\ sorted' = InsertSlot(kept, sorted_insert_pos(kept, t), slot)
        /\ rtp' = [rtp EXCEPT ![slot] = t]
    BY <1>7 DEF QueueChunk
  <2>2. slot \in Slots /\ Lacks(kept, slot)
    <3> HIDE DEF kept, free
    <3>1. free \in Seq(Slots) /\ Len(free) \in 1 .. Len(free)
      BY <1>1, <1>7, EmptySeq DEF Parts
    <3> QED
      BY <1>1, <3>1 DEF Parts, Apart, Lacks
  <2>3. rtp \in [Slots -> 0 .. TsMod - 1]
    BY <1>0 DEF IInv, TypeOK
  <2> HIDE DEF kept, slot, t
  <2>4. Ordered(InsertSlot(kept, sorted_insert_pos(kept, t), slot), [rtp EXCEPT ![slot] = t])
    BY <1>2, <1>5, <2>2, <2>3, InsertOrdered
  <2> QED
    BY <1>4, <2>1, <2>4
<1> QED
  BY <1>6, <1>7

LEMMA GiveTokenOrder ==
  ASSUME OrderInv, NEW p \in Producers, GiveToken(p)
  PROVE  Ordered(sorted', rtp') /\ ChunksKnown'
<1>0. IInv
  BY DEF OrderInv
<1>1. /\ sorted' = sorted /\ rtp' = rtp /\ pc[p] = "give"
      /\ pc' = [pc EXCEPT ![p] = IF chunk[p].left > 1 THEN "queue" ELSE "idle"]
      /\ chunk' = [chunk EXCEPT ![p] = [ts |-> (chunk[p].ts + 1) % TsMod,
                                        left |-> chunk[p].left - 1]]
  BY <1>0 DEF GiveToken, Goto, IInv, TypeOK
<1>2. ASSUME NEW q \in Producers, pc'[q] \in {"queue", "give"},
             NEW k \in 0 .. chunk'[q].left - 1
      PROVE  (chunk'[q].ts + k) % TsMod \in Timestamps
  <2>1. CASE q = p
    <3>1. /\ chunk'[q].ts = (chunk[p].ts + 1) % TsMod /\ chunk'[q].left = chunk[p].left - 1
          /\ chunk[p].ts \in 0 .. TsMod - 1 /\ chunk[p].left \in Nat
      BY <1>0, <1>1, <2>1 DEF IInv, TypeOK
    <3>2. k \in Nat /\ k + 1 \in 0 .. chunk[p].left - 1
      BY <1>2, <3>1
    <3>3. (chunk[p].ts + (k + 1)) % TsMod \in Timestamps
      BY <1>1, <3>2 DEF OrderInv, ChunksKnown
    <3> QED
      BY <3>1, <3>2, <3>3, ModShift
  <2>2. CASE q # p
    <3>1. chunk'[q] = chunk[q] /\ pc'[q] = pc[q]
      BY <1>0, <1>1, <2>2 DEF IInv, TypeOK
    <3> QED
      BY <1>2, <3>1 DEF OrderInv, ChunksKnown
  <2> QED
    BY <2>1, <2>2
<1> QED
  BY <1>1, <1>2 DEF OrderInv, ChunksKnown

LEMMA ConsumeOrder ==
  ASSUME OrderInv, Consume
  PROVE  Ordered(sorted', rtp') /\ ChunksKnown'
<1>0. IInv
  BY DEF OrderInv
<1>1. rtp' = rtp /\ chunk' = chunk
  BY DEF Consume, TakeToken, TakeOldest, Return
<1>2. \A q \in Producers : pc'[q] = pc[q]
  BY <1>0, IInvFacts DEF Consume, TakeToken, TakeOldest, Return, Goto, IInv, TypeOK
<1>3. sorted' = sorted \/ (sorted # << >> /\ sorted' = Tail(sorted))
  BY <1>0 DEF Consume, TakeToken, TakeOldest, Return, count, IInv, TypeOK
<1>4. Ordered(sorted', rtp')
  BY <1>0, <1>1, <1>3, TailOrdered DEF OrderInv, IInv, TypeOK
<1> QED
  BY <1>1, <1>2, <1>4 DEF OrderInv, ChunksKnown

LEMMA FlushOrder ==
  ASSUME OrderInv, NEW t \in Flushers \cup {Playback}, Flush(t)
  PROVE  Ordered(sorted', rtp') /\ ChunksKnown'
<1>0. IInv
  BY DEF OrderInv
<1>1. rtp' = rtp /\ chunk' = chunk /\ (sorted' = sorted \/ sorted' = << >>)
  BY DEF Flush, FlushSlots, DrainToken
<1>2. \A q \in Producers : pc'[q] = pc[q]
  BY <1>0, IInvFacts DEF Flush, FlushSlots, DrainToken, Goto, IInv, TypeOK
<1>3. Ordered(sorted', rtp')
  BY <1>1 DEF OrderInv, Ordered
<1> QED
  BY <1>1, <1>2, <1>3 DEF OrderInv, ChunksKnown

LEMMA NextOrder == OrderInv /\ [Next]_vars => OrderInv'
<1> SUFFICES ASSUME OrderInv, [Next]_vars PROVE OrderInv'
  OBVIOUS
<1>0. IInv'
  BY NextIInv DEF OrderInv
<1>1. ASSUME NEW p \in Producers, Produce(p) PROVE OrderInv'
  BY <1>0, <1>1, QueueDecodedOrder, QueueChunkOrder, GiveTokenOrder DEF Produce, OrderInv
<1>2. CASE Consume
  BY <1>0, <1>2, ConsumeOrder DEF OrderInv
<1>3. ASSUME NEW t \in Flushers \cup {Playback}, Flush(t) PROVE OrderInv'
  BY <1>0, <1>3, FlushOrder DEF OrderInv
<1>4. CASE UNCHANGED vars
  BY <1>0, <1>4 DEF vars, OrderInv, Ordered, ChunksKnown
<1> QED
  BY <1>1, <1>2, <1>3, <1>4 DEF Next

(* The frames are in play order, across the wrap of the timestamp, in      *)
(* whatever order the packets arrive and however the tasks mix.            *)
THEOREM FramesInOrder == Spec => []PlayOrder
<1>1. OrderInv => PlayOrder
  BY TsCmpWithin DEF OrderInv, Ordered, PlayOrder, count
<1> QED
  BY InitOrder, NextOrder, <1>1, PTL DEF Spec

-----------------------------------------------------------------------------
(* The producers that owe a token. *)
Giving == {p \in Producers : pc[p] = "give"}

LEMMA GivingFinite == IsFiniteSet(Giving) /\ TokensOwed = Cardinality(Giving) /\ TokensOwed \in Nat
<1>1. IsFiniteSet(Giving)
  BY ProducerAssumption, FS_Subset DEF Giving
<1> QED
  BY <1>1, FS_CardinalityType DEF Giving, TokensOwed

(* One producer gets to the semaphore, one passes it, or none moves. *)
LEMMA OneMoreGiving ==
  ASSUME IInv, NEW p \in Producers, pc[p] # "give", pc' = [pc EXCEPT ![p] = "give"]
  PROVE  TokensOwed' = TokensOwed + 1
<1>1. Giving' = Giving \cup {p} /\ p \notin Giving
  BY IInvFacts DEF Giving, IInv, TypeOK
<1> QED
  BY <1>1, GivingFinite, FS_AddElement DEF Giving, TokensOwed

LEMMA OneLessGiving ==
  ASSUME IInv, NEW p \in Producers, pc[p] = "give", NEW l, l # "give", pc' = [pc EXCEPT ![p] = l]
  PROVE  TokensOwed' = TokensOwed - 1
<1>1. Giving' = Giving \ {p} /\ p \in Giving
  BY IInvFacts DEF Giving, IInv, TypeOK
<1> QED
  BY <1>1, GivingFinite, FS_RemoveElement DEF Giving, TokensOwed

LEMMA SameGiving ==
  ASSUME \A p \in Producers : pc'[p] = "give" <=> pc[p] = "give"
  PROVE  TokensOwed' = TokensOwed
BY DEF TokensOwed

(* A producer at the lock has not all the tokens of a full pool on their   *)
(* way: there is one left to take back.                                    *)
LEMMA TokenLeft ==
  ASSUME IInv, Balanced, NEW p \in Producers, pc[p] # "give", AtCapacity
  PROVE  data_ready > 0
<1>1. Giving \subseteq Producers \ {p}
  BY DEF Giving
<1>2. /\ IsFiniteSet(Producers \ {p})
      /\ Cardinality(Producers \ {p}) = Cardinality(Producers) - 1
  BY ProducerAssumption, FS_RemoveElement
<1>3. Cardinality(Giving) <= Cardinality(Producers) - 1
  BY <1>1, <1>2, FS_Subset
<1>4. Cardinality(Producers) \in Nat
  BY ProducerAssumption, FS_CardinalityType
<1>5. TokenInHand \in {0, 1}
  BY DEF TokenInHand
<1> QED
  BY <1>3, <1>4, <1>5, GivingFinite, ProducerAssumption, IInvFacts DEF Balanced, AtCapacity

LEMMA QueueChunkBalanced ==
  ASSUME IInv, Balanced, NEW p \in Producers, QueueChunk(p)
  PROVE  Balanced'
<1> DEFINE kept == IF AtCapacity THEN Tail(sorted) ELSE sorted
           free == IF AtCapacity THEN Append(free_stack, Head(sorted)) ELSE free_stack
           slot == free[Len(free)]
           pos == sorted_insert_pos(kept, chunk[p].ts)
<1>1. pc[p] = "queue" /\ data_ready' = TokensAfterOverflow
  BY DEF QueueChunk
<1>2. Parts(kept, free, held) /\ Len(kept) \in Nat /\ kept \in Seq(Slots)
  BY OverflowParts DEF Parts
<1>3. /\ data_ready' = data_ready - (count - Len(kept))
      /\ data_ready \in Int /\ data_ready' \in Int /\ count \in Nat
  <2>1. CASE AtCapacity
    <3>1. data_ready' = data_ready - 1
      BY <1>1, <2>1, TokenLeft DEF TokensAfterOverflow, TakeIfAny
    <3>2. sorted # << >>
      BY <2>1, IInvFacts DEF AtCapacity, count
    <3>3. Len(kept) = count - 1
      BY <2>1, <3>2, PartsDropOldest DEF IInv, count
    <3> QED
      BY <3>1, <3>3, IInvFacts
  <2>2. CASE ~AtCapacity
    BY <1>1, <2>2, IInvFacts DEF TokensAfterOverflow, count
  <2> QED
    BY <2>1, <2>2
<1>4. TokenInHand' = TokenInHand /\ TokenInHand \in {0, 1}
  BY IInvFacts DEF TokenInHand, QueueChunk, Goto, IInv, TypeOK
<1> DEFINE n == Len(kept)
<1>7. n \in Nat /\ n = data_ready' + TokensOwed + TokenInHand' /\ TokensOwed \in Nat
  <2>1. n \in Nat /\ data_ready' = data_ready - (count - n)
    BY <1>2, <1>3
  <2> HIDE DEF n
  <2>2. data_ready + TokensOwed + TokenInHand = count
    BY DEF Balanced
  <2>3. data_ready \in Int /\ data_ready' \in Int /\ count \in Nat
    BY <1>3
  <2>4. TokensOwed \in Nat
    BY GivingFinite
  <2> QED
    BY <1>4, <2>1, <2>2, <2>3, <2>4
<1>5. CASE free = << >>
  <2>1. sorted' = kept /\ pc' = [pc EXCEPT ![p] = "idle"]
    BY <1>5 DEF QueueChunk, Goto
  <2>2. TokensOwed' = TokensOwed
    BY <1>1, <2>1, SameGiving, IInvFacts DEF IInv, TypeOK
  <2>3. count' = n
    BY <2>1 DEF count
  <2> HIDE DEF n
  <2> QED
    BY <1>3, <1>4, <1>7, <2>2, <2>3 DEF Balanced
<1>6. CASE free # << >>
  <2>1. sorted' = InsertSlot(kept, pos, slot) /\ pc' = [pc EXCEPT ![p] = "give"]
    BY <1>6 DEF QueueChunk, Goto
  <2>2. TokensOwed' = TokensOwed + 1
    BY <1>1, <2>1, OneMoreGiving
  <2>3. pos \in 0 .. Len(kept)
    <3> HIDE DEF kept
    <3> QED
      BY <1>2, InsertPosRange
  <2>4. count' = n + 1
    <3> HIDE DEF kept, free, pos
    <3> QED
      BY <1>2, <1>6, <2>1, <2>3, PartsInsert DEF count
  <2> HIDE DEF n
  <2>5. data_ready' \in Int /\ TokenInHand' \in Int
    BY <1>3, <1>4
  <2>6. n + 1 = data_ready' + (TokensOwed + 1) + TokenInHand'
    BY <1>7, <2>5
  <2> QED
    BY <2>2, <2>4, <2>6 DEF Balanced
<1> QED
  BY <1>5, <1>6

LEMMA GiveTokenBalanced ==
  ASSUME IInv, Balanced, NEW p \in Producers, GiveToken(p)
  PROVE  Balanced'
<1> DEFINE l == IF chunk[p].left > 1 THEN "queue" ELSE "idle"
<1>1. /\ pc[p] = "give" /\ pc' = [pc EXCEPT ![p] = l] /\ l # "give" /\ sorted' = sorted
  BY DEF GiveToken, Goto
<1> HIDE DEF l
<1>2. TokensOwed' = TokensOwed - 1
  BY <1>1, OneLessGiving
<1>3. TokensOwed >= 1
  <2>1. p \in Giving
    BY <1>1 DEF Giving
  <2> QED
    BY <2>1, GivingFinite, FS_EmptySet
<1>4. TokenInHand' = TokenInHand /\ TokenInHand \in {0, 1}
  BY <1>1, IInvFacts DEF TokenInHand, IInv, TypeOK
<1>5. data_ready' = data_ready + 1
  <2>0. count <= Capacity
    BY DEF IInv, TypeOK
  <2>1. data_ready < Capacity
    BY <1>3, <1>4, <2>0, GivingFinite, IInvFacts DEF Balanced
  <2> QED
    BY <2>1 DEF GiveToken
<1>6. count' = count
  BY <1>1 DEF count
<1> QED
  BY <1>2, <1>4, <1>5, <1>6, GivingFinite, IInvFacts DEF Balanced

LEMMA ConsumeBalanced ==
  ASSUME IInv, Balanced, Consume
  PROVE  Balanced'
<1>1. \A q \in Producers : pc'[q] = pc[q]
  BY IInvFacts DEF Consume, TakeToken, TakeOldest, Return, Goto, IInv, TypeOK
<1>2. TokensOwed' = TokensOwed
  BY <1>1, SameGiving
<1>3. CASE TakeToken
  <2>1. TokenInHand = 0 /\ TokenInHand' = 1 /\ data_ready' = data_ready - 1
    BY <1>3, IInvFacts DEF TakeToken, TakeIfAny, TokenInHand, Goto, IInv, TypeOK
  <2>2. count' = count
    BY <1>3 DEF TakeToken, count
  <2> QED
    BY <1>2, <2>1, <2>2, GivingFinite, IInvFacts DEF Balanced
<1>4. CASE TakeOldest
  <2>1. TokenInHand = 1 /\ TokenInHand' = 0 /\ data_ready' = data_ready
    BY <1>4, IInvFacts DEF TakeOldest, TokenInHand, Goto, IInv, TypeOK
  <2>2. count # 0
    BY <2>1, GivingFinite, IInvFacts DEF Balanced
  <2>3. count' = count - 1
    BY <1>4, <2>2, HeadTailProperties, EmptySeq DEF TakeOldest, count, IInv, TypeOK
  <2> QED
    BY <1>2, <2>1, <2>3, GivingFinite, IInvFacts DEF Balanced
<1>5. CASE Return
  <2>1. TokenInHand = 0 /\ TokenInHand' = 0 /\ data_ready' = data_ready
    BY <1>5, IInvFacts DEF Return, TokenInHand, Goto, IInv, TypeOK
  <2>2. count' = count
    BY <1>5 DEF Return, count
  <2> QED
    BY <1>2, <2>1, <2>2, GivingFinite, IInvFacts DEF Balanced
<1> QED
  BY <1>3, <1>4, <1>5 DEF Consume

(* Only a flush upsets the balance of tokens and frames, for every pool    *)
(* with more slots than producers.                                         *)
THEOREM OnlyFlushUpsets == Spec => TokenPerFrame
<1>1. ASSUME IInv, [Next]_vars
      PROVE  [Balanced => Balanced' \/ \E t \in Flushers \cup {Playback} : Flush(t)]_vars
  <2>1. SUFFICES ASSUME Next, Balanced, ~(\E t \in Flushers \cup {Playback} : Flush(t))
                 PROVE  Balanced'
    BY <1>1
  <2>2. ASSUME NEW p \in Producers, QueueDecoded(p) PROVE Balanced'
    <3>1. /\ sorted' = sorted /\ data_ready' = data_ready
          /\ pc[p] = "idle" /\ pc' = [pc EXCEPT ![p] = "queue"]
      BY <2>2 DEF QueueDecoded, Goto
    <3>2. TokensOwed' = TokensOwed
      BY <1>1, <3>1, SameGiving, IInvFacts DEF IInv, TypeOK
    <3>3. TokenInHand' = TokenInHand
      BY <1>1, <3>1, IInvFacts DEF TokenInHand, IInv, TypeOK
    <3> QED
      BY <2>1, <3>1, <3>2, <3>3 DEF Balanced, count
  <2>3. ASSUME NEW p \in Producers, QueueChunk(p) PROVE Balanced'
    BY <1>1, <2>1, <2>3, QueueChunkBalanced
  <2>4. ASSUME NEW p \in Producers, GiveToken(p) PROVE Balanced'
    BY <1>1, <2>1, <2>4, GiveTokenBalanced
  <2>5. CASE Consume
    BY <1>1, <2>1, <2>5, ConsumeBalanced
  <2> QED
    BY <2>1, <2>2, <2>3, <2>4, <2>5 DEF Next, Produce
<1> QED
  BY <1>1, Invariance, PTL DEF Spec, TokenPerFrame

-----------------------------------------------------------------------------
(* The way of a frame, module Playback: each place it may be in, from the  *)
(* sender to the ear.                                                      *)
NotSent == {f \in [gen : Nat, rtp : Nat] :
              f.gen > gen \/ (f.gen = gen /\ f.rtp >= plan.start[gen] + sent)}
OnTheWay == {socket[i] : i \in DOMAIN socket}
InDecoder == {decoding} \ {NoFrame}
InHand == {pending, read.frame} \ {NoFrame}
LastHeard == {heard} \ {NoFrame}

(* Of the same generation, what is in A comes before what is in B. *)
Comes(A, B) == \A a \in A, b \in B : a.gen = b.gen => a.rtp < b.rtp

Reads == [pc : {"idle", "fetch", "check", "stash"}, frame : Frames \cup {NoFrame},
          from_pending : BOOLEAN]

FramesKnown ==
  /\ plan \in Scenarios /\ gen \in Generations /\ sent \in 0 .. FramesPerGen
  /\ socket \in Seq(Frames) /\ buffer \subseteq Frames
  /\ decoding \in Frames \cup {NoFrame} /\ pending \in Frames \cup {NoFrame}
  /\ heard \in Frames \cup {NoFrame} /\ read \in Reads

(* The playback task has one frame in hand: the pending one is the one it  *)
(* reads, and there is none when it took one from the pool.                *)
OneInHand ==
  /\ read.pc \in {"check", "stash"} <=> read.frame # NoFrame
  /\ read.frame # NoFrame /\ pending # NoFrame => pending = read.frame /\ read.from_pending
  /\ read.pc = "stash" => ~read.from_pending

(* Of each generation, the places are passed in the order of the RTP time. *)
OrderKept ==
  /\ Comes(LastHeard, InHand) /\ Comes(LastHeard, buffer)
  /\ Comes(LastHeard, InDecoder) /\ Comes(LastHeard, OnTheWay) /\ Comes(LastHeard, NotSent)
  /\ Comes(InHand, buffer) /\ Comes(InHand, InDecoder)
  /\ Comes(InHand, OnTheWay) /\ Comes(InHand, NotSent)
  /\ Comes(buffer, InDecoder) /\ Comes(buffer, OnTheWay) /\ Comes(buffer, NotSent)
  /\ Comes(InDecoder, OnTheWay) /\ Comes(InDecoder, NotSent)
  /\ Comes(OnTheWay, NotSent)
  /\ \A i, j \in DOMAIN socket :
       i < j /\ socket[i].gen = socket[j].gen => socket[i].rtp < socket[j].rtp

WayInv == FramesKnown /\ OneInHand /\ OrderKept

(* What a scenario is. *)
LEMMA PlanIsScenario ==
  ASSUME FramesKnown
  PROVE  /\ plan \in Scenario /\ gen \in Nat /\ plan.start[gen] \in Nat /\ sent \in Nat
         /\ FramesPerGen \in Nat
<1>1. plan \in Scenario
  BY ScenarioAssumption DEF FramesKnown
<1>2. plan.start \in Seq(Nat) /\ gen \in 1 .. Len(plan.start)
  BY <1>1 DEF FramesKnown, Scenario, Generations
<1> QED  BY <1>1, <1>2, FrameAssumption DEF FramesKnown

(* A frame is a generation and an RTP time, and is not NoFrame. *)
LEMMA FrameIs ==
  ASSUME FramesKnown, NEW f \in Frames
  PROVE  f \in [gen : Nat, rtp : Nat] /\ f # NoFrame
<1>1. plan \in Scenario
  BY PlanIsScenario
<1>2. plan.start \in Seq(Nat)
  BY <1>1 DEF Scenario
<1>3. f.gen \in Generations /\ f = [gen |-> f.gen, rtp |-> f.rtp]
      /\ f.rtp \in plan.start[f.gen] .. plan.start[f.gen] + FramesPerGen - 1
  BY DEF Frames
<1>4. f.gen \in Nat /\ plan.start[f.gen] \in Nat
  BY <1>2, <1>3 DEF Generations
<1>5. f.rtp \in Nat
  BY <1>3, <1>4, FrameAssumption
<1>6. f \in [gen : Nat, rtp : Nat]
  BY <1>3, <1>4, <1>5
<1> QED  BY <1>6, FrameAssumption

(* Every place holds frames. *)
LEMMA PlacesHoldFrames ==
  ASSUME FramesKnown
  PROVE  /\ LastHeard \subseteq Frames /\ InHand \subseteq Frames /\ InDecoder \subseteq Frames
         /\ OnTheWay \subseteq Frames
         /\ \A i \in DOMAIN socket : socket[i] \in Frames /\ i \in Nat
<1>1. read.frame \in Frames \cup {NoFrame}
  BY DEF FramesKnown, Reads
<1>2. \A i \in DOMAIN socket : socket[i] \in Frames /\ i \in Nat
  BY DEF FramesKnown
<1> QED  BY <1>1, <1>2 DEF FramesKnown, LastHeard, InHand, InDecoder, OnTheWay

LEMMA ComesFewer ==
  ASSUME NEW A, NEW B, NEW C, NEW D, Comes(A, B), C \subseteq A, D \subseteq B
  PROVE  Comes(C, D)
  BY DEF Comes

(* A step after which each place holds less, or as much, keeps the order.  *)
LEMMA FewerInOrder ==
  ASSUME OrderKept, LastHeard' \subseteq LastHeard, InHand' \subseteq InHand,
         buffer' \subseteq buffer, InDecoder' \subseteq InDecoder,
         socket' = socket, NotSent' \subseteq NotSent
  PROVE  OrderKept'
<1>1. OnTheWay' \subseteq OnTheWay
  BY DEF OnTheWay
<1>2. /\ Comes(LastHeard, InHand)' /\ Comes(LastHeard, buffer)'
      /\ Comes(LastHeard, InDecoder)' /\ Comes(LastHeard, OnTheWay)' /\ Comes(LastHeard, NotSent)'
  BY <1>1 DEF OrderKept, Comes
<1>3. /\ Comes(InHand, buffer)' /\ Comes(InHand, InDecoder)'
      /\ Comes(InHand, OnTheWay)' /\ Comes(InHand, NotSent)'
  BY <1>1 DEF OrderKept, Comes
<1>4. /\ Comes(buffer, InDecoder)' /\ Comes(buffer, OnTheWay)' /\ Comes(buffer, NotSent)'
  BY <1>1 DEF OrderKept, Comes
<1>5. /\ Comes(InDecoder, OnTheWay)' /\ Comes(InDecoder, NotSent)' /\ Comes(OnTheWay, NotSent)'
  BY <1>1 DEF OrderKept, Comes
<1>6. \A i, j \in DOMAIN socket' :
        i < j /\ socket'[i].gen = socket'[j].gen => socket'[i].rtp < socket'[j].rtp
  BY DEF OrderKept
<1> QED  BY <1>2, <1>3, <1>4, <1>5, <1>6 DEF OrderKept

(* A step of the requests and the clock: frames are at most thrown away.   *)
LEMMA RequestKeepsWay ==
  ASSUME WayInv, UNCHANGED << plan, gen, sent, socket, decoding, heard, read >>,
         buffer' \subseteq buffer, pending' = pending \/ pending' = NoFrame
  PROVE  WayInv'
<1>1. FramesKnown'
  <2>1. Frames' = Frames /\ Generations' = Generations
    BY DEF Frames, Generations, Rtp
  <2>2. Reads' = Reads
    BY <2>1 DEF Reads
  <2>3. pending' \in Frames \cup {NoFrame}
    BY DEF WayInv, FramesKnown
  <2> QED  BY <2>1, <2>2, <2>3 DEF WayInv, FramesKnown
<1>2. OneInHand'
  BY DEF WayInv, OneInHand
<1>3. InHand' \subseteq InHand /\ NotSent' \subseteq NotSent
      /\ LastHeard' \subseteq LastHeard /\ InDecoder' \subseteq InDecoder
  BY DEF InHand, NotSent, LastHeard, InDecoder
<1>4. OrderKept'
  BY <1>3, FewerInOrder DEF WayInv
<1> QED  BY <1>1, <1>2, <1>4 DEF WayInv

(* Init. *)
LEMMA InitWay == PlaybackInit => WayInv
<1> SUFFICES ASSUME PlaybackInit PROVE WayInv
  OBVIOUS
<1>1. plan \in Scenario /\ Len(plan.start) > 0
  BY ScenarioAssumption DEF PlaybackInit
<1>2. 1 \in Generations
  BY <1>1 DEF Generations, Scenario
<1>3. FramesKnown
  <2>1. socket \in Seq(Frames) /\ buffer \subseteq Frames
    BY DEF PlaybackInit
  <2>2. read \in Reads
    BY DEF PlaybackInit, Reads
  <2>3. sent \in 0 .. FramesPerGen
    BY FrameAssumption DEF PlaybackInit
  <2> QED  BY <1>2, <2>1, <2>2, <2>3 DEF FramesKnown, PlaybackInit
<1>4. OneInHand
  BY DEF OneInHand, PlaybackInit
<1>5. LastHeard = {} /\ InHand = {} /\ InDecoder = {} /\ OnTheWay = {} /\ buffer = {}
      /\ DOMAIN socket = {}
  BY DEF PlaybackInit, LastHeard, InHand, InDecoder, OnTheWay
<1>6. OrderKept
  BY <1>5 DEF OrderKept, Comes
<1> QED  BY <1>3, <1>4, <1>6 DEF WayInv

(* The sender sends a frame that comes after all it has sent. *)
LEMMA SendWay == WayInv /\ Send => WayInv'
<1> SUFFICES ASSUME WayInv, Send PROVE WayInv'
  OBVIOUS
<1> DEFINE f == [gen |-> gen, rtp |-> plan.start[gen] + sent]
<1>1. FramesKnown /\ OrderKept
  BY DEF WayInv
<1>2. /\ plan \in Scenario /\ gen \in Nat /\ plan.start[gen] \in Nat /\ sent \in Nat
      /\ FramesPerGen \in Nat
  BY <1>1, PlanIsScenario
<1>3. f \in Frames
  <2>1. gen \in Generations /\ sent < FramesPerGen
    BY <1>1 DEF FramesKnown, Send
  <2>2. f.rtp \in plan.start[gen] .. plan.start[gen] + FramesPerGen
    BY <1>2, <2>1
  <2>3. f.rtp \in Rtp
    BY <2>1, <2>2 DEF Rtp
  <2>4. f.rtp \in plan.start[gen] .. plan.start[gen] + FramesPerGen - 1
    BY <1>2, <2>1
  <2> QED  BY <2>1, <2>3, <2>4 DEF Frames
<1>4. f \in NotSent
  BY <1>2 DEF NotSent
<1>5. socket' = Append(socket, f) /\ sent' = sent + 1 /\ sent < FramesPerGen
      /\ UNCHANGED << plan, gen, decoding, buffer, pending, heard, read >>
  BY DEF Send, history
<1>6. FramesKnown'
  <2>1. socket' \in Seq(Frames)
    BY <1>1, <1>3, <1>5 DEF FramesKnown
  <2>2. Frames' = Frames /\ Generations' = Generations
    BY <1>5 DEF Frames, Generations, Rtp
  <2>3. sent' \in 0 .. FramesPerGen
    BY <1>2, <1>5
  <2> QED  BY <1>1, <1>5, <2>1, <2>2, <2>3 DEF FramesKnown, Reads
<1>7. OneInHand'
  BY <1>5 DEF WayInv, OneInHand
<1>8. OnTheWay' = OnTheWay \cup {f}
  <2>1. socket \in Seq(Frames)
    BY <1>1 DEF FramesKnown
  <2>2. DOMAIN socket' = DOMAIN socket \cup {Len(socket) + 1}
    BY <1>5, <2>1
  <2>3. \A i \in DOMAIN socket : socket'[i] = socket[i]
    BY <1>5, <2>1
  <2>4. socket'[Len(socket) + 1] = f
    BY <1>5, <2>1
  <2> QED  BY <2>2, <2>3, <2>4 DEF OnTheWay
<1>9. NotSent' \subseteq NotSent /\ Comes({f}, NotSent')
  <2> SUFFICES ASSUME NEW g \in NotSent' PROVE g \in NotSent /\ (gen = g.gen => f.rtp < g.rtp)
    BY DEF Comes
  <2>1. /\ g \in [gen : Nat, rtp : Nat]
        /\ g.gen > gen \/ (g.gen = gen /\ g.rtp >= plan.start[gen] + (sent + 1))
    BY <1>5 DEF NotSent
  <2>2. g.gen \in Nat /\ g.rtp \in Nat
    BY <2>1
  <2>3. CASE g.gen > gen
    BY <1>2, <2>1, <2>2, <2>3 DEF NotSent
  <2>4. CASE g.gen = gen /\ g.rtp >= plan.start[gen] + (sent + 1)
    <3>1. g.rtp >= plan.start[gen] + sent /\ plan.start[gen] + sent < g.rtp
      BY <1>2, <2>2, <2>4
    <3> QED  BY <2>1, <2>4, <3>1 DEF NotSent
  <2> QED  BY <2>1, <2>3, <2>4
<1>10. LastHeard' = LastHeard /\ InHand' = InHand /\ InDecoder' = InDecoder /\ buffer' = buffer
  BY <1>5 DEF LastHeard, InHand, InDecoder
<1>11. Comes(LastHeard, {f}) /\ Comes(InHand, {f}) /\ Comes(buffer, {f}) /\ Comes(InDecoder, {f})
       /\ Comes(OnTheWay, {f})
  BY <1>1, <1>4 DEF OrderKept, Comes
<1>12. OrderKept'
  <2>1. /\ Comes(LastHeard, OnTheWay)' /\ Comes(InHand, OnTheWay)' /\ Comes(buffer, OnTheWay)'
        /\ Comes(InDecoder, OnTheWay)'
    BY <1>1, <1>8, <1>10, <1>11 DEF OrderKept, Comes
  <2>2. Comes(OnTheWay, NotSent)'
    BY <1>1, <1>8, <1>9 DEF OrderKept, Comes
  <2>3. /\ Comes(LastHeard, NotSent)' /\ Comes(InHand, NotSent)' /\ Comes(buffer, NotSent)'
        /\ Comes(InDecoder, NotSent)'
    BY <1>1, <1>9, <1>10 DEF OrderKept, Comes
  <2>4. /\ Comes(LastHeard, InHand)' /\ Comes(LastHeard, buffer)' /\ Comes(LastHeard, InDecoder)'
        /\ Comes(InHand, buffer)' /\ Comes(InHand, InDecoder)' /\ Comes(buffer, InDecoder)'
    BY <1>1, <1>10 DEF OrderKept, Comes
  <2>5. \A i, j \in DOMAIN socket' :
          i < j /\ socket'[i].gen = socket'[j].gen => socket'[i].rtp < socket'[j].rtp
    <3> SUFFICES ASSUME NEW i \in DOMAIN socket', NEW j \in DOMAIN socket', i < j,
                        socket'[i].gen = socket'[j].gen
                 PROVE  socket'[i].rtp < socket'[j].rtp
      OBVIOUS
    <3>1. socket \in Seq(Frames)
      BY <1>1 DEF FramesKnown
    <3>2. i \in DOMAIN socket /\ socket'[i] = socket[i]
      BY <1>5, <3>1
    <3>3. CASE j \in DOMAIN socket
      <4>1. socket'[j] = socket[j]
        BY <1>5, <3>1, <3>3
      <4> QED  BY <1>1, <3>2, <3>3, <4>1 DEF OrderKept
    <3>4. CASE j = Len(socket) + 1
      <4>1. socket'[j] = f
        BY <1>5, <3>1, <3>4
      <4>2. socket[i] \in OnTheWay
        BY <3>2 DEF OnTheWay
      <4> QED  BY <1>11, <3>2, <4>1, <4>2 DEF Comes
    <3> QED  BY <1>5, <3>1, <3>3, <3>4
  <2> QED  BY <2>1, <2>2, <2>3, <2>4, <2>5 DEF OrderKept
<1> QED  BY <1>6, <1>7, <1>12 DEF WayInv

(* A new generation: nothing of it has been sent. *)
LEMMA NextGenerationWay == WayInv /\ (TrackChange \/ SeekFlush) => WayInv'
<1> SUFFICES ASSUME WayInv, TrackChange \/ SeekFlush PROVE WayInv'
  OBVIOUS
<1>1. FramesKnown /\ OrderKept
  BY DEF WayInv
<1>2. /\ plan \in Scenario /\ gen \in Nat /\ plan.start[gen] \in Nat /\ sent \in Nat
      /\ FramesPerGen \in Nat
  BY <1>1, PlanIsScenario
<1>3. gen < Len(plan.start) /\ gen' = gen + 1 /\ sent' = 0 /\ buffer' \subseteq buffer
      /\ UNCHANGED << plan, socket, decoding, pending, heard, read >>
  BY DEF TrackChange, SeekFlush, history
<1>4. FramesKnown'
  <2>1. Frames' = Frames /\ Generations' = Generations
    BY <1>3 DEF Frames, Generations, Rtp
  <2>2. gen' \in Generations
    BY <1>2, <1>3 DEF Generations, Scenario
  <2>3. sent' \in 0 .. FramesPerGen
    BY <1>2, <1>3
  <2> QED  BY <1>1, <1>3, <2>1, <2>2, <2>3 DEF FramesKnown, Reads
<1>5. OneInHand'
  BY <1>3 DEF WayInv, OneInHand
<1>6. NotSent' \subseteq NotSent
  BY <1>2, <1>3 DEF NotSent
<1>7. LastHeard' = LastHeard /\ InHand' = InHand /\ InDecoder' = InDecoder
  BY <1>3 DEF LastHeard, InHand, InDecoder
<1>8. OrderKept'
  BY <1>1, <1>3, <1>6, <1>7, FewerInOrder
<1> QED  BY <1>4, <1>5, <1>8 DEF WayInv

(* The stream task takes the oldest frame from the socket, into the        *)
(* decoder or away.                                                        *)
LEMMA ReceiveFrameWay == WayInv /\ ReceiveFrame => WayInv'
<1> SUFFICES ASSUME WayInv, ReceiveFrame PROVE WayInv'
  OBVIOUS
<1> DEFINE f == Head(socket)
<1>1. FramesKnown /\ OrderKept
  BY DEF WayInv
<1>2. /\ socket # << >> /\ decoding = NoFrame /\ socket' = Tail(socket)
      /\ decoding' = f \/ decoding' = NoFrame
      /\ UNCHANGED << plan, gen, sent, buffer, pending, heard, read >>
  BY DEF ReceiveFrame, sender, history
<1>3. socket \in Seq(Frames)
  BY <1>1 DEF FramesKnown
<1>4. f = socket[1] /\ 1 \in DOMAIN socket /\ f \in Frames
  BY <1>2, <1>3
<1>5. \A i \in DOMAIN socket' : i \in Nat /\ i + 1 \in DOMAIN socket /\ socket'[i] = socket[i + 1]
                               /\ 1 < i + 1
  BY <1>2, <1>3
<1>6. FramesKnown'
  <2>1. socket' \in Seq(Frames)
    BY <1>2, <1>3
  <2>2. Frames' = Frames /\ Generations' = Generations
    BY <1>2 DEF Frames, Generations, Rtp
  <2> QED  BY <1>1, <1>2, <1>4, <2>1, <2>2 DEF FramesKnown, Reads
<1>7. OneInHand'
  BY <1>2 DEF WayInv, OneInHand
<1>8. f \in OnTheWay /\ OnTheWay' \subseteq OnTheWay
  BY <1>4, <1>5 DEF OnTheWay
<1>9. Comes({f}, OnTheWay')
  BY <1>1, <1>4, <1>5 DEF OnTheWay, Comes, OrderKept
<1>10. InDecoder' \subseteq {f} /\ LastHeard' = LastHeard /\ InHand' = InHand /\ buffer' = buffer
       /\ NotSent' = NotSent
  BY <1>2 DEF InDecoder, LastHeard, InHand, NotSent
<1>11. Comes(LastHeard, {f}) /\ Comes(InHand, {f}) /\ Comes(buffer, {f}) /\ Comes({f}, NotSent)
  BY <1>1, <1>8 DEF OrderKept, Comes
<1>12. OrderKept'
  <2>1. Comes(LastHeard, InDecoder)' /\ Comes(InHand, InDecoder)' /\ Comes(buffer, InDecoder)'
        /\ Comes(InDecoder, NotSent)'
    BY <1>10, <1>11 DEF Comes
  <2>2. Comes(InDecoder, OnTheWay)'
    BY <1>9, <1>10 DEF Comes
  <2>3. /\ Comes(LastHeard, OnTheWay)' /\ Comes(InHand, OnTheWay)' /\ Comes(buffer, OnTheWay)'
        /\ Comes(OnTheWay, NotSent)'
    BY <1>1, <1>8, <1>10 DEF OrderKept, Comes
  <2>4. /\ Comes(LastHeard, InHand)' /\ Comes(LastHeard, buffer)' /\ Comes(LastHeard, NotSent)'
        /\ Comes(InHand, buffer)' /\ Comes(InHand, NotSent)' /\ Comes(buffer, NotSent)'
    BY <1>1, <1>10 DEF OrderKept, Comes
  <2>5. \A i, j \in DOMAIN socket' :
          i < j /\ socket'[i].gen = socket'[j].gen => socket'[i].rtp < socket'[j].rtp
    BY <1>1, <1>5 DEF OrderKept
  <2> QED  BY <2>1, <2>2, <2>3, <2>4, <2>5 DEF OrderKept
<1> QED  BY <1>6, <1>7, <1>12 DEF WayInv

(* The decoded frame goes into the pool. *)
LEMMA QueueFrameWay == WayInv /\ QueueFrame => WayInv'
<1> SUFFICES ASSUME WayInv, QueueFrame PROVE WayInv'
  OBVIOUS
<1>1. FramesKnown /\ OrderKept
  BY DEF WayInv
<1>2. /\ decoding # NoFrame /\ decoding' = NoFrame /\ buffer' = buffer \cup {decoding}
      /\ UNCHANGED << plan, gen, sent, socket, pending, heard, read >>
  BY DEF QueueFrame, sender, history
<1>3. FramesKnown'
  <2>1. Frames' = Frames /\ Generations' = Generations
    BY <1>2 DEF Frames, Generations, Rtp
  <2> QED  BY <1>1, <1>2, <2>1 DEF FramesKnown, Reads
<1>4. OneInHand'
  BY <1>2 DEF WayInv, OneInHand
<1>5. InDecoder = {decoding} /\ InDecoder' = {} /\ buffer' = buffer \cup InDecoder
  BY <1>2 DEF InDecoder
<1>6. LastHeard' = LastHeard /\ InHand' = InHand /\ NotSent' = NotSent /\ OnTheWay' = OnTheWay
  BY <1>2 DEF LastHeard, InHand, NotSent, OnTheWay
<1>7. OrderKept'
  <2>1. /\ Comes(LastHeard, buffer)' /\ Comes(InHand, buffer)' /\ Comes(buffer, OnTheWay)'
        /\ Comes(buffer, NotSent)'
    BY <1>1, <1>5, <1>6 DEF OrderKept, Comes
  <2>2. /\ Comes(LastHeard, InDecoder)' /\ Comes(InHand, InDecoder)' /\ Comes(buffer, InDecoder)'
        /\ Comes(InDecoder, OnTheWay)' /\ Comes(InDecoder, NotSent)'
    BY <1>5 DEF Comes
  <2>3. /\ Comes(LastHeard, InHand)' /\ Comes(LastHeard, OnTheWay)' /\ Comes(LastHeard, NotSent)'
        /\ Comes(InHand, OnTheWay)' /\ Comes(InHand, NotSent)' /\ Comes(OnTheWay, NotSent)'
    BY <1>1, <1>6 DEF OrderKept, Comes
  <2>4. \A i, j \in DOMAIN socket' :
          i < j /\ socket'[i].gen = socket'[j].gen => socket'[i].rtp < socket'[j].rtp
    BY <1>1, <1>2 DEF OrderKept
  <2> QED  BY <2>1, <2>2, <2>3, <2>4 DEF OrderKept
<1> QED  BY <1>3, <1>4, <1>7 DEF WayInv

(* The steps of the playback task, which leave the rest alone.             *)
ReadLeaves == UNCHANGED << plan, gen, sent, socket, decoding >>

LEMMA ReadKnown ==
  ASSUME FramesKnown, ReadLeaves, buffer' \subseteq buffer, read' \in Reads,
         pending' \in Frames \cup {NoFrame}, heard' \in Frames \cup {NoFrame}
  PROVE  FramesKnown'
<1>1. Frames' = Frames /\ Generations' = Generations
  BY DEF ReadLeaves, Frames, Generations, Rtp
<1> QED  BY <1>1 DEF FramesKnown, Reads, ReadLeaves

(* The places a read does not touch. *)
LEMMA ReadPlaces ==
  ASSUME ReadLeaves
  PROVE  /\ InDecoder' = InDecoder /\ NotSent' = NotSent /\ socket' = socket
         /\ OnTheWay' = OnTheWay
  BY DEF ReadLeaves, InDecoder, NotSent, OnTheWay

LEMMA ReadBeginWay == WayInv /\ ReadBegin => WayInv'
<1> SUFFICES ASSUME WayInv, ReadBegin PROVE WayInv'
  OBVIOUS
<1>1. FramesKnown /\ OneInHand /\ OrderKept
  BY DEF WayInv
<1>2. /\ read.pc = "idle" /\ (read' = read \/ read' = [read EXCEPT !.pc = "fetch"])
      /\ ReadLeaves /\ UNCHANGED << buffer, pending, heard >>
  BY DEF ReadBegin, ReadLeaves, sender, history
<1>3. read \in Reads
  BY <1>1 DEF FramesKnown
<1>4. /\ read' \in Reads /\ read'.frame = read.frame /\ read'.from_pending = read.from_pending
      /\ read'.pc \in {"idle", "fetch"}
  BY <1>2, <1>3 DEF Reads
<1>5. FramesKnown'
  BY <1>1, <1>2, <1>4, ReadKnown DEF FramesKnown
<1>6. OneInHand'
  BY <1>1, <1>2, <1>4 DEF OneInHand
<1>7. InHand' = InHand /\ LastHeard' = LastHeard
  BY <1>2, <1>4 DEF InHand, LastHeard
<1>8. OrderKept'
  BY <1>1, <1>2, <1>7, ReadPlaces, FewerInOrder
<1> QED  BY <1>5, <1>6, <1>8 DEF WayInv

(* A frame goes from the pool into the hand: the first of its generation.  *)
LEMMA ReadFetchWay == WayInv /\ ReadFetch => WayInv'
<1> SUFFICES ASSUME WayInv, ReadFetch PROVE WayInv'
  OBVIOUS
<1>1. FramesKnown /\ OneInHand /\ OrderKept
  BY DEF WayInv
<1>2. read.pc = "fetch" /\ ReadLeaves /\ UNCHANGED << pending, heard >>
  BY DEF ReadFetch, ReadLeaves, sender, history
<1>3. read.frame = NoFrame
  BY <1>1, <1>2 DEF OneInHand
<1>4. LastHeard' = LastHeard
  BY <1>2 DEF LastHeard
<1>5. CASE /\ pending # NoFrame /\ UNCHANGED buffer
           /\ read' = [pc |-> "check", frame |-> pending, from_pending |-> TRUE]
  <2>1. read' \in Reads
    BY <1>1, <1>5 DEF FramesKnown, Reads
  <2>2. FramesKnown'
    BY <1>1, <1>2, <1>5, <2>1, ReadKnown DEF FramesKnown
  <2>3. OneInHand'
    BY <1>2, <1>5 DEF OneInHand
  <2>4. InHand' = InHand
    BY <1>2, <1>3, <1>5 DEF InHand
  <2>5. OrderKept'
    BY <1>1, <1>2, <1>4, <1>5, <2>4, ReadPlaces, FewerInOrder
  <2> QED  BY <2>2, <2>3, <2>5 DEF WayInv
<1>6. CASE /\ pending = NoFrame
           /\ \E f \in Oldest :
                /\ read' = [pc |-> "check", frame |-> f, from_pending |-> FALSE]
                /\ buffer' = buffer \ {f}
  <2>1. PICK f \in Oldest : /\ read' = [pc |-> "check", frame |-> f, from_pending |-> FALSE]
                            /\ buffer' = buffer \ {f}
    BY <1>6
  <2>2. f \in buffer /\ f \in Frames /\ \A g \in buffer : f.rtp <= g.rtp /\ g \in Frames
    BY <1>1 DEF Oldest, FramesKnown
  <2>3. f # NoFrame /\ f \in [gen : Nat, rtp : Nat]
    BY <1>1, <2>2, FrameIs
  <2>4. read' \in Reads
    BY <1>1, <1>2, <2>1, <2>2 DEF FramesKnown, Reads, Frames, Generations, Rtp, ReadLeaves
  <2>5. FramesKnown'
    BY <1>1, <1>2, <2>1, <2>4, ReadKnown DEF FramesKnown
  <2>6. OneInHand'
    BY <1>2, <1>6, <2>1, <2>3 DEF OneInHand
  <2>7. InHand' = {f}
    BY <1>2, <1>6, <2>1, <2>3 DEF InHand
  <2>8. Comes({f}, buffer')
    <3> SUFFICES ASSUME NEW g \in buffer', f.gen = g.gen PROVE f.rtp < g.rtp
      BY DEF Comes
    <3>1. g \in buffer /\ g # f
      BY <2>1
    <3>2. g \in [gen : Nat, rtp : Nat]
      BY <1>1, <2>2, <3>1, FrameIs
    <3>3. f.rtp # g.rtp
      BY <2>3, <3>1, <3>2
    <3> QED  BY <2>2, <2>3, <3>1, <3>2, <3>3
  <2>9. /\ Comes(LastHeard, {f}) /\ Comes({f}, InDecoder) /\ Comes({f}, OnTheWay)
        /\ Comes({f}, NotSent)
    BY <1>1, <2>2 DEF OrderKept, Comes
  <2>10. buffer' \subseteq buffer
    BY <2>1
  <2>11. OrderKept'
    <3>1. /\ Comes(LastHeard, InHand)' /\ Comes(InHand, buffer)' /\ Comes(InHand, InDecoder)'
          /\ Comes(InHand, OnTheWay)' /\ Comes(InHand, NotSent)'
      BY <1>2, <1>4, <2>7, <2>8, <2>9, ReadPlaces DEF Comes
    <3>2. /\ Comes(LastHeard, buffer)' /\ Comes(buffer, InDecoder)' /\ Comes(buffer, OnTheWay)'
          /\ Comes(buffer, NotSent)'
      BY <1>1, <1>2, <1>4, <2>10, ReadPlaces DEF OrderKept, Comes
    <3>3. /\ Comes(LastHeard, InDecoder)' /\ Comes(LastHeard, OnTheWay)'
          /\ Comes(LastHeard, NotSent)' /\ Comes(InDecoder, OnTheWay)' /\ Comes(InDecoder, NotSent)'
          /\ Comes(OnTheWay, NotSent)'
      BY <1>1, <1>2, <1>4, ReadPlaces DEF OrderKept, Comes
    <3>4. \A i, j \in DOMAIN socket' :
            i < j /\ socket'[i].gen = socket'[j].gen => socket'[i].rtp < socket'[j].rtp
      BY <1>1, <1>2, ReadPlaces DEF OrderKept
    <3> QED  BY <3>1, <3>2, <3>3, <3>4 DEF OrderKept
  <2> QED  BY <2>5, <2>6, <2>11 DEF WayInv
<1>7. CASE pending = NoFrame /\ buffer = {} /\ StopReading /\ UNCHANGED buffer
  <2>1. read' = [pc |-> "idle", frame |-> NoFrame, from_pending |-> FALSE]
    BY <1>7 DEF StopReading
  <2>2. read' \in Reads
    BY <2>1 DEF Reads
  <2>3. FramesKnown'
    BY <1>1, <1>2, <1>7, <2>2, ReadKnown DEF FramesKnown
  <2>4. OneInHand'
    BY <1>2, <1>7, <2>1 DEF OneInHand
  <2>5. InHand' = InHand
    BY <1>2, <1>3, <1>7, <2>1 DEF InHand
  <2>6. OrderKept'
    BY <1>1, <1>2, <1>4, <1>7, <2>5, ReadPlaces, FewerInOrder
  <2> QED  BY <2>3, <2>4, <2>6 DEF WayInv
<1> QED  BY <1>5, <1>6, <1>7 DEF ReadFetch

(* What is in hand when a frame is checked: that frame alone.              *)
LEMMA CheckedInHand ==
  ASSUME WayInv, read.pc \in {"check", "stash"}
  PROVE  /\ InHand = {read.frame} /\ read.frame \in Frames /\ read.frame # NoFrame
         /\ read \in Reads
         /\ ~read.from_pending => pending = NoFrame
         /\ pending = NoFrame \/ pending = read.frame
  BY DEF WayInv, FramesKnown, OneInHand, InHand, Reads

(* After the read has ended, or gone on to the next frame, nothing is in   *)
(* hand but the frame it was pending.                                      *)
LEMMA ReadEndsWay ==
  ASSUME WayInv, ReadLeaves, Checking, buffer' \subseteq buffer,
         pending' \in {pending, NoFrame}, heard' = heard,
         read' \in {[pc |-> "idle", frame |-> NoFrame, from_pending |-> FALSE],
                    [pc |-> "fetch", frame |-> NoFrame, from_pending |-> FALSE]}
  PROVE  WayInv'
<1>1. FramesKnown /\ OneInHand /\ OrderKept
  BY DEF WayInv
<1>2. read' \in Reads /\ read'.frame = NoFrame /\ read'.pc \in {"idle", "fetch"}
  <2>1. CASE read' = [pc |-> "idle", frame |-> NoFrame, from_pending |-> FALSE]
    BY <2>1 DEF Reads
  <2>2. CASE read' = [pc |-> "fetch", frame |-> NoFrame, from_pending |-> FALSE]
    BY <2>2 DEF Reads
  <2> QED  BY <2>1, <2>2
<1>3. FramesKnown'
  BY <1>1, <1>2, ReadKnown DEF FramesKnown
<1>4. OneInHand'
  BY <1>2 DEF OneInHand
<1>5. InHand' \subseteq InHand /\ LastHeard' = LastHeard
  BY <1>2 DEF InHand, LastHeard
<1>6. OrderKept'
  BY <1>1, <1>5, ReadPlaces, FewerInOrder
<1> QED  BY <1>3, <1>4, <1>6 DEF WayInv

LEMMA ReadDropsWay == WayInv /\ (ReadDeferredFlush \/ ReadLate) => WayInv'
<1> SUFFICES ASSUME WayInv, ReadDeferredFlush \/ ReadLate PROVE WayInv'
  OBVIOUS
<1>1. /\ ReadLeaves /\ Checking /\ buffer' \subseteq buffer /\ heard' = heard
      /\ pending' \in {pending, NoFrame}
  <2>1. read.from_pending => pending' = NoFrame
    BY DEF ReadDeferredFlush, ReadLate, Drop
  <2>2. ~read.from_pending => pending' = NoFrame
    BY CheckedInHand DEF ReadDeferredFlush, ReadLate, Drop, Checking
  <2> QED  BY <2>1, <2>2 DEF ReadDeferredFlush, ReadLate, ReadLeaves, sender, history
<1>2. read' \in {[pc |-> "idle", frame |-> NoFrame, from_pending |-> FALSE],
                 [pc |-> "fetch", frame |-> NoFrame, from_pending |-> FALSE]}
  BY DEF ReadDeferredFlush, ReadLate, StopReading
<1> QED  BY <1>1, <1>2, ReadEndsWay

LEMMA ReadEarlyWay == WayInv /\ ReadEarly => WayInv'
<1> SUFFICES ASSUME WayInv, ReadEarly PROVE WayInv'
  OBVIOUS
<1>1. ReadLeaves /\ Checking /\ UNCHANGED << buffer, pending, heard >>
  BY DEF ReadEarly, ReadLeaves, sender
<1>2. CASE read.from_pending
  <2>1. read' = [pc |-> "idle", frame |-> NoFrame, from_pending |-> FALSE]
    BY <1>2 DEF ReadEarly, StopReading
  <2> QED  BY <1>1, <2>1, ReadEndsWay
<1>3. CASE ~read.from_pending
  <2>1. read' = [read EXCEPT !.pc = "stash"]
    BY <1>3 DEF ReadEarly
  <2>2. read \in Reads /\ read.frame \in Frames /\ read.frame # NoFrame /\ pending = NoFrame
    BY <1>1, <1>3, CheckedInHand DEF Checking
  <2>3. /\ read' \in Reads /\ read'.frame = read.frame /\ read'.pc = "stash"
        /\ ~read'.from_pending
    BY <1>3, <2>1, <2>2 DEF Reads
  <2>4. FramesKnown'
    BY <1>1, <2>3, ReadKnown DEF WayInv, FramesKnown
  <2>5. OneInHand'
    BY <1>1, <2>2, <2>3 DEF OneInHand
  <2>6. InHand' = InHand /\ LastHeard' = LastHeard
    BY <1>1, <2>3 DEF InHand, LastHeard
  <2>7. OrderKept'
    BY <1>1, <2>6, ReadPlaces, FewerInOrder DEF WayInv
  <2> QED  BY <2>4, <2>5, <2>7 DEF WayInv
<1> QED  BY <1>2, <1>3

LEMMA ReadStashWay == WayInv /\ ReadStash => WayInv'
<1> SUFFICES ASSUME WayInv, ReadStash PROVE WayInv'
  OBVIOUS
<1>1. /\ ReadLeaves /\ read.pc = "stash" /\ pending' = read.frame
      /\ read' = [pc |-> "idle", frame |-> NoFrame, from_pending |-> FALSE]
      /\ UNCHANGED << buffer, heard >>
  BY DEF ReadStash, StopReading, ReadLeaves, sender, history
<1>2. InHand = {read.frame} /\ read.frame \in Frames
  BY <1>1, CheckedInHand
<1>3. read' \in Reads
  BY <1>1 DEF Reads
<1>4. FramesKnown'
  BY <1>1, <1>2, <1>3, ReadKnown DEF WayInv, FramesKnown
<1>5. OneInHand'
  BY <1>1 DEF OneInHand
<1>6. InHand' \subseteq InHand /\ LastHeard' = LastHeard
  BY <1>1, <1>2 DEF InHand, LastHeard
<1>7. OrderKept'
  BY <1>1, <1>6, ReadPlaces, FewerInOrder DEF WayInv
<1> QED  BY <1>4, <1>5, <1>7 DEF WayInv

(* The frame in hand is heard, and no other is left there.                 *)
LEMMA ReadPlayWay == WayInv /\ ReadPlay => WayInv'
<1> SUFFICES ASSUME WayInv, ReadPlay PROVE WayInv'
  OBVIOUS
<1>1. FramesKnown /\ OrderKept
  BY DEF WayInv
<1>2. /\ ReadLeaves /\ Checking /\ Drop /\ heard' = read.frame /\ UNCHANGED buffer
      /\ read' = [pc |-> "idle", frame |-> NoFrame, from_pending |-> FALSE]
  BY DEF ReadPlay, StopReading, ReadLeaves, sender
<1>3. InHand = {read.frame} /\ read.frame \in Frames /\ read.frame # NoFrame
      /\ (~read.from_pending => pending = NoFrame)
  BY <1>2, CheckedInHand DEF Checking
<1>4. pending' = NoFrame
  BY <1>2, <1>3 DEF Drop
<1>5. read' \in Reads
  BY <1>2 DEF Reads
<1>6. FramesKnown'
  BY <1>1, <1>2, <1>3, <1>4, <1>5, ReadKnown
<1>7. OneInHand'
  BY <1>2, <1>4 DEF OneInHand
<1>8. InHand' = {} /\ LastHeard' = InHand
  BY <1>2, <1>3, <1>4 DEF InHand, LastHeard
<1>9. OrderKept'
  <2>1. /\ Comes(LastHeard, InHand)' /\ Comes(InHand, buffer)' /\ Comes(InHand, InDecoder)'
        /\ Comes(InHand, OnTheWay)' /\ Comes(InHand, NotSent)'
    BY <1>8 DEF Comes
  <2>2. /\ Comes(LastHeard, buffer)' /\ Comes(LastHeard, InDecoder)'
        /\ Comes(LastHeard, OnTheWay)' /\ Comes(LastHeard, NotSent)'
    BY <1>1, <1>2, <1>8, ReadPlaces DEF OrderKept, Comes
  <2>3. /\ Comes(buffer, InDecoder)' /\ Comes(buffer, OnTheWay)' /\ Comes(buffer, NotSent)'
        /\ Comes(InDecoder, OnTheWay)' /\ Comes(InDecoder, NotSent)' /\ Comes(OnTheWay, NotSent)'
    BY <1>1, <1>2, ReadPlaces DEF OrderKept, Comes
  <2>4. \A i, j \in DOMAIN socket' :
          i < j /\ socket'[i].gen = socket'[j].gen => socket'[i].rtp < socket'[j].rtp
    BY <1>1, <1>2, ReadPlaces DEF OrderKept
  <2> QED  BY <2>1, <2>2, <2>3, <2>4 DEF OrderKept
<1> QED  BY <1>6, <1>7, <1>9 DEF WayInv

LEMMA NextWay == WayInv /\ [PlaybackNext]_playbackVars => WayInv'
<1> SUFFICES ASSUME WayInv, [PlaybackNext]_playbackVars PROVE WayInv'
  OBVIOUS
<1>1. CASE Send
  BY <1>1, SendWay
<1>2. CASE Tick
  BY <1>2, RequestKeepsWay DEF Tick, sender, history
<1>3. CASE TrackChange
  BY <1>3, NextGenerationWay
<1>4. CASE SeekFlush
  BY <1>4, NextGenerationWay
<1>5. CASE SeekReset
  BY <1>5, RequestKeepsWay DEF SeekReset, sender, history
<1>6. CASE SeekArm
  BY <1>6, RequestKeepsWay DEF SeekArm, sender, history
<1>7. CASE DeferFlush
  BY <1>7, RequestKeepsWay DEF DeferFlush, history
<1>8. CASE Pause
  BY <1>8, RequestKeepsWay DEF Pause, history
<1>9. CASE AnchorArm
  <2>1. buffer' \subseteq buffer /\ (pending' = pending \/ pending' = NoFrame)
    BY <1>9 DEF AnchorArm
  <2>2. UNCHANGED << plan, gen, sent, socket, decoding, heard, read >>
    BY <1>9 DEF AnchorArm, sender, history
  <2> QED  BY <2>1, <2>2, RequestKeepsWay
<1>10. CASE AnchorOpen
  BY <1>10, RequestKeepsWay DEF AnchorOpen, sender, history
<1>11. CASE AnchorOldest
  <2>1. buffer' \subseteq buffer /\ (pending' = pending \/ pending' = NoFrame)
    BY <1>11 DEF AnchorOldest
  <2>2. UNCHANGED << plan, gen, sent, socket, decoding, heard, read >>
    BY <1>11 DEF AnchorOldest, sender, history
  <2> QED  BY <2>1, <2>2, RequestKeepsWay
<1>12. CASE AnchorSet
  BY <1>12, RequestKeepsWay DEF AnchorSet
<1>13. CASE ReceiveFrame
  BY <1>13, ReceiveFrameWay
<1>14. CASE QueueFrame
  BY <1>14, QueueFrameWay
<1>15. CASE Read
  BY <1>15, ReadBeginWay, ReadFetchWay, ReadDropsWay, ReadEarlyWay, ReadStashWay, ReadPlayWay
     DEF Read
<1>16. CASE UNCHANGED playbackVars
  BY <1>16, RequestKeepsWay DEF playbackVars, sender, history
<1> QED
  BY <1>1, <1>2, <1>3, <1>4, <1>5, <1>6, <1>7, <1>8, <1>9, <1>10, <1>11, <1>12, <1>13, <1>14,
     <1>15, <1>16 DEF PlaybackNext, Sender, Rtsp, Stream

(* Each frame is in one place on its way, and the ways of two frames of a  *)
(* generation do not cross, for every scenario and every bound.            *)
THEOREM WayKept == PlaybackSpec => []WayInv
<1> QED  BY InitWay, NextWay, PTL DEF PlaybackSpec

(* No frame is heard twice or out of the order of its track, whatever      *)
(* flushes, pauses, seeks and resumes come between two reads.              *)
THEOREM HeardOnce == PlaybackSpec => []NothingHeardAgain
<1>1. WayInv => NothingHeardAgain
  <2> SUFFICES ASSUME WayInv,
                      NEW f \in buffer \cup ({decoding, pending, read.frame} \ {NoFrame}),
                      heard # NoFrame, f.gen = heard.gen
               PROVE  f.rtp > heard.rtp
    BY DEF NothingHeardAgain
  <2>1. heard \in LastHeard /\ (f \in buffer \/ f \in InDecoder \/ f \in InHand)
    BY DEF LastHeard, InDecoder, InHand
  <2>2. heard.rtp < f.rtp
    BY <2>1 DEF WayInv, OrderKept, Comes
  <2>3. heard \in Frames /\ f \in Frames
    BY <2>1, PlacesHoldFrames DEF WayInv, FramesKnown
  <2>4. heard.rtp \in Nat /\ f.rtp \in Nat
    BY <2>3, FrameIs DEF WayInv
  <2> QED  BY <2>2, <2>4
<1> QED  BY <1>1, WayKept, PTL

-----------------------------------------------------------------------------
(* The types of Playback, and what its request and its anchor are.         *)
Timings ==
  [playing : BOOLEAN, started : BOOLEAN, anchored : BOOLEAN, rtp : Int, time : Int,
   ready : Int, early : 0 .. MaxConsecutiveEarly, quick : BOOLEAN, until : Int, set_at : Int]

Gates == [before : Int, above : Int, arm : BOOLEAN, blanket : BOOLEAN]

Requests ==
  [pc : {"idle", "reset", "blanket", "open", "oldest", "anchor"},
   anchor : [rtp : Int, time : Int, armed : BOOLEAN]]

FieldsKnown ==
  /\ timing \in Timings /\ gate \in Gates /\ request \in Requests
  /\ due \in Int /\ now \in 0 .. plan.time /\ Len(socket) <= SocketCap
  /\ pauses \in 0 .. plan.pauses /\ defers \in 0 .. plan.defers

(* Where the track begins. *)
Start == plan.start[gen]

(* Where every frame is, and what every field may hold: inductive for every *)
(* scenario.                                                               *)
TypeInv == WayInv /\ FieldsKnown

(* The constants of a scenario are numbers. *)
LEMMA ScenarioNumbers ==
  ASSUME FramesKnown
  PROVE  /\ plan.time \in Nat /\ plan.lead \in Nat /\ plan.pause \in Nat
         /\ plan.pauses \in Nat /\ plan.defers \in Nat /\ plan.silent \in BOOLEAN
         /\ \A g \in Generations : g \in Nat /\ plan.start[g] \in Nat
         /\ Start \in Nat /\ gen \in Generations
<1>1. plan \in Scenario
  BY PlanIsScenario
<1>2. plan.start \in Seq(Nat)
  BY <1>1 DEF Scenario
<1> QED  BY <1>1, <1>2 DEF Scenario, Generations, Start, FramesKnown

LEMMA RtpIsNat ==
  ASSUME FramesKnown
  PROVE  Rtp \subseteq Nat
  BY ScenarioNumbers, FrameAssumption DEF Rtp

LEMMA InitFields == PlaybackInit => FieldsKnown
<1> SUFFICES ASSUME PlaybackInit PROVE FieldsKnown
  OBVIOUS
<1>1. FramesKnown
  BY InitWay DEF WayInv
<1>2. timing \in Timings /\ gate \in Gates /\ request \in Requests
  BY BoundAssumption
     DEF PlaybackInit, InitTiming, OpenGates, NoAnchor, NoRtp, Timings, Gates, Requests
<1>3. due \in Int
  <2>1. due = Start
    BY DEF PlaybackInit, Start
  <2> QED  BY <1>1, <2>1, ScenarioNumbers
<1>4. now \in 0 .. plan.time /\ Len(socket) <= SocketCap
      /\ pauses \in 0 .. plan.pauses /\ defers \in 0 .. plan.defers
  BY <1>1, ScenarioNumbers, BoundAssumption DEF PlaybackInit
<1> QED  BY <1>2, <1>3, <1>4 DEF FieldsKnown

LEMMA RestartIsTiming ==
  ASSUME NEW t \in Timings
  PROVE  Restart(t) \in Timings
<1> DEFINE a == [t EXCEPT !.started = FALSE]
<1>1. a \in Timings
  BY DEF Timings, NoRtp
<1> HIDE DEF a
<1> DEFINE b == [a EXCEPT !.ready = NoRtp]
<1>2. b \in Timings
  BY <1>1 DEF Timings, NoRtp
<1> HIDE DEF b
<1> DEFINE c == [b EXCEPT !.until = NoRtp]
<1>3. c \in Timings
  BY <1>2 DEF Timings, NoRtp
<1> HIDE DEF c
<1> DEFINE d == [c EXCEPT !.quick = TRUE]
<1>4. d \in Timings
  BY <1>3 DEF Timings, NoRtp
<1> QED  BY <1>4 DEF Restart, a, b, c, d

LEMMA RestartKeeps ==
  ASSUME NEW t \in Timings
  PROVE  /\ Restart(t).playing = t.playing /\ Restart(t).anchored = t.anchored
         /\ Restart(t).rtp = t.rtp /\ Restart(t).time = t.time /\ Restart(t).set_at = t.set_at
  BY DEF Restart, Timings

LEMMA ResetIsTiming ==
  ASSUME NEW t \in Timings
  PROVE  ResetTiming(t) \in Timings
<1> DEFINE a == [t EXCEPT !.started = FALSE]
<1>1. a \in Timings
  BY BoundAssumption DEF Timings, NoRtp
<1> HIDE DEF a
<1> DEFINE b == [a EXCEPT !.anchored = FALSE]
<1>2. b \in Timings
  BY <1>1, BoundAssumption DEF Timings, NoRtp
<1> HIDE DEF b
<1> DEFINE c == [b EXCEPT !.ready = NoRtp]
<1>3. c \in Timings
  BY <1>2, BoundAssumption DEF Timings, NoRtp
<1> HIDE DEF c
<1> DEFINE d == [c EXCEPT !.early = 0]
<1>4. d \in Timings
  BY <1>3, BoundAssumption DEF Timings, NoRtp
<1> HIDE DEF d
<1> DEFINE e == [d EXCEPT !.quick = FALSE]
<1>5. e \in Timings
  BY <1>4, BoundAssumption DEF Timings, NoRtp
<1> HIDE DEF e
<1> DEFINE f == [e EXCEPT !.until = NoRtp]
<1>6. f \in Timings
  BY <1>5, BoundAssumption DEF Timings, NoRtp
<1> QED  BY <1>6 DEF ResetTiming, a, b, c, d, e, f

(* The sender and the clock. *)
LEMMA SenderFields == TypeInv /\ Sender => FieldsKnown'
<1> SUFFICES ASSUME TypeInv, Sender PROVE FieldsKnown'
  OBVIOUS
<1>1. FramesKnown /\ FieldsKnown
  BY DEF TypeInv, WayInv
<1>2. CASE Send
  <2>1. socket' = Append(socket, [gen |-> gen, rtp |-> plan.start[gen] + sent])
        /\ Len(socket) < SocketCap
        /\ UNCHANGED << plan, timing, gate, request, due, now, pauses, defers >>
    BY <1>2 DEF Send
  <2>2. Len(socket') <= SocketCap
    BY <1>1, <2>1, BoundAssumption DEF FramesKnown
  <2> QED  BY <1>1, <2>1, <2>2 DEF FieldsKnown
<1>3. CASE Tick
  <2>1. now' \in 0 .. plan.time /\ UNCHANGED << sender, socket, timing, gate, request >>
    BY <1>1, <1>3, ScenarioNumbers DEF Tick, FieldsKnown
  <2> QED  BY <1>1, <2>1 DEF FieldsKnown, sender
<1>4. CASE TrackChange
  <2>1. gen + 1 \in Generations /\ due' = plan.start[gen + 1]
        /\ UNCHANGED << plan, socket, timing, gate, request, now, pauses, defers >>
    BY <1>1, <1>4, ScenarioNumbers, PlanIsScenario DEF TrackChange, Generations, Scenario
  <2>2. due' \in Int
    BY <1>1, <2>1, ScenarioNumbers
  <2> QED  BY <1>1, <2>1, <2>2 DEF FieldsKnown
<1> QED  BY <1>2, <1>3, <1>4 DEF Sender

(* FLUSH, the deferred flush and PAUSE. *)
LEMMA FlushFields ==
  TypeInv /\ (SeekFlush \/ SeekReset \/ SeekArm \/ DeferFlush \/ Pause) => FieldsKnown'
<1> SUFFICES ASSUME TypeInv, SeekFlush \/ SeekReset \/ SeekArm \/ DeferFlush \/ Pause
             PROVE  FieldsKnown'
  OBVIOUS
<1>1. FramesKnown /\ FieldsKnown
  BY DEF TypeInv, WayInv
<1>2. timing \in Timings /\ gate \in Gates /\ request \in Requests
  BY <1>1 DEF FieldsKnown
<1>3. CASE SeekFlush
  <2>0. due' = plan.start[gen + 1] /\ gen < Len(plan.start)
        /\ UNCHANGED << plan, socket, timing, gate, now, pauses, defers >>
    BY <1>3 DEF SeekFlush
  <2>1. gen + 1 \in Generations
    BY <1>1, <2>0, PlanIsScenario DEF Generations, Scenario
  <2>2. due' \in Int
    BY <1>1, <2>0, <2>1, ScenarioNumbers
  <2>3. request' \in Requests
    BY <1>2, <1>3 DEF SeekFlush, NextRequest, Requests
  <2> QED  BY <1>1, <2>0, <2>2, <2>3 DEF FieldsKnown
<1>4. CASE SeekReset
  <2>1. timing' \in Timings
    BY <1>2, <1>4, ResetIsTiming DEF SeekReset
  <2>2. gate' \in Gates /\ request' \in Requests
    BY <1>2, <1>4 DEF SeekReset, OpenGates, NoRtp, Gates, NextRequest, Requests
  <2> QED  BY <1>1, <1>4, <2>1, <2>2 DEF FieldsKnown, SeekReset, sender
<1>5. CASE SeekArm
  <2>1. timing' \in Timings
    BY <1>2, <1>5 DEF SeekArm, Timings
  <2>2. gate' \in Gates /\ request' \in Requests
    BY <1>2, <1>5 DEF SeekArm, Gates, NextRequest, Requests
  <2> QED  BY <1>1, <1>5, <2>1, <2>2 DEF FieldsKnown, SeekArm, sender
<1>6. CASE DeferFlush
  <2>1. PICK r \in Rtp : timing' = [timing EXCEPT !.until = r]
    BY <1>6 DEF DeferFlush
  <2>2. r \in Int
    BY <1>1, <2>1, RtpIsNat
  <2>3. timing' \in Timings
    BY <1>2, <2>1, <2>2 DEF Timings
  <2>4. defers' \in 0 .. plan.defers
    BY <1>1, <1>6, ScenarioNumbers DEF DeferFlush, FieldsKnown
  <2> QED  BY <1>1, <1>6, <2>3, <2>4 DEF FieldsKnown, DeferFlush
<1>7. CASE Pause
  <2>1. timing' \in Timings
    BY <1>2, <1>7 DEF Pause, Timings
  <2>2. due' \in Int
    <3>1. timing.rtp \in Int /\ timing.time \in Int /\ now \in Int
      BY <1>1, <1>2 DEF Timings, FieldsKnown
    <3>2. Largest(0, now - timing.time) \in Int
      BY <3>1 DEF Largest
    <3> QED  BY <1>7, <3>1, <3>2 DEF Pause
  <2>3. pauses' \in 0 .. plan.pauses
    BY <1>1, <1>7, ScenarioNumbers DEF Pause, FieldsKnown
  <2> QED  BY <1>1, <1>7, <2>1, <2>2, <2>3 DEF FieldsKnown, Pause
<1> QED  BY <1>3, <1>4, <1>5, <1>6, <1>7

LEMMA ArmIsGate ==
  ASSUME NEW g \in Gates, NEW r \in Int
  PROVE  /\ Arm(g, r) \in Gates /\ Arm(g, r).before = r /\ Arm(g, r).above = r + GateWindow
         /\ Arm(g, r).arm = g.arm /\ Arm(g, r).blanket = g.blanket
<1> DEFINE a == [g EXCEPT !.before = r]
<1>1. a \in Gates /\ a.before = r /\ a.arm = g.arm /\ a.blanket = g.blanket
  BY DEF Gates
<1>2. Arm(g, r) = [a EXCEPT !.above = r + GateWindow] /\ r + GateWindow \in Int
  BY GateAssumption DEF Arm
<1> HIDE DEF a
<1> QED  BY <1>1, <1>2 DEF Gates

(* What the steps of an anchor do to the gates and the timing. *)
LEMMA AnchorFields ==
  TypeInv /\ (AnchorArm \/ AnchorOpen \/ AnchorOldest \/ AnchorSet) => FieldsKnown'
<1> SUFFICES ASSUME TypeInv, AnchorArm \/ AnchorOpen \/ AnchorOldest \/ AnchorSet
             PROVE  FieldsKnown'
  OBVIOUS
<1>1. FramesKnown /\ FieldsKnown
  BY DEF TypeInv, WayInv
<1>2. /\ timing \in Timings /\ gate \in Gates /\ request \in Requests
      /\ due \in Int /\ now \in Int /\ plan.lead \in Nat
  BY <1>1, ScenarioNumbers DEF FieldsKnown
<1>3. CASE AnchorArm
  <2>1. timing' \in Timings
    BY <1>2, <1>3, RestartIsTiming DEF AnchorArm
  <2>2. gate' \in Gates
    <3>1. [gate EXCEPT !.arm = FALSE] \in Gates
      BY <1>2 DEF Gates
    <3> QED  BY <1>2, <1>3, <3>1, ArmIsGate DEF AnchorArm
  <2>3. request' \in Requests
    <3>1. PICK l \in 0 .. plan.lead, b \in BOOLEAN :
            request' = [pc |-> "open", anchor |-> [rtp |-> due, time |-> now + l, armed |-> b]]
      <4>1. gate.arm \in BOOLEAN /\ timing.anchored \in BOOLEAN
        BY <1>2 DEF Gates, Timings
      <4> QED  BY <1>3, <4>1 DEF AnchorArm
    <3>2. now + l \in Int
      BY <1>2
    <3> QED  BY <1>2, <3>1, <3>2 DEF Requests
  <2> QED  BY <1>1, <1>3, <2>1, <2>2, <2>3 DEF FieldsKnown, AnchorArm, sender
<1>4. CASE AnchorOpen
  <2>1. gate' \in Gates /\ request' \in Requests
    BY <1>2, <1>4 DEF AnchorOpen, NextRequest, Gates, Requests
  <2> QED  BY <1>1, <1>4, <2>1 DEF FieldsKnown, AnchorOpen, sender
<1>5. CASE AnchorOldest
  <2>1. timing' \in Timings
    BY <1>2, <1>5, RestartIsTiming DEF AnchorOldest
  <2>2. gate' \in Gates
    <3>1. request.anchor.rtp \in Int
      BY <1>2 DEF Requests
    <3> QED  BY <1>2, <1>5, <3>1, ArmIsGate DEF AnchorOldest
  <2>3. request' \in Requests
    BY <1>2, <1>5 DEF AnchorOldest, NextRequest, Requests
  <2> QED  BY <1>1, <1>5, <2>1, <2>2, <2>3 DEF FieldsKnown, AnchorOldest, sender
<1>6. CASE AnchorSet
  <2>1. request.anchor.rtp \in Int /\ request.anchor.time \in Int
    BY <1>2 DEF Requests
  <2>2. timing' \in Timings
    <3> DEFINE a == [timing EXCEPT !.rtp = request.anchor.rtp]
    <3>1. a \in Timings
      BY <1>2, <1>6, <2>1, BoundAssumption DEF Timings, NoRtp
    <3> HIDE DEF a
    <3> DEFINE b == [a EXCEPT !.time = request.anchor.time]
    <3>2. b \in Timings
      BY <1>2, <1>6, <2>1, <3>1, BoundAssumption DEF Timings, NoRtp
    <3> HIDE DEF b
    <3> DEFINE c == [b EXCEPT !.set_at = now]
    <3>3. c \in Timings
      BY <1>2, <1>6, <2>1, <3>2, BoundAssumption DEF Timings, NoRtp
    <3> HIDE DEF c
    <3> DEFINE d == [c EXCEPT !.anchored = TRUE]
    <3>4. d \in Timings
      BY <1>2, <1>6, <2>1, <3>3, BoundAssumption DEF Timings, NoRtp
    <3> HIDE DEF d
    <3> DEFINE e == [d EXCEPT !.early = 0]
    <3>5. e \in Timings
      BY <1>2, <1>6, <2>1, <3>4, BoundAssumption DEF Timings, NoRtp
    <3> HIDE DEF e
    <3> DEFINE f == [e EXCEPT !.playing = TRUE]
    <3>6. f \in Timings
      BY <1>2, <1>6, <2>1, <3>5, BoundAssumption DEF Timings, NoRtp
    <3> QED  BY <3>6, <1>2, <1>6, <2>1 DEF AnchorSet, a, b, c, d, e, f
  <2>3. request' \in Requests /\ due' \in Int
    BY <1>6 DEF AnchorSet, NoAnchor, NoRtp, Requests
  <2> QED  BY <1>1, <1>6, <2>2, <2>3 DEF FieldsKnown, AnchorSet
<1> QED  BY <1>3, <1>4, <1>5, <1>6

(* The gates only let go. *)
LEMMA GateAfterIs ==
  ASSUME NEW f, gate \in Gates
  PROVE  /\ GateAfter(f) \in Gates
         /\ GateAfter(f).arm = gate.arm /\ GateAfter(f).blanket = gate.blanket
         /\ GateAfter(f).before \in {gate.before, NoRtp}
         /\ GateAfter(f).above \in {gate.above, NoRtp}
         /\ ~Passes(f) => GateAfter(f).above = gate.above
         /\ gate.blanket \/ ~PassesBefore(f) => GateAfter(f) = gate
<1> DEFINE a == [gate EXCEPT !.before = NoRtp]
           b == [a EXCEPT !.above = NoRtp]
<1>1. a \in Gates /\ a.arm = gate.arm /\ a.blanket = gate.blanket /\ a.before = NoRtp
      /\ a.above = gate.above
  BY DEF Gates, NoRtp
<1>2. GateAfter(f) = IF gate.blanket \/ ~PassesBefore(f) THEN gate
                     ELSE IF ~PassesAbove(f) THEN a ELSE b
  BY DEF GateAfter
<1> HIDE DEF a
<1>3. b \in Gates /\ b.arm = gate.arm /\ b.blanket = gate.blanket /\ b.before = NoRtp
      /\ b.above = NoRtp
  BY <1>1 DEF Gates, NoRtp
<1> HIDE DEF b
<1>4. CASE gate.blanket \/ ~PassesBefore(f)
  BY <1>2, <1>4
<1>5. CASE ~gate.blanket /\ PassesBefore(f) /\ ~PassesAbove(f)
  BY <1>1, <1>2, <1>5
<1>6. CASE ~gate.blanket /\ PassesBefore(f) /\ PassesAbove(f)
  BY <1>2, <1>3, <1>6 DEF Passes
<1> QED  BY <1>4, <1>5, <1>6

LEMMA StreamFields == TypeInv /\ Stream => FieldsKnown'
<1> SUFFICES ASSUME TypeInv, Stream PROVE FieldsKnown'
  OBVIOUS
<1>1. FramesKnown /\ FieldsKnown
  BY DEF TypeInv, WayInv
<1>2. CASE ReceiveFrame
  <2>1. gate' \in Gates
    BY <1>1, <1>2, GateAfterIs DEF ReceiveFrame, FieldsKnown
  <2>2. Len(socket') <= SocketCap
    BY <1>1, <1>2, BoundAssumption DEF ReceiveFrame, FramesKnown, FieldsKnown
  <2> QED  BY <1>1, <1>2, <2>1, <2>2 DEF FieldsKnown, ReceiveFrame, sender
<1>3. CASE QueueFrame
  BY <1>1, <1>3 DEF FieldsKnown, QueueFrame, sender
<1> QED  BY <1>2, <1>3 DEF Stream

(* What no read changes of the timing: the anchor, which it can only give  *)
(* up, and whether it plays.                                               *)
LEMMA ReadFields ==
  TypeInv /\ Read =>
    /\ FieldsKnown'
    /\ UNCHANGED << plan, gen, sent, due, pauses, defers, socket, decoding, gate, request, now,
                    anchorGen >>
    /\ buffer' \subseteq buffer
    /\ timing'.rtp = timing.rtp /\ timing'.time = timing.time
    /\ timing'.set_at = timing.set_at /\ timing'.playing = timing.playing
<1> SUFFICES ASSUME TypeInv, Read
             PROVE  /\ FieldsKnown'
                    /\ UNCHANGED << plan, gen, sent, due, pauses, defers, socket, decoding, gate,
                                    request, now, anchorGen >>
                    /\ buffer' \subseteq buffer
                    /\ timing'.rtp = timing.rtp /\ timing'.time = timing.time
                    /\ timing'.set_at = timing.set_at /\ timing'.playing = timing.playing
  OBVIOUS
<1>1. FieldsKnown /\ timing \in Timings /\ now \in Int
  BY DEF TypeInv, FieldsKnown
<1>2. UNCHANGED << plan, gen, sent, due, pauses, defers, socket, decoding, gate, request, now,
                   anchorGen >>
  BY 
     DEF Read, ReadBegin, ReadFetch, ReadDeferredFlush, ReadEarly, ReadStash, ReadLate, ReadPlay,
         sender, history
<1>3. buffer' \subseteq buffer
  BY DEF Read, ReadBegin, ReadFetch, ReadDeferredFlush, ReadEarly, ReadStash, ReadLate, ReadPlay
<1>4. /\ timing' \in Timings
      /\ timing'.rtp = timing.rtp /\ timing'.time = timing.time
      /\ timing'.set_at = timing.set_at /\ timing'.playing = timing.playing
  <2>1. CASE ReadBegin
    BY <1>1, <2>1 DEF ReadBegin, Timings
  <2>2. CASE ReadFetch \/ ReadStash
    BY <1>1, <2>2 DEF ReadFetch, ReadStash
  <2>3. CASE ReadDeferredFlush
    <3>0. timing' \in Timings
      <4> DEFINE a == [timing EXCEPT !.until = NoRtp]
      <4>1. a \in Timings
        BY <1>1, <2>3, BoundAssumption DEF Timings, NoRtp
      <4> HIDE DEF a
      <4> DEFINE b == [a EXCEPT !.started = FALSE]
      <4>2. b \in Timings
        BY <1>1, <2>3, <4>1, BoundAssumption DEF Timings, NoRtp
      <4> HIDE DEF b
      <4> DEFINE c == [b EXCEPT !.ready = NoRtp]
      <4>3. c \in Timings
        BY <1>1, <2>3, <4>2, BoundAssumption DEF Timings, NoRtp
      <4> HIDE DEF c
      <4> DEFINE d == [c EXCEPT !.early = 0]
      <4>4. d \in Timings
        BY <1>1, <2>3, <4>3, BoundAssumption DEF Timings, NoRtp
      <4> HIDE DEF d
      <4> DEFINE e == [d EXCEPT !.quick = TRUE]
      <4>5. e \in Timings
        BY <1>1, <2>3, <4>4, BoundAssumption DEF Timings, NoRtp
      <4> QED  BY <4>5, <1>1, <2>3 DEF ReadDeferredFlush, a, b, c, d, e
    <3> QED  BY <1>1, <2>3, <3>0 DEF ReadDeferredFlush, Timings
  <2>4. CASE ReadEarly
    <3>1. EarlyCount \in 0 .. MaxConsecutiveEarly
      BY <1>1, <2>4, BoundAssumption DEF ReadEarly, EarlyCount, Timings
    <3> QED  BY <1>1, <2>4, <3>1 DEF ReadEarly, Timings
  <2>5. CASE ReadLate
    BY <1>1, <2>5, BoundAssumption DEF ReadLate, Timings
  <2>6. CASE ReadPlay
    <3>1. TooEarly \in BOOLEAN
      BY <1>1 DEF TooEarly, Timings
    <3>2. timing' \in Timings
      <4> DEFINE a == [timing EXCEPT !.anchored = timing.anchored /\ ~TooEarly]
      <4>1. a \in Timings
        BY <1>1, <2>6, <3>1, BoundAssumption DEF Timings, NoRtp
      <4> HIDE DEF a
      <4> DEFINE b == [a EXCEPT !.early = 0]
      <4>2. b \in Timings
        BY <1>1, <2>6, <3>1, <4>1, BoundAssumption DEF Timings, NoRtp
      <4> HIDE DEF b
      <4> DEFINE c == [b EXCEPT !.started = TRUE]
      <4>3. c \in Timings
        BY <1>1, <2>6, <3>1, <4>2, BoundAssumption DEF Timings, NoRtp
      <4> HIDE DEF c
      <4> DEFINE d == [c EXCEPT !.quick = timing.quick /\ timing.started]
      <4>4. d \in Timings
        BY <1>1, <2>6, <3>1, <4>3, BoundAssumption DEF Timings, NoRtp
      <4> QED  BY <4>4, <1>1, <2>6, <3>1 DEF ReadPlay, a, b, c, d
    <3> QED  BY <1>1, <2>6, <3>2 DEF ReadPlay, Timings
  <2> QED  BY <2>1, <2>2, <2>3, <2>4, <2>5, <2>6 DEF Read
<1> QED  BY <1>1, <1>2, <1>3, <1>4 DEF FieldsKnown

LEMMA NextType == TypeInv /\ [PlaybackNext]_playbackVars => TypeInv'
<1> SUFFICES ASSUME TypeInv, [PlaybackNext]_playbackVars PROVE TypeInv'
  OBVIOUS
<1>1. WayInv'
  BY NextWay DEF TypeInv
<1>2. FieldsKnown'
  <2>1. CASE UNCHANGED playbackVars
    BY <2>1 DEF TypeInv, FieldsKnown, playbackVars, sender
  <2> QED
    BY <2>1, SenderFields, FlushFields, AnchorFields, StreamFields, ReadFields
       DEF PlaybackNext, Rtsp
<1> QED  BY <1>1, <1>2 DEF TypeInv

(* Every field of the three tasks holds what the code may store there, for *)
(* every scenario: the counter of early frames stays within its limit, and *)
(* a read has a frame exactly while it checks or keeps one.                *)
THEOREM PlaybackTypes == PlaybackSpec => []PlaybackTypeOK
<1>1. PlaybackInit => TypeInv
  BY InitWay, InitFields DEF TypeInv
<1>2. TypeInv => PlaybackTypeOK
  BY 
     DEF TypeInv, WayInv, FramesKnown, OneInHand, FieldsKnown, Timings, Gates, Requests, Reads,
         PlaybackTypeOK
<1> QED  BY <1>1, <1>2, NextType, PTL DEF PlaybackSpec

-----------------------------------------------------------------------------
(* The anchor and the gates, as long as each track is announced by a FLUSH. *)
Anchoring == request.pc \in {"open", "oldest", "anchor"}
Anchored == anchorGen = gen

(* What the anchor owed and the one in force are: not before the track, not *)
(* further into it than the clock went; and a pause is a short one.         *)
AnchorOwed ==
  /\ due = NoRtp \/ due \in Start .. Start + now
  /\ ~Anchored => due # NoRtp

AnchorRequested ==
  Anchoring => /\ due # NoRtp /\ request.anchor.rtp = due
               /\ request.anchor.time \in now .. now + plan.lead

AnchorInForce ==
  Anchored => /\ timing.set_at \in 0 .. now
              /\ timing.rtp \in Start .. Start + timing.set_at
              /\ timing.time \in timing.set_at .. timing.set_at + plan.lead

Paused ==
  Anchored /\ due # NoRtp =>
    /\ ~timing.playing /\ timing.rtp <= due
    /\ due - timing.rtp <= now - timing.set_at
    /\ now - timing.time - (due - timing.rtp) <= plan.pause

AnchorKnown == AnchorOwed /\ AnchorRequested /\ AnchorInForce /\ Paused

(* The blanket is for the time from a FLUSH to its anchor.  The window, if *)
(* armed, was armed by an anchor of this track: it begins no later than    *)
(* the one in force, and no gate is left from before a FLUSH.              *)
FlushKnown == request.pc \in {"reset", "blanket"} => ~Anchored /\ gen > 1

BlanketLifted == Anchored \/ request.pc \in {"oldest", "anchor"} => ~gate.blanket

WindowOpen ==
  ~Anchored /\ request.pc \in {"idle", "blanket"} => gate.before = NoRtp /\ gate.above = NoRtp

WindowBegins ==
  request.pc # "reset" /\ gate.before # NoRtp =>
    gate.before >= Start /\ gate.before <= IF Anchoring THEN due ELSE timing.rtp

WindowEnds ==
  request.pc # "reset" /\ gate.above # NoRtp =>
    gate.above >= Start + GateWindow /\ gate.above <= Start + plan.time + GateWindow

GatesKnown == FlushKnown /\ BlanketLifted /\ WindowOpen /\ WindowBegins /\ WindowEnds

(* A new track comes after a FLUSH, never by its anchor alone. *)
Announced == ~plan.silent

AnchorInv == TypeInv /\ Announced /\ AnchorKnown /\ GatesKnown

LEMMA FieldNumbers ==
  ASSUME TypeInv
  PROVE  /\ FramesKnown /\ timing \in Timings /\ gate \in Gates /\ request \in Requests
         /\ timing.rtp \in Int /\ timing.time \in Int /\ timing.set_at \in Int
         /\ timing.playing \in BOOLEAN /\ timing.anchored \in BOOLEAN
         /\ gate.before \in Int /\ gate.above \in Int /\ gate.arm \in BOOLEAN
         /\ gate.blanket \in BOOLEAN /\ request.anchor.rtp \in Int /\ request.anchor.time \in Int
         /\ request.pc \in {"idle", "reset", "blanket", "open", "oldest", "anchor"}
         /\ due \in Int /\ now \in Nat /\ now <= plan.time /\ Start \in Nat
         /\ plan.time \in Nat /\ plan.lead \in Nat /\ plan.pause \in Nat
         /\ GateWindow \in Nat /\ SeekThreshold \in Nat
<1>1. FramesKnown /\ FieldsKnown
  BY DEF TypeInv, WayInv
<1>2. timing \in Timings /\ gate \in Gates /\ request \in Requests
  BY <1>1 DEF FieldsKnown
<1>3. /\ timing.rtp \in Int /\ timing.time \in Int /\ timing.set_at \in Int
      /\ timing.playing \in BOOLEAN /\ timing.anchored \in BOOLEAN
  BY <1>2 DEF Timings
<1>4. /\ gate.before \in Int /\ gate.above \in Int /\ gate.arm \in BOOLEAN
      /\ gate.blanket \in BOOLEAN
  BY <1>2 DEF Gates
<1>5. /\ request.anchor.rtp \in Int /\ request.anchor.time \in Int
      /\ request.pc \in {"idle", "reset", "blanket", "open", "oldest", "anchor"}
  BY <1>2 DEF Requests
<1>6. due \in Int /\ now \in Nat /\ now <= plan.time
  BY <1>1, ScenarioNumbers DEF FieldsKnown
<1> QED  BY <1>1, <1>2, <1>3, <1>4, <1>5, <1>6, ScenarioNumbers, GateAssumption

LEMMA InitAnchor == PlaybackInit => AnchorKnown /\ GatesKnown
<1> SUFFICES ASSUME PlaybackInit PROVE AnchorKnown /\ GatesKnown
  OBVIOUS
<1>1. TypeInv
  BY InitWay, InitFields DEF TypeInv
<1>2. Start \in Nat /\ due = Start /\ now = 0 /\ gen = 1 /\ anchorGen = 0
      /\ request.pc = "idle" /\ gate.before = NoRtp /\ gate.above = NoRtp
  BY <1>1, FieldNumbers DEF PlaybackInit, Start, OpenGates
<1>3. ~Anchored /\ ~Anchoring
  BY <1>2 DEF Anchored, Anchoring
<1>4. AnchorKnown
  BY <1>2, <1>3 DEF AnchorKnown, AnchorOwed, AnchorRequested, AnchorInForce, Paused, NoRtp
<1> QED  BY <1>2, <1>3, <1>4
            DEF GatesKnown, FlushKnown, BlanketLifted, WindowOpen, WindowBegins, WindowEnds

(* Most steps leave the anchor alone, and the gates or only let go of them. *)
LEMMA AnchorStays ==
  ASSUME AnchorInv, UNCHANGED << plan, gen, due, anchorGen, request, now >>,
         timing'.rtp = timing.rtp, timing'.time = timing.time,
         timing'.set_at = timing.set_at, timing'.playing = timing.playing,
         gate'.blanket = gate.blanket,
         gate'.before \in {gate.before, NoRtp}, gate'.above \in {gate.above, NoRtp}
  PROVE  AnchorKnown' /\ GatesKnown'
<1>1. Start' = Start /\ (Anchored' <=> Anchored) /\ (Anchoring' <=> Anchoring)
  BY DEF Start, Anchored, Anchoring
<1>2. AnchorKnown'
  BY <1>1 DEF AnchorInv, AnchorKnown, AnchorOwed, AnchorRequested, AnchorInForce, Paused
<1>3. GatesKnown'
  BY <1>1
     DEF AnchorInv, GatesKnown, FlushKnown, BlanketLifted, WindowOpen, WindowBegins, WindowEnds
<1> QED  BY <1>2, <1>3

LEMMA TickAnchor == AnchorInv /\ Tick => AnchorKnown' /\ GatesKnown'
<1> SUFFICES ASSUME AnchorInv, Tick PROVE AnchorKnown' /\ GatesKnown'
  OBVIOUS
<1>1. TypeInv /\ AnchorKnown /\ GatesKnown
  BY DEF AnchorInv
<1>2. /\ request.pc = "idle" /\ now' = now + 1
      /\ ~timing.playing => now - timing.time - (due - timing.rtp) < plan.pause
      /\ UNCHANGED << plan, gen, due, anchorGen, request, timing, gate >>
  BY DEF Tick, Idle, sender, history
<1>3. Start' = Start /\ (Anchored' <=> Anchored) /\ ~Anchoring' /\ ~Anchoring
  BY <1>2 DEF Start, Anchored, Anchoring
<1>4. due' = NoRtp \/ due' \in Start' .. Start' + now'
  BY <1>1, <1>2, <1>3, FieldNumbers
     DEF AnchorKnown, AnchorOwed, AnchorRequested, AnchorInForce, Paused
<1>5. ASSUME Anchored
      PROVE  /\ timing.set_at \in 0 .. now'
             /\ timing.rtp \in Start .. Start + timing.set_at
             /\ timing.time \in timing.set_at .. timing.set_at + plan.lead
  BY <1>1, <1>2, <1>5, FieldNumbers
     DEF AnchorKnown, AnchorOwed, AnchorRequested, AnchorInForce, Paused
<1>6. ASSUME Anchored, due # NoRtp
      PROVE  /\ ~timing.playing /\ timing.rtp <= due
             /\ due - timing.rtp <= now' - timing.set_at
             /\ now' - timing.time - (due - timing.rtp) <= plan.pause
  BY <1>1, <1>2, <1>6, FieldNumbers
     DEF AnchorKnown, AnchorOwed, AnchorRequested, AnchorInForce, Paused
<1>7. AnchorKnown'
  <2>1. AnchorOwed'
    BY <1>1, <1>2, <1>3, <1>4 DEF AnchorKnown, AnchorOwed
  <2>2. AnchorRequested'
    BY <1>3 DEF AnchorRequested
  <2>3. AnchorInForce'
    BY <1>2, <1>3, <1>5 DEF AnchorInForce
  <2>4. Paused'
    BY <1>2, <1>3, <1>6 DEF Paused
  <2> QED  BY <2>1, <2>2, <2>3, <2>4 DEF AnchorKnown
<1>8. GatesKnown'
  BY <1>1, <1>2, <1>3
     DEF GatesKnown, FlushKnown, BlanketLifted, WindowOpen, WindowBegins, WindowEnds
<1> QED  BY <1>7, <1>8

(* A FLUSH announces the next track. *)
LEMMA SeekAnchor ==
  AnchorInv /\ (SeekFlush \/ SeekReset \/ SeekArm) => AnchorKnown' /\ GatesKnown'
<1> SUFFICES ASSUME AnchorInv, SeekFlush \/ SeekReset \/ SeekArm
             PROVE  AnchorKnown' /\ GatesKnown'
  OBVIOUS
<1>1. TypeInv /\ AnchorKnown /\ GatesKnown
  BY DEF AnchorInv
<1>2. request' = [request EXCEPT !.pc = request'.pc] /\ request'.pc \in {"reset", "blanket", "idle"}
      /\ ~Anchoring' /\ UNCHANGED << plan, now, anchorGen >>
  BY <1>1, FieldNumbers
     DEF SeekFlush, SeekReset, SeekArm, NextRequest, Anchoring, Requests, sender, history
<1>3. CASE SeekFlush
  <2>1. /\ gen' = gen + 1 /\ due' = plan.start[gen + 1] /\ anchorGen = gen
        /\ gen < Len(plan.start) /\ request'.pc = "reset"
    BY <1>1, <1>3, FieldNumbers DEF SeekFlush, NextRequest, Requests
  <2>2. gen \in Nat /\ gen >= 1 /\ gen + 1 \in Generations
    <3>1. plan \in Scenario /\ gen \in 1 .. Len(plan.start)
      BY <1>1, FieldNumbers, PlanIsScenario DEF FramesKnown, Generations
    <3> QED  BY <2>1, <3>1 DEF Generations, Scenario
  <2>3. Start' = due' /\ due' \in Nat /\ due' # NoRtp /\ ~Anchored' /\ gen' > 1
    <3>1. Start' = due'
      BY <1>2, <2>1 DEF Start
    <3>2. due' \in Nat
      BY <1>1, <2>1, <2>2, FieldNumbers, ScenarioNumbers
    <3>3. anchorGen' # gen' /\ gen' > 1
      BY <1>2, <2>1, <2>2
    <3> QED  BY <3>1, <3>2, <3>3 DEF Anchored, NoRtp
  <2>4. AnchorKnown'
    BY <1>1, <1>2, <2>3, FieldNumbers
       DEF AnchorKnown, AnchorOwed, AnchorRequested, AnchorInForce, Paused
  <2>5. GatesKnown'
    BY <1>2, <2>1, <2>3
       DEF GatesKnown, FlushKnown, BlanketLifted, WindowOpen, WindowBegins, WindowEnds
  <2> QED  BY <2>4, <2>5
<1>4. CASE SeekReset \/ SeekArm
  <2>1. ~Anchored /\ gen > 1 /\ UNCHANGED << gen, due >>
    BY <1>1, <1>4
       DEF SeekReset, SeekArm, GatesKnown, FlushKnown, BlanketLifted, WindowOpen, WindowBegins,
           WindowEnds, sender
  <2>2. ~Anchored' /\ Start' = Start
    BY <1>2, <2>1 DEF Anchored, Start
  <2>3. AnchorKnown'
    <3>1. AnchorOwed'
      BY <1>1, <1>2, <2>1, <2>2 DEF AnchorKnown, AnchorOwed
    <3> QED
      BY <1>2, <2>2, <3>1 DEF AnchorKnown, AnchorRequested, AnchorInForce, Paused
  <2>4. gate'.before = NoRtp /\ gate'.above = NoRtp
    <3>1. CASE SeekReset
      BY <3>1 DEF SeekReset, OpenGates
    <3>2. CASE SeekArm
      <4>1. gate.before = NoRtp /\ gate.above = NoRtp
        BY <1>1, <2>1, <3>2 DEF SeekArm, GatesKnown, WindowOpen
      <4> QED  BY <1>1, <3>2, <4>1, FieldNumbers DEF SeekArm, Gates
    <3> QED  BY <1>4, <3>1, <3>2
  <2>5. GatesKnown'
    BY <1>2, <2>1, <2>2, <2>4
       DEF GatesKnown, FlushKnown, BlanketLifted, WindowOpen, WindowBegins, WindowEnds
  <2> QED  BY <2>3, <2>5
<1> QED  BY <1>3, <1>4

LEMMA PauseAnchor == AnchorInv /\ Pause => AnchorKnown' /\ GatesKnown'
<1> SUFFICES ASSUME AnchorInv, Pause PROVE AnchorKnown' /\ GatesKnown'
  OBVIOUS
<1>1. TypeInv /\ AnchorKnown /\ GatesKnown
  BY DEF AnchorInv
<1>2. /\ request.pc = "idle" /\ due = NoRtp
      /\ due' = timing.rtp + Largest(0, now - timing.time)
      /\ timing' = [timing EXCEPT !.playing = FALSE]
      /\ UNCHANGED << plan, gen, anchorGen, request, now, gate >>
  BY DEF Pause, Idle, history
<1>3. /\ timing'.rtp = timing.rtp /\ timing'.time = timing.time
      /\ timing'.set_at = timing.set_at /\ ~timing'.playing
  BY <1>1, <1>2, FieldNumbers DEF Timings
<1>4. Start' = Start /\ (Anchored' <=> Anchored) /\ ~Anchoring' /\ ~Anchoring
  BY <1>2 DEF Start, Anchored, Anchoring
<1>5. CASE Anchored
  <2>1. /\ timing.set_at \in 0 .. now
        /\ timing.rtp \in Start .. Start + timing.set_at
        /\ timing.time \in timing.set_at .. timing.set_at + plan.lead
    BY <1>1, <1>5 DEF AnchorKnown, AnchorOwed, AnchorRequested, AnchorInForce, Paused
  <2>2. due' \in timing.rtp .. timing.rtp + (now - timing.set_at)
    <3>1. CASE now - timing.time > 0
      BY <1>1, <1>2, <2>1, <3>1, FieldNumbers DEF Largest
    <3>2. CASE ~(now - timing.time > 0)
      BY <1>1, <1>2, <2>1, <3>2, FieldNumbers DEF Largest
    <3> QED  BY <3>1, <3>2
  <2>3. now - timing.time - (due' - timing.rtp) <= 0
    BY <1>1, <1>2, FieldNumbers DEF Largest
  <2>4. due' \in Start .. Start + now
    BY <1>1, <2>1, <2>2, FieldNumbers
  <2>5. /\ timing.rtp <= due' /\ due' - timing.rtp <= now - timing.set_at
        /\ now - timing.time - (due' - timing.rtp) <= plan.pause
    BY <1>1, <2>1, <2>2, <2>3, FieldNumbers
  <2>6. AnchorKnown'
    <3>1. AnchorOwed'
      BY <1>2, <1>4, <1>5, <2>4 DEF AnchorOwed
    <3>2. AnchorRequested'
      BY <1>4 DEF AnchorRequested
    <3>3. AnchorInForce'
      BY <1>2, <1>3, <1>4, <2>1 DEF AnchorInForce
    <3>4. Paused'
      BY <1>2, <1>3, <1>4, <2>5 DEF Paused
    <3> QED  BY <3>1, <3>2, <3>3, <3>4 DEF AnchorKnown
  <2> QED  BY <1>1, <1>2, <1>3, <1>4, <2>6
              DEF GatesKnown, FlushKnown, BlanketLifted, WindowOpen, WindowBegins, WindowEnds
<1>6. CASE ~Anchored
  BY <1>1, <1>2, <1>6 DEF AnchorKnown, AnchorOwed, AnchorRequested, AnchorInForce, Paused
<1> QED  BY <1>5, <1>6

(* The anchor: armed after a FLUSH, or when it is far from where playback  *)
(* should be, and then set.                                                *)
LEMMA ArmAnchor == AnchorInv /\ AnchorArm => AnchorKnown' /\ GatesKnown'
<1> SUFFICES ASSUME AnchorInv, AnchorArm PROVE AnchorKnown' /\ GatesKnown'
  OBVIOUS
<1>1. TypeInv /\ AnchorKnown /\ GatesKnown
  BY DEF AnchorInv
<1> DEFINE jump == timing.anchored /\ ~gate.arm /\ Abs(due - ExpectedRtp) > SeekThreshold
           armed == gate.arm \/ jump
<1>2. PICK lead \in 0 .. plan.lead :
        /\ request' = [pc |-> "open",
                       anchor |-> [rtp |-> due, time |-> now + lead, armed |-> armed]]
        /\ gate' = IF armed THEN Arm([gate EXCEPT !.arm = FALSE], due) ELSE gate
        /\ timing' = IF jump THEN Restart(timing) ELSE timing
  BY DEF AnchorArm
<1>3. request.pc = "idle" /\ due # NoRtp /\ UNCHANGED << plan, gen, due, anchorGen, now >>
  BY DEF AnchorArm, Idle, sender, history
<1> HIDE DEF armed, jump
<1>4. /\ timing'.rtp = timing.rtp /\ timing'.time = timing.time
      /\ timing'.set_at = timing.set_at /\ timing'.playing = timing.playing
  BY <1>1, <1>2, FieldNumbers, RestartKeeps
<1>5. Start' = Start /\ (Anchored' <=> Anchored) /\ Anchoring'
  BY <1>2, <1>3 DEF Start, Anchored, Anchoring
<1>6. request'.anchor.rtp = due /\ request'.anchor.time \in now .. now + plan.lead
      /\ request'.pc = "open"
  BY <1>1, <1>2, FieldNumbers
<1>7. AnchorKnown'
  BY <1>1, <1>3, <1>4, <1>5, <1>6
     DEF AnchorKnown, AnchorOwed, AnchorRequested, AnchorInForce, Paused
<1>8. due \in Start .. Start + now
  BY <1>1, <1>3 DEF AnchorKnown, AnchorOwed, AnchorRequested, AnchorInForce, Paused
<1>9. CASE armed
  <2>1. [gate EXCEPT !.arm = FALSE] \in Gates
        /\ [gate EXCEPT !.arm = FALSE].blanket = gate.blanket
    BY <1>1, FieldNumbers DEF Gates
  <2>2. gate'.before = due /\ gate'.above = due + GateWindow /\ gate'.blanket = gate.blanket
    BY <1>1, <1>2, <1>9, <2>1, ArmIsGate, FieldNumbers
  <2>3. /\ gate'.before >= Start /\ gate'.before <= due
        /\ gate'.above >= Start + GateWindow /\ gate'.above <= Start + plan.time + GateWindow
    BY <1>1, <1>8, <2>2, FieldNumbers
  <2>4. GatesKnown'
    <3>1. FlushKnown' /\ BlanketLifted' /\ WindowOpen'
      BY <1>1, <1>3, <1>5, <1>6, <2>2 DEF GatesKnown, FlushKnown, BlanketLifted, WindowOpen
    <3>2. WindowBegins'
      BY <1>3, <1>5, <2>2, <2>3 DEF WindowBegins
    <3>3. WindowEnds'
      BY <1>3, <1>5, <2>2, <2>3 DEF WindowEnds
    <3> QED  BY <3>1, <3>2, <3>3 DEF GatesKnown
  <2> QED  BY <1>7, <2>4
<1>10. CASE ~armed
  <2>1. gate' = gate
    BY <1>2, <1>10
  <2>2. CASE Anchored
    <3>1. timing.rtp <= due
      BY <1>1, <1>3, <2>2 DEF AnchorKnown, AnchorOwed, AnchorRequested, AnchorInForce, Paused
    <3>2. gate.before # NoRtp => gate.before >= Start /\ gate.before <= due
      BY <1>1, <1>3, <3>1, FieldNumbers
         DEF GatesKnown, FlushKnown, BlanketLifted, WindowOpen, WindowBegins, WindowEnds,
             Anchoring
    <3>3. gate.above # NoRtp => /\ gate.above >= Start + GateWindow
                                /\ gate.above <= Start + plan.time + GateWindow
      BY <1>1, <1>3
         DEF GatesKnown, FlushKnown, BlanketLifted, WindowOpen, WindowBegins, WindowEnds
    <3>4. GatesKnown'
      <4>1. FlushKnown' /\ BlanketLifted' /\ WindowOpen'
        BY <1>1, <1>3, <1>5, <1>6, <2>1, <2>2
           DEF GatesKnown, FlushKnown, BlanketLifted, WindowOpen
      <4>2. WindowBegins'
        BY <1>3, <1>5, <2>1, <3>2 DEF WindowBegins
      <4>3. WindowEnds'
        BY <1>3, <1>5, <2>1, <3>3 DEF WindowEnds
      <4> QED  BY <4>1, <4>2, <4>3 DEF GatesKnown
    <3> QED  BY <1>7, <3>4
  <2>3. CASE ~Anchored
    <3>1. gate.before = NoRtp /\ gate.above = NoRtp
      BY <1>1, <1>3, <2>3 DEF GatesKnown, WindowOpen
    <3>2. FlushKnown' /\ BlanketLifted' /\ WindowOpen'
      BY <1>1, <1>3, <1>5, <1>6, <2>3 DEF FlushKnown, BlanketLifted, WindowOpen
    <3>3. gate'.before = NoRtp /\ gate'.above = NoRtp
      BY <2>1, <3>1
    <3>4. WindowBegins' /\ WindowEnds'
      BY <3>3 DEF WindowBegins, WindowEnds, NoRtp
    <3> QED  BY <1>7, <3>2, <3>4 DEF GatesKnown
  <2> QED  BY <2>2, <2>3
<1> QED  BY <1>7, <1>9, <1>10

LEMMA OpenAnchor == AnchorInv /\ AnchorOpen => AnchorKnown' /\ GatesKnown'
<1> SUFFICES ASSUME AnchorInv, AnchorOpen PROVE AnchorKnown' /\ GatesKnown'
  OBVIOUS
<1>1. TypeInv /\ AnchorKnown /\ GatesKnown
  BY DEF AnchorInv
<1>2. /\ request.pc = "open" /\ request'.pc = "oldest" /\ request'.anchor = request.anchor
      /\ gate'.before = gate.before /\ gate'.above = gate.above /\ ~gate'.blanket
      /\ UNCHANGED << plan, gen, due, anchorGen, now, timing >>
  BY <1>1, FieldNumbers DEF AnchorOpen, NextRequest, Requests, Gates, sender, history
<1>3. Start' = Start /\ (Anchored' <=> Anchored) /\ Anchoring' /\ Anchoring
  BY <1>2 DEF Start, Anchored, Anchoring
<1>4. AnchorKnown'
  BY <1>1, <1>2, <1>3 DEF AnchorKnown, AnchorOwed, AnchorRequested, AnchorInForce, Paused
<1>5. GatesKnown'
  BY <1>1, <1>2, <1>3
     DEF GatesKnown, FlushKnown, BlanketLifted, WindowOpen, WindowBegins, WindowEnds
<1> QED  BY <1>4, <1>5

LEMMA OldestAnchor == AnchorInv /\ AnchorOldest => AnchorKnown' /\ GatesKnown'
<1> SUFFICES ASSUME AnchorInv, AnchorOldest PROVE AnchorKnown' /\ GatesKnown'
  OBVIOUS
<1>1. TypeInv /\ AnchorKnown /\ GatesKnown
  BY DEF AnchorInv
<1>2. /\ request.pc = "oldest" /\ request'.pc = "anchor" /\ request'.anchor = request.anchor
      /\ gate' \in {gate, Arm(gate, request.anchor.rtp)}
      /\ timing' \in {timing, Restart(timing)}
      /\ UNCHANGED << plan, gen, due, anchorGen, now >>
  BY <1>1, FieldNumbers DEF AnchorOldest, NextRequest, Requests, sender, history
<1>3. Start' = Start /\ (Anchored' <=> Anchored) /\ Anchoring' /\ Anchoring
  BY <1>2 DEF Start, Anchored, Anchoring
<1>4. /\ timing'.rtp = timing.rtp /\ timing'.time = timing.time
      /\ timing'.set_at = timing.set_at /\ timing'.playing = timing.playing
  BY <1>1, <1>2, FieldNumbers, RestartKeeps
<1>5. request.anchor.rtp = due /\ due \in Start .. Start + now
  BY <1>1, <1>3 DEF AnchorKnown, AnchorOwed, AnchorRequested, AnchorInForce, Paused
<1>6. AnchorKnown'
  BY <1>1, <1>2, <1>3, <1>4 DEF AnchorKnown, AnchorOwed, AnchorRequested, AnchorInForce, Paused
<1>7. gate'.blanket = gate.blanket
      /\ (gate' = gate \/ (gate'.before = due /\ gate'.above = due + GateWindow))
  <2>1. /\ Arm(gate, due).blanket = gate.blanket /\ Arm(gate, due).before = due
        /\ Arm(gate, due).above = due + GateWindow
    BY <1>1, FieldNumbers, ArmIsGate
  <2> QED  BY <1>2, <1>5, <2>1
<1>8. due >= Start /\ due <= due
      /\ due + GateWindow >= Start + GateWindow
      /\ due + GateWindow <= Start + plan.time + GateWindow
  BY <1>1, <1>5, FieldNumbers
<1>9. GatesKnown'
  BY <1>1, <1>2, <1>3, <1>7, <1>8
     DEF GatesKnown, FlushKnown, BlanketLifted, WindowOpen, WindowBegins, WindowEnds
<1> QED  BY <1>6, <1>9

LEMMA SetAnchor == AnchorInv /\ AnchorSet => AnchorKnown' /\ GatesKnown'
<1> SUFFICES ASSUME AnchorInv, AnchorSet PROVE AnchorKnown' /\ GatesKnown'
  OBVIOUS
<1>1. TypeInv /\ AnchorKnown /\ GatesKnown
  BY DEF AnchorInv
<1>2. /\ request.pc = "anchor" /\ request'.pc = "idle" /\ due' = NoRtp /\ anchorGen' = gen
      /\ UNCHANGED << plan, gen, now, gate >>
  BY DEF AnchorSet
<1>3. /\ timing'.rtp = request.anchor.rtp /\ timing'.time = request.anchor.time
      /\ timing'.set_at = now
  BY <1>1, FieldNumbers DEF AnchorSet, Timings
<1>4. Start' = Start /\ Anchored' /\ ~Anchoring' /\ Anchoring
  BY <1>2 DEF Start, Anchored, Anchoring
<1>5. /\ request.anchor.rtp = due /\ due \in Start .. Start + now
      /\ request.anchor.time \in now .. now + plan.lead
  BY <1>1, <1>4 DEF AnchorKnown, AnchorOwed, AnchorRequested, AnchorInForce, Paused
<1>6. timing'.set_at \in 0 .. now
  BY <1>1, <1>3, FieldNumbers
<1>7. AnchorKnown'
  BY <1>2, <1>3, <1>4, <1>5, <1>6
     DEF AnchorKnown, AnchorOwed, AnchorRequested, AnchorInForce, Paused
<1>8. GatesKnown'
  BY <1>1, <1>2, <1>3, <1>4, <1>5
     DEF GatesKnown, FlushKnown, BlanketLifted, WindowOpen, WindowBegins, WindowEnds
<1> QED  BY <1>7, <1>8

LEMMA NextAnchor == AnchorInv /\ [PlaybackNext]_playbackVars => AnchorInv'
<1> SUFFICES ASSUME AnchorInv, [PlaybackNext]_playbackVars PROVE AnchorInv'
  OBVIOUS
<1>1. TypeInv /\ TypeInv'
  BY NextType DEF AnchorInv
<1>2. Announced'
  <2>1. plan' = plan
    BY 
       DEF PlaybackNext, Sender, Rtsp, Stream, Read, playbackVars, sender, Send, Tick,
           TrackChange, SeekFlush, SeekReset, SeekArm, DeferFlush, Pause, AnchorArm, AnchorOpen,
           AnchorOldest, AnchorSet, ReceiveFrame, QueueFrame, ReadBegin, ReadFetch,
           ReadDeferredFlush, ReadEarly, ReadStash, ReadLate, ReadPlay
  <2> QED  BY <2>1 DEF AnchorInv, Announced
<1>3. AnchorKnown' /\ GatesKnown'
  <2>1. CASE Send \/ QueueFrame \/ UNCHANGED playbackVars
    BY <2>1, AnchorStays DEF Send, QueueFrame, playbackVars, sender, history
  <2>2. CASE Tick
    BY <2>2, TickAnchor
  <2>3. CASE TrackChange
    BY <2>3 DEF TrackChange, AnchorInv, Announced
  <2>4. CASE SeekFlush \/ SeekReset \/ SeekArm
    BY <2>4, SeekAnchor
  <2>5. CASE DeferFlush
    <3>1. PICK r \in Rtp : timing' = [timing EXCEPT !.until = r]
      BY <2>5 DEF DeferFlush
    <3>2. /\ timing'.rtp = timing.rtp /\ timing'.time = timing.time
          /\ timing'.set_at = timing.set_at /\ timing'.playing = timing.playing
      BY <1>1, <3>1, FieldNumbers DEF Timings
    <3> QED  BY <2>5, <3>2, AnchorStays DEF DeferFlush, history
  <2>6. CASE Pause
    BY <2>6, PauseAnchor
  <2>7. CASE AnchorArm \/ AnchorOpen \/ AnchorOldest \/ AnchorSet
    BY <2>7, ArmAnchor, OpenAnchor, OldestAnchor, SetAnchor
  <2>8. CASE ReceiveFrame
    <3>1. gate'.blanket = gate.blanket
          /\ gate'.before \in {gate.before, NoRtp} /\ gate'.above \in {gate.above, NoRtp}
      BY <1>1, <2>8, GateAfterIs, FieldNumbers DEF ReceiveFrame
    <3> QED  BY <2>8, <3>1, AnchorStays DEF ReceiveFrame, sender, history
  <2>9. CASE Read
    BY <1>1, <2>9, ReadFields, AnchorStays
  <2> QED
    BY <2>1, <2>2, <2>3, <2>4, <2>5, <2>6, <2>7, <2>8, <2>9 DEF PlaybackNext, Sender, Rtsp, Stream
<1> QED  BY <1>1, <1>2, <1>3 DEF AnchorInv

-----------------------------------------------------------------------------
(* A sender that announces its tracks, pauses for less than 5 s and sends   *)
(* no frame more than 10 s ahead of the start of its track.                *)
Steady == Announced /\ plan.pause + plan.lead <= SeekThreshold /\ FramesPerGen <= GateWindow + 1

LEMMA PlanStays == [PlaybackNext]_playbackVars => plan' = plan
  BY 
     DEF PlaybackNext, Sender, Rtsp, Stream, Read, playbackVars, sender, Send, Tick, TrackChange,
         SeekFlush, SeekReset, SeekArm, DeferFlush, Pause, AnchorArm, AnchorOpen, AnchorOldest,
         AnchorSet, ReceiveFrame, QueueFrame, ReadBegin, ReadFetch, ReadDeferredFlush, ReadEarly,
         ReadStash, ReadLate, ReadPlay

(* A frame lies in its track. *)
LEMMA FrameInTrack ==
  ASSUME FramesKnown, NEW f \in Frames
  PROVE  /\ f.gen \in Generations /\ f.gen \in Nat /\ f.gen >= 1 /\ f.rtp \in Nat
         /\ plan.start[f.gen] \in Nat /\ FramesPerGen \in Nat
         /\ f.rtp >= plan.start[f.gen] /\ f.rtp <= plan.start[f.gen] + FramesPerGen - 1
<1>1. f.gen \in Generations
      /\ f.rtp \in plan.start[f.gen] .. plan.start[f.gen] + FramesPerGen - 1
  BY DEF Frames
<1>2. f.gen \in Nat /\ f.gen >= 1 /\ plan.start[f.gen] \in Nat /\ FramesPerGen \in Nat
  BY <1>1, ScenarioNumbers, FrameAssumption DEF Generations
<1> QED  BY <1>1, <1>2

(* Only the stream task takes from the socket, and of a track whose anchor *)
(* is in force the gates let it take every frame not before that anchor.   *)
LEMMA GatesStep ==
  ASSUME AnchorInv, Steady, [PlaybackNext]_playbackVars, Settled,
         Len(socket') < Len(socket), Head(socket).gen = gen, Head(socket).rtp >= timing.rtp
  PROVE  decoding' = Head(socket)
<1>1. TypeInv /\ FramesKnown /\ AnchorKnown /\ GatesKnown
  BY DEF AnchorInv, TypeInv, WayInv
<1>2. socket \in Seq(Frames)
  BY <1>1 DEF FramesKnown
<1>3. CASE Send
  <2>1. Len(socket') = Len(socket) + 1
    BY <1>2, <1>3 DEF Send
  <2> QED  BY <1>2, <2>1
<1>4. CASE ReceiveFrame
  <2> DEFINE f == Head(socket)
  <2>1. f \in Frames
    BY <1>2, <1>4 DEF ReceiveFrame
  <2>2. f.rtp \in Nat /\ f.rtp <= Start + FramesPerGen - 1 /\ FramesPerGen \in Nat
    BY <1>1, <2>1, FrameInTrack DEF Start
  <2>3. request.pc = "idle" /\ Anchored /\ ~Anchoring
    BY DEF Settled, Idle, Anchored, Anchoring
  <2>4. ~gate.blanket
    BY <1>1, <2>3 DEF GatesKnown, BlanketLifted
  <2>5. PassesBefore(f)
    <3>1. gate.before # NoRtp => gate.before <= timing.rtp
      BY <1>1, <2>3 DEF GatesKnown, WindowBegins
    <3>2. gate.before \in Int /\ timing.rtp \in Int /\ f.rtp >= timing.rtp
      BY <1>1, FieldNumbers
    <3>3. gate.before # NoRtp => f.rtp >= gate.before
      BY <2>2, <3>1, <3>2
    <3> QED  BY <3>3 DEF PassesBefore
  <2>6. PassesAbove(f)
    <3>1. gate.above # NoRtp => gate.above >= Start + GateWindow
      BY <1>1, <2>3 DEF GatesKnown, WindowEnds
    <3>2. FramesPerGen <= GateWindow + 1
      BY DEF Steady
    <3>3. gate.above \in Int /\ Start \in Nat /\ GateWindow \in Nat
      BY <1>1, FieldNumbers
    <3>4. gate.above # NoRtp => f.rtp <= gate.above
      BY <2>2, <3>1, <3>2, <3>3
    <3> QED  BY <3>4 DEF PassesAbove
  <2> QED  BY <1>4, <2>4, <2>5, <2>6 DEF ReceiveFrame, Passes
<1>5. ASSUME ~Send, ~ReceiveFrame PROVE socket' = socket
  BY <1>5
     DEF PlaybackNext, Sender, Rtsp, Stream, Read, playbackVars, sender, Tick, TrackChange,
         SeekFlush, SeekReset, SeekArm, DeferFlush, Pause, AnchorArm, AnchorOpen, AnchorOldest,
         AnchorSet, QueueFrame, ReadBegin, ReadFetch, ReadDeferredFlush, ReadEarly, ReadStash,
         ReadLate, ReadPlay
<1> QED  BY <1>2, <1>3, <1>4, <1>5

(* The anchor of a resume is where the clock has taken playback, but for   *)
(* the length of the pause: no jump.                                       *)
LEMMA ResumeIsNear ==
  ASSUME AnchorInv, Steady, Anchored, due # NoRtp
  PROVE  ~(Abs(due - ExpectedRtp) > SeekThreshold)
<1>1. TypeInv /\ AnchorKnown
  BY DEF AnchorInv
<1>2. /\ timing.rtp <= due /\ due - timing.rtp <= now - timing.set_at
      /\ now - timing.time - (due - timing.rtp) <= plan.pause
  BY <1>1 DEF AnchorKnown, Paused
<1>3. /\ timing.set_at \in 0 .. now
      /\ timing.time \in timing.set_at .. timing.set_at + plan.lead
  BY <1>1 DEF AnchorKnown, AnchorInForce
<1>4. plan.pause + plan.lead <= SeekThreshold
  BY DEF Steady
<1>5. ExpectedRtp = timing.rtp + (now - timing.set_at)
  BY <1>1, <1>3, FieldNumbers DEF ExpectedRtp, Largest
<1>6. ExpectedRtp - due \in 0 .. SeekThreshold
  BY <1>1, <1>2, <1>3, <1>4, <1>5, FieldNumbers
<1>7. ExpectedRtp \in Int
  BY <1>1, <1>3, <1>5, FieldNumbers
<1> QED  BY <1>1, <1>6, <1>7, FieldNumbers DEF Abs

LEMMA AnchorStep ==
  ASSUME AnchorInv, Steady, [PlaybackNext]_playbackVars,
         request'.pc \in {"open", "anchor"}, request'.pc # request.pc, Anchored,
         \A f \in buffer : f.gen = gen /\ Abs(f.rtp - due) <= SeekThreshold
  PROVE  buffer' = buffer
<1>1. TypeInv /\ AnchorKnown
  BY DEF AnchorInv
<1>2. CASE AnchorArm
  <2>1. due # NoRtp
    BY <1>2 DEF AnchorArm
  <2>2. ~(Abs(due - ExpectedRtp) > SeekThreshold)
    BY <2>1, ResumeIsNear
  <2> QED  BY <1>2, <2>2 DEF AnchorArm
<1>3. CASE AnchorOldest
  <2>1. request.anchor.rtp = due
    BY <1>1, <1>3 DEF AnchorOldest, AnchorKnown, AnchorRequested, Anchoring
  <2>2. ASSUME NEW f \in Oldest PROVE ~(Abs(f.rtp - due) > SeekThreshold)
    <3>1. f \in buffer /\ f \in Frames
      BY <1>1 DEF Oldest, TypeInv, WayInv, FramesKnown
    <3>2. f.rtp \in Nat
      BY <1>1, <3>1, FrameInTrack DEF TypeInv, WayInv
    <3>3. Abs(f.rtp - due) \in Int
      BY <1>1, <3>2, FieldNumbers DEF Abs
    <3> QED  BY <1>1, <3>1, <3>3, FieldNumbers
  <2> QED  BY <1>3, <2>1, <2>2 DEF AnchorOldest
<1>4. ASSUME ~AnchorArm, ~AnchorOldest PROVE FALSE
  <2>1. CASE SeekFlush \/ SeekReset \/ SeekArm \/ AnchorOpen \/ AnchorSet
    BY <1>1, <2>1, FieldNumbers
       DEF SeekFlush, SeekReset, SeekArm, AnchorOpen, AnchorSet, NextRequest, Requests
  <2>2. CASE Send \/ Tick \/ TrackChange \/ DeferFlush \/ Pause \/ Stream \/ UNCHANGED playbackVars
    BY <2>2
       DEF Send, Tick, TrackChange, DeferFlush, Pause, Stream, ReceiveFrame, QueueFrame,
           playbackVars
  <2>3. CASE Read
    BY <1>1, <2>3, ReadFields
  <2> QED  BY <1>4, <2>1, <2>2, <2>3 DEF PlaybackNext, Sender, Rtsp
<1> QED  BY <1>2, <1>3, <1>4

LEMMA AnchorInit == PlaybackInit /\ Announced => AnchorInv
  BY InitWay, InitFields, InitAnchor DEF AnchorInv, TypeInv

(* Neither the gates nor the anchors of its own track cost it a frame, when *)
(* each track is announced by a FLUSH and pauses are short.                *)
THEOREM TrackIsKept == PlaybackSpec /\ Steady => TrackKept
<1>1. PlaybackInit /\ Steady => AnchorInv /\ Steady
  BY AnchorInit DEF Steady
<1>2. AnchorInv /\ Steady /\ [PlaybackNext]_playbackVars => (AnchorInv /\ Steady)'
  BY NextAnchor, PlanStays DEF Steady, Announced
<1>3. AnchorInv /\ Steady /\ [PlaybackNext]_playbackVars
        => [(Settled /\ socket' # socket /\ Len(socket') < Len(socket)
             /\ Head(socket).gen = gen /\ Head(socket).rtp >= timing.rtp)
              => decoding' = Head(socket)]_playbackVars
  BY GatesStep
<1>4. AnchorInv /\ Steady /\ [PlaybackNext]_playbackVars
        => [(/\ request'.pc \in {"open", "anchor"} /\ request'.pc # request.pc
             /\ anchorGen = gen
             /\ \A f \in buffer : f.gen = gen /\ Abs(f.rtp - due) <= SeekThreshold)
              => buffer' = buffer]_playbackVars
  BY AnchorStep DEF Anchored
<1> QED
  BY <1>1, <1>2, <1>3, <1>4, PTL DEF PlaybackSpec, TrackKept, GatesKeepTrack, AnchorKeepsTrack

-----------------------------------------------------------------------------
(* The tracks before g lie below it, by more than the threshold; or above, *)
(* by more than the window of the gates lets through wherever in g it is.  *)
Below(g) == \A h \in 1 .. g - 1 : plan.start[h] + FramesPerGen + SeekThreshold <= plan.start[g]
Above(g) == \A h \in 1 .. g - 1 : plan.start[g] + plan.time + GateWindow < plan.start[h]

(* Each track lies far above all earlier ones; or far below them, and then *)
(* no frame gets in the middle of a request.                               *)
FarApart ==
  Announced /\ \A g \in Generations : Below(g) \/ (Above(g) /\ plan.preempted = {})

(* No frame on its way is of a track to come, and the socket holds the     *)
(* tracks in their order.                                                  *)
InLine ==
  /\ \A i \in DOMAIN socket : socket[i].gen <= gen
  /\ \A i, j \in DOMAIN socket : i < j => socket[i].gen <= socket[j].gen
  /\ \A f \in buffer \cup InDecoder : f.gen <= gen

(* All of the current track. *)
Fresh(S) == \A f \in S : f.gen = gen

(* From a FLUSH to the end of the request that sets the new anchor. *)
Awaiting == gen > 1 /\ ~Anchored

(* What is stale in the socket cannot pass the gates, which only a frame of *)
(* the track disarms.                                                      *)
Fenced ==
  \/ Fresh(OnTheWay)
  \/ Below(gen) /\ gate.before # NoRtp
  \/ Above(gen) /\ gate.above # NoRtp

(* When nothing stale is in the pool: as long as the anchor of the track is *)
(* in force, and from where the request to set it has looked at the pool.  *)
PoolFresh == ~Awaiting \/ request.pc = "anchor" => Fresh(buffer)

DecoderFresh == ~Awaiting \/ request.pc \in {"oldest", "anchor"} => Fresh(InDecoder) /\ Fenced

(* From the FLUSH to its anchor the blanket gate is down, or the request   *)
(* holds the window already.                                               *)
BlanketDown == Awaiting /\ request.pc = "idle" => gate.arm /\ gate.blanket

WindowArmed ==
  Awaiting /\ request.pc = "open" =>
    gate.blanket /\ decoding = NoFrame /\ gate.before # NoRtp /\ gate.above # NoRtp

(* After a seek backwards all that is in the pool is stale, so its oldest  *)
(* frame is.  After one forwards the oldest is stale if any is.            *)
StaleOnly ==
  Awaiting /\ ~Below(gen) /\ request.pc # "anchor" =>
    \A f \in buffer \cup InDecoder : f.gen < gen

(* Nor does a frame get into the decoder before the anchor is set. *)
NoneDecoding ==
  Awaiting /\ ~Below(gen) /\ request.pc \in {"oldest", "anchor"} => decoding = NoFrame

FenceKept ==
  PoolFresh /\ DecoderFresh /\ BlanketDown /\ WindowArmed /\ StaleOnly /\ NoneDecoding

FenceInv == AnchorInv /\ FarApart /\ InLine /\ FenceKept

(* A frame of an earlier track is outside of the window around an anchor of *)
(* this one, and further from it than the seek threshold.                  *)
LEMMA StaleIsFar ==
  ASSUME FramesKnown, NEW f \in Frames, f.gen < gen
  PROVE  /\ Below(gen) => f.rtp + SeekThreshold < Start /\ f.rtp < Start
         /\ Above(gen) => f.rtp > Start + plan.time + GateWindow
<1>1. /\ f.gen \in Nat /\ f.gen >= 1 /\ f.rtp \in Nat
      /\ plan.start[f.gen] \in Nat /\ FramesPerGen \in Nat
      /\ f.rtp >= plan.start[f.gen] /\ f.rtp <= plan.start[f.gen] + FramesPerGen - 1
  BY FrameInTrack
<1>2. gen \in Nat /\ Start \in Nat /\ plan.time \in Nat
  BY ScenarioNumbers
<1>3. f.gen \in 1 .. gen - 1
  BY <1>1, <1>2
<1>4. ASSUME Below(gen) PROVE f.rtp + SeekThreshold < Start /\ f.rtp < Start
  <2>1. plan.start[f.gen] + FramesPerGen + SeekThreshold <= Start
    BY <1>3, <1>4 DEF Below, Start
  <2> QED  BY <1>1, <1>2, <2>1, GateAssumption
<1>5. ASSUME Above(gen) PROVE f.rtp > Start + plan.time + GateWindow
  <2>1. Start + plan.time + GateWindow < plan.start[f.gen]
    BY <1>3, <1>5 DEF Above, Start
  <2> QED  BY <1>1, <1>2, <2>1, GateAssumption
<1> QED  BY <1>4, <1>5

(* The frames in the socket, the decoder and the pool, and their tracks.   *)
LEMMA InLineFrames ==
  ASSUME FramesKnown, InLine
  PROVE  /\ OnTheWay \subseteq Frames /\ InDecoder \subseteq Frames /\ buffer \subseteq Frames
         /\ \A f \in OnTheWay \cup InDecoder \cup buffer :
              f.gen \in Nat /\ f.gen >= 1 /\ f.gen <= gen
<1>1. OnTheWay \subseteq Frames /\ InDecoder \subseteq Frames /\ buffer \subseteq Frames
  BY PlacesHoldFrames DEF FramesKnown
<1>2. \A f \in OnTheWay \cup InDecoder \cup buffer : f.gen <= gen
  BY DEF InLine, OnTheWay
<1> QED  BY <1>1, <1>2, FrameInTrack

LEMMA FewerInLine ==
  ASSUME InLine, UNCHANGED << gen, socket >>, buffer' \subseteq buffer, InDecoder' \subseteq InDecoder
  PROVE  InLine'
  BY DEF InLine

LEMMA SendInLine == WayInv /\ InLine /\ Send => InLine'
<1> SUFFICES ASSUME WayInv, InLine, Send PROVE InLine'
  OBVIOUS
<1>1. FramesKnown /\ socket \in Seq(Frames) /\ gen \in Nat
  BY ScenarioNumbers DEF WayInv, FramesKnown
<1> DEFINE f == [gen |-> gen, rtp |-> plan.start[gen] + sent]
<1>2. socket' = Append(socket, f) /\ UNCHANGED << gen, decoding, buffer >>
  BY DEF Send
<1>3. f.gen = gen
  OBVIOUS
<1> HIDE DEF f
<1>4. /\ DOMAIN socket = 1 .. Len(socket) /\ DOMAIN socket' = 1 .. Len(socket) + 1
      /\ Len(socket) \in Nat /\ socket'[Len(socket) + 1] = f
      /\ \A i \in 1 .. Len(socket) : socket'[i] = socket[i]
  BY <1>1, <1>2
<1>5. \A i \in DOMAIN socket' : socket'[i].gen <= gen
  BY <1>1, <1>3, <1>4 DEF InLine
<1>6. ASSUME NEW i \in DOMAIN socket', NEW j \in DOMAIN socket', i < j
      PROVE  socket'[i].gen <= socket'[j].gen
  <2>1. i \in 1 .. Len(socket)
    BY <1>4, <1>6
  <2>2. CASE j \in 1 .. Len(socket)
    BY <1>4, <1>6, <2>1, <2>2 DEF InLine
  <2>3. CASE j = Len(socket) + 1
    BY <1>3, <1>4, <1>5, <2>3
  <2> QED  BY <1>4, <2>2, <2>3
<1>7. \A g \in buffer' \cup InDecoder' : g.gen <= gen'
  BY <1>2 DEF InLine, InDecoder
<1> QED  BY <1>2, <1>5, <1>6, <1>7 DEF InLine

LEMMA ReceiveInLine ==
  ASSUME WayInv, InLine, ReceiveFrame
  PROVE  /\ InLine' /\ Head(socket) \in OnTheWay /\ OnTheWay' \subseteq OnTheWay
         /\ \A g \in OnTheWay' : Head(socket).gen <= g.gen
<1>1. FramesKnown /\ socket \in Seq(Frames)
  BY DEF WayInv, FramesKnown
<1>2. /\ socket # << >> /\ socket' = Tail(socket) /\ UNCHANGED << gen, buffer >>
      /\ decoding' = Head(socket) \/ decoding' = NoFrame
  BY DEF ReceiveFrame, sender
<1>3. Head(socket) = socket[1] /\ 1 \in DOMAIN socket
  BY <1>1, <1>2
<1>4. \A i \in DOMAIN socket' : i \in Nat /\ i + 1 \in DOMAIN socket /\ socket'[i] = socket[i + 1]
                               /\ 1 < i + 1
  BY <1>1, <1>2
<1>5. Head(socket) \in OnTheWay /\ OnTheWay' \subseteq OnTheWay
  BY <1>3, <1>4 DEF OnTheWay
<1>6. \A g \in OnTheWay' : Head(socket).gen <= g.gen
  BY <1>3, <1>4 DEF InLine, OnTheWay
<1>7. \A i \in DOMAIN socket' : socket'[i].gen <= gen'
  BY <1>2, <1>4 DEF InLine
<1>8. ASSUME NEW i \in DOMAIN socket', NEW j \in DOMAIN socket', i < j
      PROVE  socket'[i].gen <= socket'[j].gen
  <2>1. i + 1 < j + 1
    BY <1>4, <1>8
  <2> QED  BY <1>4, <2>1 DEF InLine
<1>9. \A g \in buffer' \cup InDecoder' : g.gen <= gen'
  BY <1>2, <1>3 DEF InLine, InDecoder
<1> QED  BY <1>5, <1>6, <1>7, <1>8, <1>9 DEF InLine

LEMMA NextInLine == TypeInv /\ Announced /\ InLine /\ [PlaybackNext]_playbackVars => InLine'
<1> SUFFICES ASSUME TypeInv, Announced, InLine, [PlaybackNext]_playbackVars PROVE InLine'
  OBVIOUS
<1>1. WayInv /\ FramesKnown
  BY DEF TypeInv, WayInv
<1>2. CASE Send
  BY <1>1, <1>2, SendInLine
<1>3. CASE TrackChange
  BY <1>3 DEF TrackChange, Announced
<1>4. CASE SeekFlush
  <2>1. gen' = gen + 1 /\ buffer' = {} /\ UNCHANGED << socket, decoding >> /\ gen \in Nat
    BY <1>1, <1>4, ScenarioNumbers DEF SeekFlush
  <2>2. InDecoder' = InDecoder
    BY <2>1 DEF InDecoder
  <2>3. \A f \in OnTheWay \cup InDecoder : f.gen \in Nat /\ f.gen <= gen
    BY <1>1, InLineFrames
  <2>4. \A f \in OnTheWay \cup InDecoder : f.gen <= gen'
    BY <2>1, <2>3
  <2>5. \A i \in DOMAIN socket' : socket'[i].gen <= gen'
    BY <2>1, <2>4 DEF OnTheWay
  <2> QED  BY <2>1, <2>2, <2>4, <2>5 DEF InLine
<1>5. CASE ReceiveFrame
  BY <1>1, <1>5, ReceiveInLine
<1>6. CASE QueueFrame
  <2>1. buffer' = buffer \cup {decoding} /\ decoding' = NoFrame /\ decoding # NoFrame
        /\ UNCHANGED << gen, socket >>
    BY <1>6 DEF QueueFrame, sender
  <2>2. InDecoder' = {} /\ InDecoder = {decoding}
    BY <2>1 DEF InDecoder
  <2> QED  BY <2>1, <2>2 DEF InLine
<1>7. CASE Read
  <2>1. buffer' \subseteq buffer /\ UNCHANGED << gen, socket, decoding >>
    BY <1>7, ReadFields
  <2> QED  BY <2>1, FewerInLine DEF InDecoder
<1>8. CASE AnchorArm
  <2>1. buffer' \subseteq buffer /\ UNCHANGED << gen, socket, decoding >>
    BY <1>8 DEF AnchorArm, sender
  <2> QED  BY <2>1, FewerInLine DEF InDecoder
<1>9. CASE AnchorOldest
  <2>1. buffer' \subseteq buffer /\ UNCHANGED << gen, socket, decoding >>
    BY <1>9 DEF AnchorOldest, sender
  <2> QED  BY <2>1, FewerInLine DEF InDecoder
<1>10. CASE Tick \/ SeekReset \/ SeekArm \/ DeferFlush \/ Pause \/ AnchorOpen \/ AnchorSet
            \/ UNCHANGED playbackVars
  <2>1. UNCHANGED << gen, socket, decoding, buffer >>
    BY <1>10
       DEF Tick, SeekReset, SeekArm, DeferFlush, Pause, AnchorOpen, AnchorSet, playbackVars,
           sender
  <2> QED  BY <2>1, FewerInLine DEF InDecoder
<1> QED
  BY <1>2, <1>3, <1>4, <1>5, <1>6, <1>7, <1>8, <1>9, <1>10 DEF PlaybackNext, Sender, Rtsp, Stream

LEMMA FarApartNow ==
  ASSUME FramesKnown, FarApart
  PROVE  Below(gen) \/ (Above(gen) /\ plan.preempted = {})
  BY DEF FarApart, FramesKnown

(* Nothing before the first track is stale. *)
LEMMA FirstIsFresh ==
  ASSUME FramesKnown, InLine, ~(gen > 1)
  PROVE  Fresh(OnTheWay) /\ Fresh(InDecoder) /\ Fresh(buffer)
<1>1. gen \in Nat
  BY ScenarioNumbers
<1>2. \A f \in OnTheWay \cup InDecoder \cup buffer : f.gen = gen
  BY <1>1, InLineFrames
<1> QED  BY <1>2 DEF Fresh

LEMMA ArmedIsFenced ==
  ASSUME FramesKnown, FarApart, gate.before # NoRtp, gate.above # NoRtp
  PROVE  Fenced
  BY FarApartNow DEF Fenced

(* Steps that leave the request, the gates and the socket alone, and only  *)
(* take from the pool.                                                     *)
LEMMA FenceStays ==
  ASSUME FenceKept, UNCHANGED << plan, gen, anchorGen, request, gate, socket, decoding >>,
         buffer' \subseteq buffer
  PROVE  FenceKept'
<1>1. /\ (Awaiting' <=> Awaiting) /\ (Below(gen)' <=> Below(gen)) /\ (Above(gen)' <=> Above(gen))
      /\ InDecoder' = InDecoder /\ OnTheWay' = OnTheWay /\ gen' = gen
  BY DEF Awaiting, Anchored, Below, Above, InDecoder, OnTheWay
<1>2. Fenced' <=> Fenced
  BY <1>1 DEF Fenced, Fresh
<1>3. PoolFresh' /\ StaleOnly'
  BY <1>1 DEF FenceKept, PoolFresh, StaleOnly, Fresh
<1>4. DecoderFresh'
  BY <1>1, <1>2 DEF FenceKept, DecoderFresh, Fresh
<1>5. BlanketDown' /\ WindowArmed' /\ NoneDecoding'
  BY <1>1 DEF FenceKept, BlanketDown, WindowArmed, NoneDecoding
<1> QED  BY <1>3, <1>4, <1>5 DEF FenceKept

LEMMA SendFence == FenceInv /\ Send => FenceKept'
<1> SUFFICES ASSUME FenceInv, Send PROVE FenceKept'
  OBVIOUS
<1>1. FenceKept /\ FramesKnown /\ socket \in Seq(Frames)
  BY DEF FenceInv, AnchorInv, TypeInv, WayInv, FramesKnown
<1> DEFINE f == [gen |-> gen, rtp |-> plan.start[gen] + sent]
<1>2. socket' = Append(socket, f)
      /\ UNCHANGED << plan, gen, anchorGen, request, gate, decoding, buffer >>
  BY DEF Send, history
<1>3. f.gen = gen
  OBVIOUS
<1> HIDE DEF f
<1>4. OnTheWay' \subseteq OnTheWay \cup {f}
  <2>1. \A i \in DOMAIN socket' : socket'[i] = f \/ (i \in DOMAIN socket /\ socket'[i] = socket[i])
    BY <1>1, <1>2
  <2> QED  BY <2>1 DEF OnTheWay
<1>5. /\ (Awaiting' <=> Awaiting) /\ (Below(gen)' <=> Below(gen)) /\ (Above(gen)' <=> Above(gen))
      /\ InDecoder' = InDecoder
  BY <1>2 DEF Awaiting, Anchored, Below, Above, InDecoder
<1>6. Fenced => Fenced'
  BY <1>2, <1>3, <1>4, <1>5 DEF Fenced, Fresh
<1>7. PoolFresh' /\ StaleOnly'
  BY <1>1, <1>2, <1>5 DEF FenceKept, PoolFresh, StaleOnly, Fresh
<1>8. DecoderFresh'
  BY <1>1, <1>2, <1>5, <1>6 DEF FenceKept, DecoderFresh, Fresh
<1>9. BlanketDown' /\ WindowArmed' /\ NoneDecoding'
  BY <1>1, <1>2, <1>5 DEF FenceKept, BlanketDown, WindowArmed, NoneDecoding
<1> QED  BY <1>7, <1>8, <1>9 DEF FenceKept

(* What the request does, while the pool only loses frames: the parts that *)
(* speak of the program counter.                                           *)
LEMMA SeekFence == FenceInv /\ (SeekFlush \/ SeekReset \/ SeekArm) => FenceKept'
<1> SUFFICES ASSUME FenceInv, SeekFlush \/ SeekReset \/ SeekArm PROVE FenceKept'
  OBVIOUS
<1>1. FenceKept /\ FramesKnown /\ InLine /\ TypeInv /\ GatesKnown
  BY DEF FenceInv, AnchorInv, TypeInv, WayInv
<1>2. gen \in Nat /\ gen >= 1
  BY <1>1, ScenarioNumbers DEF Generations
<1>3. CASE SeekFlush
  <2>1. /\ gen' = gen + 1 /\ anchorGen' = gen /\ buffer' = {} /\ request'.pc = "reset"
        /\ UNCHANGED decoding
    BY <1>1, <1>3, FieldNumbers DEF SeekFlush, NextRequest, Requests, history
  <2>2. Awaiting'
    BY <1>2, <2>1 DEF Awaiting, Anchored
  <2>3. \A f \in InDecoder' : f.gen < gen'
    <3>1. InDecoder' = InDecoder
      BY <2>1 DEF InDecoder
    <3>2. \A f \in InDecoder : f.gen \in Nat /\ f.gen <= gen
      BY <1>1, InLineFrames
    <3> QED  BY <1>2, <2>1, <3>1, <3>2
  <2> QED
    BY <2>1, <2>2, <2>3
       DEF FenceKept, PoolFresh, DecoderFresh, BlanketDown, WindowArmed, StaleOnly, NoneDecoding
<1>4. CASE SeekReset \/ SeekArm
  <2>1. request.pc \in {"reset", "blanket"}
        /\ UNCHANGED << plan, gen, anchorGen, decoding, buffer >>
    BY <1>4 DEF SeekReset, SeekArm, sender, history
  <2>2. Awaiting /\ Awaiting'
    BY <1>1, <2>1 DEF GatesKnown, FlushKnown, Awaiting, Anchored
  <2>3. (Below(gen)' <=> Below(gen)) /\ InDecoder' = InDecoder
    BY <2>1 DEF Below, InDecoder
  <2>4. StaleOnly'
    BY <1>1, <2>1, <2>2, <2>3 DEF FenceKept, StaleOnly
  <2>5. request'.pc = "blanket" \/ (request'.pc = "idle" /\ gate'.arm /\ gate'.blanket)
    BY <1>1, <1>4, FieldNumbers DEF SeekReset, SeekArm, NextRequest, Requests, Gates
  <2> QED
    BY <2>2, <2>4, <2>5
       DEF FenceKept, PoolFresh, DecoderFresh, BlanketDown, WindowArmed, NoneDecoding
<1> QED  BY <1>3, <1>4

LEMMA ArmFence == FenceInv /\ AnchorArm => FenceKept'
<1> SUFFICES ASSUME FenceInv, AnchorArm PROVE FenceKept'
  OBVIOUS
<1>1. /\ FenceKept /\ FramesKnown /\ InLine /\ TypeInv /\ GatesKnown /\ AnchorKnown /\ FarApart
  BY DEF FenceInv, AnchorInv, TypeInv, WayInv
<1>2. /\ request.pc = "idle" /\ request'.pc = "open" /\ due # NoRtp /\ decoding = NoFrame
      /\ buffer' \subseteq buffer
      /\ UNCHANGED << plan, gen, anchorGen, socket, decoding >>
  BY DEF AnchorArm, Idle, sender, history
<1>3. /\ (Awaiting' <=> Awaiting) /\ (Below(gen)' <=> Below(gen)) /\ (Above(gen)' <=> Above(gen))
      /\ InDecoder' = {} /\ InDecoder = {} /\ OnTheWay' = OnTheWay
  BY <1>2 DEF Awaiting, Anchored, Below, Above, InDecoder, OnTheWay
<1>4. due \in Nat /\ due + GateWindow # NoRtp
  <2>1. due \in Start .. Start + now
    BY <1>1, <1>2 DEF AnchorKnown, AnchorOwed
  <2> QED  BY <1>1, <2>1, FieldNumbers DEF NoRtp
<1>5. gate' = gate \/ (gate'.before # NoRtp /\ gate'.above # NoRtp)
  <2>1. gate' \in {gate, Arm([gate EXCEPT !.arm = FALSE], due)}
    BY DEF AnchorArm
  <2>2. [gate EXCEPT !.arm = FALSE] \in Gates
    BY <1>1, FieldNumbers DEF Gates
  <2>3. /\ Arm([gate EXCEPT !.arm = FALSE], due).before = due
        /\ Arm([gate EXCEPT !.arm = FALSE], due).above = due + GateWindow
    BY <1>4, <2>2, ArmIsGate
  <2> QED  BY <1>2, <1>4, <2>1, <2>3
<1>6. CASE Awaiting
  <2>1. gate.arm /\ gate.blanket
    BY <1>1, <1>2, <1>6 DEF FenceKept, BlanketDown
  <2>2. gate' = Arm([gate EXCEPT !.arm = FALSE], due)
    BY <2>1 DEF AnchorArm
  <2>3. [gate EXCEPT !.arm = FALSE] \in Gates /\ [gate EXCEPT !.arm = FALSE].blanket
    BY <1>1, <2>1, FieldNumbers DEF Gates
  <2>4. gate'.blanket /\ gate'.before # NoRtp /\ gate'.above # NoRtp
    <3> DEFINE g == [gate EXCEPT !.arm = FALSE]
    <3>1. g \in Gates /\ g.blanket /\ due \in Int
      BY <1>4, <2>3
    <3> HIDE DEF g
    <3>2. Arm(g, due).before = due /\ Arm(g, due).above = due + GateWindow
          /\ Arm(g, due).blanket = g.blanket
      BY <3>1, ArmIsGate
    <3>3. gate' = Arm(g, due)
      BY <2>2 DEF g
    <3> QED  BY <1>2, <1>4, <3>1, <3>2, <3>3
  <2>5. StaleOnly'
    BY <1>1, <1>2, <1>3, <1>6 DEF FenceKept, StaleOnly
  <2> QED
    BY <1>2, <1>3, <1>6, <2>4, <2>5
       DEF FenceKept, PoolFresh, DecoderFresh, BlanketDown, WindowArmed, NoneDecoding
<1>7. CASE ~Awaiting
  <2>1. Fresh(buffer')
    BY <1>1, <1>2, <1>7 DEF FenceKept, PoolFresh, Fresh
  <2>2. Fenced'
    <3>1. CASE gate' = gate
      <4>1. Fenced
        BY <1>1, <1>7 DEF FenceKept, DecoderFresh
      <4> QED  BY <1>2, <1>3, <3>1, <4>1 DEF Fenced, Fresh
    <3>2. CASE gate'.before # NoRtp /\ gate'.above # NoRtp
      BY <1>1, <1>3, <3>2, FarApartNow DEF Fenced
    <3> QED  BY <1>5, <3>1, <3>2
  <2>3. PoolFresh' /\ DecoderFresh'
    BY <1>2, <1>3, <2>1, <2>2 DEF PoolFresh, DecoderFresh, Fresh
  <2> QED
    BY <1>3, <1>7, <2>3 DEF FenceKept, BlanketDown, WindowArmed, StaleOnly, NoneDecoding
<1> QED  BY <1>6, <1>7

LEMMA OpenFence == FenceInv /\ AnchorOpen => FenceKept'
<1> SUFFICES ASSUME FenceInv, AnchorOpen PROVE FenceKept'
  OBVIOUS
<1>1. FenceKept /\ FramesKnown /\ TypeInv /\ FarApart
  BY DEF FenceInv, AnchorInv, TypeInv, WayInv
<1>2. /\ request.pc = "open" /\ request'.pc = "oldest"
      /\ gate'.before = gate.before /\ gate'.above = gate.above
      /\ UNCHANGED << plan, gen, anchorGen, socket, decoding, buffer >>
  BY <1>1, FieldNumbers DEF AnchorOpen, NextRequest, Requests, Gates, sender, history
<1>3. /\ (Awaiting' <=> Awaiting) /\ (Below(gen)' <=> Below(gen)) /\ (Above(gen)' <=> Above(gen))
      /\ InDecoder' = InDecoder /\ OnTheWay' = OnTheWay
  BY <1>2 DEF Awaiting, Anchored, Below, Above, InDecoder, OnTheWay
<1>4. Fenced' <=> Fenced
  BY <1>2, <1>3 DEF Fenced, Fresh
<1>5. CASE Awaiting
  <2>1. decoding = NoFrame /\ Fenced
    BY <1>1, <1>2, <1>5, ArmedIsFenced DEF FenceKept, WindowArmed
  <2>2. InDecoder = {}
    BY <2>1 DEF InDecoder
  <2>3. DecoderFresh' /\ StaleOnly' /\ NoneDecoding'
    BY <1>1, <1>2, <1>3, <1>4, <1>5, <2>1, <2>2
       DEF FenceKept, DecoderFresh, StaleOnly, NoneDecoding, Fresh
  <2> QED  BY <1>2, <1>3, <1>5, <2>3 DEF FenceKept, PoolFresh, BlanketDown, WindowArmed
<1>6. CASE ~Awaiting
  <2>1. PoolFresh' /\ DecoderFresh'
    BY <1>1, <1>2, <1>3, <1>4, <1>6 DEF FenceKept, PoolFresh, DecoderFresh, Fresh
  <2> QED  BY <1>3, <1>6, <2>1 DEF FenceKept, BlanketDown, WindowArmed, StaleOnly, NoneDecoding
<1> QED  BY <1>5, <1>6

(* A set of numbers has a least one: the intervals from 0 to each of them  *)
(* are finite sets, and one of those contains no other.                    *)
LEMMA LeastOfNaturals ==
  ASSUME NEW R, R \subseteq Nat, R # {}
  PROVE  \E m \in R : \A n \in R : m <= n
<1> DEFINE UpTo(n) == 0 .. n
           T == {UpTo(n) : n \in R}
<1>1. T \subseteq FiniteSubsetsOf(Nat) /\ T # {}
  <2>1. ASSUME NEW n \in R PROVE UpTo(n) \in SUBSET Nat /\ IsFiniteSet(UpTo(n))
    BY FS_Interval
  <2> HIDE DEF UpTo
  <2> QED  BY <2>1 DEF FiniteSubsetsOf
<1>2. PICK x \in T : \A y \in T : ~(<< y, x >> \in StrictSubsetOrdering(Nat))
  <2> HIDE DEF T
  <2> QED  BY <1>1, FS_StrictSubsetOrderingWellFounded, WFMin
<1>3. PICK m \in R : x = UpTo(m)
  OBVIOUS
<1>4. ASSUME NEW n \in R PROVE m <= n
  <2> SUFFICES ASSUME n < m PROVE FALSE
    OBVIOUS
  <2>1. UpTo(n) \subseteq UpTo(m) /\ UpTo(n) # UpTo(m)
        /\ UpTo(n) \subseteq Nat /\ UpTo(m) \subseteq Nat
    <3>1. m \in UpTo(m) /\ m \notin UpTo(n)
      OBVIOUS
    <3> QED  BY <3>1
  <2> HIDE DEF UpTo
  <2>2. << UpTo(n), x >> \in StrictSubsetOrdering(Nat)
    BY <1>3, <2>1 DEF StrictSubsetOrdering
  <2> QED  BY <1>2, <2>2
<1> QED  BY <1>4

(* A pool with a stale frame has an oldest frame that is far from the anchor. *)
LEMMA OldestIsFar ==
  ASSUME FenceInv, request.pc = "oldest", Awaiting, NEW s \in buffer, s.gen # gen
  PROVE  \E f \in Oldest : Abs(f.rtp - request.anchor.rtp) > SeekThreshold
<1>1. FenceKept /\ FramesKnown /\ InLine /\ TypeInv /\ AnchorKnown /\ FarApart
  BY DEF FenceInv, AnchorInv, TypeInv, WayInv
<1>2. buffer \subseteq Frames /\ \A f \in buffer : f.gen \in Nat /\ f.gen <= gen /\ f.rtp \in Nat
  BY <1>1, InLineFrames, FrameInTrack
<1>3. gen \in Nat /\ Start \in Nat /\ SeekThreshold \in Nat /\ GateWindow \in Nat
      /\ plan.time \in Nat /\ now \in Nat /\ now <= plan.time /\ SeekThreshold <= GateWindow
  BY <1>1, FieldNumbers, ScenarioNumbers, GateAssumption
<1>4. s \in Frames /\ s.gen < gen
  BY <1>2, <1>3
<1> DEFINE R == {f.rtp : f \in buffer}
<1>5. PICK f \in buffer : \A g \in buffer : f.rtp <= g.rtp
  <2>1. R \subseteq Nat /\ R # {}
    BY <1>2
  <2>2. PICK m \in R : \A n \in R : m <= n
    BY <2>1, LeastOfNaturals
  <2> QED  BY <2>2
<1>6. f \in Oldest
  BY <1>5 DEF Oldest
<1>7. request.anchor.rtp = due /\ due \in Start .. Start + now
  BY <1>1 DEF AnchorKnown, AnchorRequested, AnchorOwed, Anchoring
<1>8. CASE Below(gen)
  <2>1. s.rtp + SeekThreshold < Start
    BY <1>1, <1>4, <1>8, StaleIsFar
  <2>2. f.rtp <= s.rtp /\ f.rtp \in Nat /\ s.rtp \in Nat
    BY <1>2, <1>5
  <2>3. due - f.rtp > SeekThreshold /\ f.rtp - due < 0
    BY <1>3, <1>7, <2>1, <2>2
  <2>4. Abs(f.rtp - due) = due - f.rtp
    BY <1>3, <1>7, <2>2, <2>3 DEF Abs
  <2> QED  BY <1>6, <1>7, <2>3, <2>4
<1>9. CASE ~Below(gen)
  <2>1. Above(gen)
    BY <1>1, <1>9, FarApartNow
  <2>2. f.gen < gen
    BY <1>1, <1>9 DEF FenceKept, StaleOnly
  <2>3. f.rtp > Start + plan.time + GateWindow
    BY <1>1, <1>2, <2>1, <2>2, StaleIsFar
  <2>4. f.rtp - due > SeekThreshold /\ ~(f.rtp - due < 0)
    BY <1>2, <1>3, <1>7, <2>3
  <2>5. Abs(f.rtp - due) = f.rtp - due
    BY <2>4 DEF Abs
  <2> QED  BY <1>6, <1>7, <2>4, <2>5
<1> QED  BY <1>8, <1>9

LEMMA OldestFence == FenceInv /\ AnchorOldest => FenceKept'
<1> SUFFICES ASSUME FenceInv, AnchorOldest PROVE FenceKept'
  OBVIOUS
<1>1. FenceKept /\ FramesKnown /\ TypeInv /\ FarApart /\ AnchorKnown
  BY DEF FenceInv, AnchorInv, TypeInv, WayInv
<1>2. /\ request.pc = "oldest" /\ request'.pc = "anchor" /\ buffer' \subseteq buffer
      /\ gate' \in {gate, Arm(gate, request.anchor.rtp)}
      /\ UNCHANGED << plan, gen, anchorGen, socket, decoding >>
  BY <1>1, FieldNumbers DEF AnchorOldest, NextRequest, Requests, sender, history
<1>3. /\ (Awaiting' <=> Awaiting) /\ (Below(gen)' <=> Below(gen)) /\ (Above(gen)' <=> Above(gen))
      /\ InDecoder' = InDecoder /\ OnTheWay' = OnTheWay
  BY <1>2 DEF Awaiting, Anchored, Below, Above, InDecoder, OnTheWay
<1>4. Fenced /\ Fresh(InDecoder)
  BY <1>1, <1>2 DEF FenceKept, DecoderFresh
<1>5. Fenced'
  <2>1. CASE gate' = gate
    BY <1>2, <1>3, <1>4, <2>1 DEF Fenced, Fresh
  <2>2. CASE gate' = Arm(gate, request.anchor.rtp)
    <3>1. request.anchor.rtp = due /\ due \in Start .. Start + now
      BY <1>1, <1>2 DEF AnchorKnown, AnchorRequested, AnchorOwed, Anchoring
    <3>2. due \in Nat /\ due # NoRtp /\ due + GateWindow # NoRtp
      BY <1>1, <3>1, FieldNumbers DEF NoRtp
    <3>3. gate'.before = due /\ gate'.above = due + GateWindow
      BY <1>1, <2>2, <3>1, <3>2, FieldNumbers, ArmIsGate
    <3> QED  BY <1>1, <1>3, <3>2, <3>3, FarApartNow DEF Fenced
  <2> QED  BY <1>2, <2>1, <2>2
<1>6. Fresh(buffer')
  <2>1. CASE Fresh(buffer)
    BY <1>2, <2>1 DEF Fresh
  <2>2. CASE ~Fresh(buffer)
    <3>1. Awaiting
      BY <1>1, <2>2 DEF FenceKept, PoolFresh
    <3>2. PICK s \in buffer : s.gen # gen
      BY <2>2 DEF Fresh
    <3>3. \E f \in Oldest : Abs(f.rtp - request.anchor.rtp) > SeekThreshold
      BY <1>2, <3>1, <3>2, OldestIsFar
    <3>4. buffer' = {}
      BY <3>3 DEF AnchorOldest
    <3> QED  BY <3>4 DEF Fresh
  <2> QED  BY <2>1, <2>2
<1>7. PoolFresh' /\ DecoderFresh'
  BY <1>2, <1>3, <1>4, <1>5, <1>6 DEF PoolFresh, DecoderFresh, Fresh
<1>8. BlanketDown' /\ WindowArmed' /\ StaleOnly' /\ NoneDecoding'
  BY <1>1, <1>2, <1>3 DEF FenceKept, BlanketDown, WindowArmed, StaleOnly, NoneDecoding
<1> QED  BY <1>7, <1>8 DEF FenceKept

LEMMA SetFence == FenceInv /\ AnchorSet => FenceKept'
<1> SUFFICES ASSUME FenceInv, AnchorSet PROVE FenceKept'
  OBVIOUS
<1>1. FenceKept
  BY DEF FenceInv
<1>2. /\ request.pc = "anchor" /\ request'.pc = "idle" /\ anchorGen' = gen
      /\ UNCHANGED << plan, gen, socket, decoding, buffer, gate >>
  BY DEF AnchorSet
<1>3. /\ ~Awaiting' /\ (Below(gen)' <=> Below(gen)) /\ (Above(gen)' <=> Above(gen))
      /\ InDecoder' = InDecoder /\ OnTheWay' = OnTheWay
  BY <1>2 DEF Awaiting, Anchored, Below, Above, InDecoder, OnTheWay
<1>4. Fresh(buffer) /\ Fresh(InDecoder) /\ Fenced
  BY <1>1, <1>2 DEF FenceKept, PoolFresh, DecoderFresh
<1>5. Fenced' /\ Fresh(buffer)' /\ Fresh(InDecoder)'
  BY <1>2, <1>3, <1>4 DEF Fenced, Fresh
<1> QED
  BY <1>3, <1>5
     DEF FenceKept, PoolFresh, DecoderFresh, BlanketDown, WindowArmed, StaleOnly, NoneDecoding

(* The gates refuse what is stale, and hold as long as some of it is left. *)
LEMMA ReceiveFence == FenceInv /\ ReceiveFrame => FenceKept'
<1> SUFFICES ASSUME FenceInv, ReceiveFrame PROVE FenceKept'
  OBVIOUS
<1> DEFINE f == Head(socket)
<1>1. /\ FenceKept /\ WayInv /\ FramesKnown /\ TypeInv /\ FarApart /\ AnchorKnown /\ GatesKnown
      /\ InLine
  BY DEF FenceInv, AnchorInv, TypeInv, WayInv
<1>2. /\ StreamRuns /\ decoding = NoFrame /\ gate' = GateAfter(f)
      /\ decoding' = IF Passes(f) THEN f ELSE NoFrame
      /\ UNCHANGED << plan, gen, anchorGen, request, buffer >>
  BY DEF ReceiveFrame, sender, history
<1>3. /\ InLine' /\ f \in OnTheWay /\ OnTheWay' \subseteq OnTheWay
      /\ \A g \in OnTheWay' : f.gen <= g.gen
  BY <1>1, ReceiveInLine
<1>4. f \in Frames /\ f.gen \in Nat /\ f.gen <= gen /\ f.rtp \in Nat /\ gen \in Nat
  BY <1>1, <1>3, InLineFrames, FrameInTrack, ScenarioNumbers
<1>5. /\ GateAfter(f).arm = gate.arm /\ GateAfter(f).blanket = gate.blanket
      /\ ~Passes(f) => GateAfter(f).above = gate.above
      /\ gate.blanket \/ ~PassesBefore(f) => GateAfter(f) = gate
  BY <1>1, FieldNumbers, GateAfterIs
<1> HIDE DEF f
<1>6. /\ (Awaiting' <=> Awaiting) /\ (Below(gen)' <=> Below(gen)) /\ (Above(gen)' <=> Above(gen))
  BY <1>2 DEF Awaiting, Anchored, Below, Above
<1>7. InDecoder = {} /\ InDecoder' \subseteq {f} /\ (~Passes(f) => InDecoder' = {})
  BY <1>2 DEF InDecoder
<1>8. ASSUME gate.blanket PROVE ~Passes(f) /\ gate' = gate
  BY <1>2, <1>5, <1>8 DEF Passes
<1>9. PoolFresh'
  BY <1>1, <1>2, <1>6 DEF FenceKept, PoolFresh, Fresh
<1>10. DecoderFresh'
  <2> SUFFICES ASSUME ~Awaiting \/ request.pc \in {"oldest", "anchor"}
               PROVE  Fresh(InDecoder)' /\ Fenced'
    BY <1>2, <1>6 DEF DecoderFresh
  <2>1. Fenced
    BY <1>1 DEF FenceKept, DecoderFresh
  <2>2. request.pc # "reset"
    BY <1>1 DEF GatesKnown, FlushKnown, Awaiting
  <2>3. CASE f.gen = gen
    <3>1. \A g \in OnTheWay' : g \in OnTheWay /\ g.gen \in Nat /\ g.gen <= gen
      BY <1>1, <1>3, InLineFrames
    <3>2. \A g \in OnTheWay' : g.gen = gen
      BY <1>3, <1>4, <2>3, <3>1
    <3> QED  BY <1>2, <1>7, <2>3, <3>2 DEF Fenced, Fresh
  <2>4. CASE f.gen < gen
    <3>1. CASE Fresh(OnTheWay)
      BY <1>3, <1>4, <2>4, <3>1 DEF Fresh
    <3>2. CASE Below(gen) /\ gate.before # NoRtp
      <4>1. f.rtp < Start
        BY <1>1, <1>4, <2>4, <3>2, StaleIsFar
      <4>2. gate.before >= Start
        BY <1>1, <2>2, <3>2 DEF GatesKnown, WindowBegins
      <4>3. gate.before \in Int /\ Start \in Nat
        BY <1>1, FieldNumbers
      <4>4. ~(f.rtp >= gate.before)
        BY <1>4, <4>1, <4>2, <4>3
      <4>5. ~PassesBefore(f)
        BY <3>2, <4>4 DEF PassesBefore
      <4>6. gate' = gate /\ ~Passes(f)
        BY <1>2, <1>5, <4>5 DEF Passes
      <4> QED  BY <1>6, <1>7, <3>2, <4>6 DEF Fenced, Fresh
    <3>3. CASE Above(gen) /\ gate.above # NoRtp
      <4>1. f.rtp > Start + plan.time + GateWindow
        BY <1>1, <1>4, <2>4, <3>3, StaleIsFar
      <4>2. gate.above <= Start + plan.time + GateWindow
        BY <1>1, <2>2, <3>3 DEF GatesKnown, WindowEnds
      <4>3. gate.above \in Int /\ Start \in Nat /\ plan.time \in Nat /\ GateWindow \in Nat
        BY <1>1, FieldNumbers
      <4>4. ~(f.rtp <= gate.above)
        BY <1>4, <4>1, <4>2, <4>3
      <4>5. ~Passes(f)
        BY <3>3, <4>4 DEF Passes, PassesAbove
      <4>6. gate'.above = gate.above
        BY <1>2, <1>5, <4>5
      <4> QED  BY <1>6, <1>7, <3>3, <4>5, <4>6 DEF Fenced, Fresh
    <3> QED  BY <2>1, <3>1, <3>2, <3>3 DEF Fenced
  <2> QED  BY <1>4, <2>3, <2>4
<1>11. BlanketDown'
  BY <1>1, <1>2, <1>5, <1>6 DEF FenceKept, BlanketDown
<1>12. WindowArmed'
  <2> SUFFICES ASSUME Awaiting, request.pc = "open"
               PROVE  gate'.blanket /\ decoding' = NoFrame
                      /\ gate'.before # NoRtp /\ gate'.above # NoRtp
    BY <1>2, <1>6 DEF WindowArmed
  <2>1. gate.blanket /\ gate.before # NoRtp /\ gate.above # NoRtp
    BY <1>1 DEF FenceKept, WindowArmed
  <2> QED  BY <1>2, <1>8, <2>1
<1>13. StaleOnly' /\ NoneDecoding'
  <2>1. CASE Awaiting /\ ~Below(gen)
    <3>1. plan.preempted = {}
      BY <1>1, <2>1, FarApartNow
    <3>2. request.pc = "idle"
      BY <1>2, <3>1 DEF StreamRuns
    <3>3. ~Passes(f)
      BY <1>1, <1>8, <2>1, <3>2 DEF FenceKept, BlanketDown
    <3>4. InDecoder' = InDecoder
      BY <1>7, <3>3
    <3> QED
      BY <1>1, <1>2, <1>6, <3>2, <3>4 DEF FenceKept, StaleOnly, NoneDecoding
  <2>2. CASE ~(Awaiting /\ ~Below(gen))
    BY <1>6, <2>2 DEF StaleOnly, NoneDecoding
  <2> QED  BY <2>1, <2>2
<1> QED  BY <1>9, <1>10, <1>11, <1>12, <1>13 DEF FenceKept

LEMMA QueueFence == FenceInv /\ QueueFrame => FenceKept'
<1> SUFFICES ASSUME FenceInv, QueueFrame PROVE FenceKept'
  OBVIOUS
<1>1. FenceKept /\ FramesKnown
  BY DEF FenceInv, AnchorInv, TypeInv, WayInv
<1>2. /\ decoding # NoFrame /\ decoding' = NoFrame /\ buffer' = buffer \cup {decoding}
      /\ UNCHANGED << plan, gen, anchorGen, request, gate, socket >>
  BY DEF QueueFrame, sender, history
<1>3. /\ (Awaiting' <=> Awaiting) /\ (Below(gen)' <=> Below(gen)) /\ (Above(gen)' <=> Above(gen))
      /\ InDecoder = {decoding} /\ InDecoder' = {} /\ OnTheWay' = OnTheWay
  BY <1>2 DEF Awaiting, Anchored, Below, Above, InDecoder, OnTheWay
<1>4. Fenced => Fenced'
  BY <1>2, <1>3 DEF Fenced, Fresh
<1>5. PoolFresh'
  BY <1>1, <1>2, <1>3 DEF FenceKept, PoolFresh, DecoderFresh, Fresh
<1>6. DecoderFresh'
  BY <1>1, <1>2, <1>3, <1>4 DEF FenceKept, DecoderFresh, Fresh
<1>7. BlanketDown' /\ WindowArmed' /\ NoneDecoding'
  BY <1>1, <1>2, <1>3 DEF FenceKept, BlanketDown, WindowArmed, NoneDecoding
<1>8. StaleOnly'
  BY <1>1, <1>2, <1>3 DEF FenceKept, StaleOnly
<1> QED  BY <1>5, <1>6, <1>7, <1>8 DEF FenceKept

LEMMA NextFence == FenceInv /\ [PlaybackNext]_playbackVars => FenceInv'
<1> SUFFICES ASSUME FenceInv, [PlaybackNext]_playbackVars PROVE FenceInv'
  OBVIOUS
<1>1. AnchorInv /\ TypeInv /\ Announced /\ FarApart /\ InLine /\ FenceKept
  BY DEF FenceInv, AnchorInv
<1>2. AnchorInv' /\ InLine'
  BY <1>1, NextAnchor, NextInLine
<1>3. FarApart'
  BY <1>1, PlanStays DEF FarApart, Announced, Generations, Below, Above
<1>4. FenceKept'
  <2>1. CASE Send
    BY <2>1, SendFence
  <2>2. CASE TrackChange
    BY <1>1, <2>2 DEF TrackChange, Announced
  <2>3. CASE SeekFlush \/ SeekReset \/ SeekArm
    BY <2>3, SeekFence
  <2>4. CASE AnchorArm \/ AnchorOpen \/ AnchorOldest \/ AnchorSet
    BY <2>4, ArmFence, OpenFence, OldestFence, SetFence
  <2>5. CASE Stream
    BY <2>5, ReceiveFence, QueueFence DEF Stream
  <2>6. CASE Read
    BY <1>1, <2>6, ReadFields, FenceStays
  <2>7. CASE Tick \/ DeferFlush \/ Pause \/ UNCHANGED playbackVars
    <3>1. UNCHANGED << plan, gen, anchorGen, request, gate, socket, decoding, buffer >>
      BY <2>7 DEF Tick, DeferFlush, Pause, playbackVars, sender, history
    <3> QED  BY <1>1, <3>1, FenceStays
  <2> QED
    BY <2>1, <2>2, <2>3, <2>4, <2>5, <2>6, <2>7 DEF PlaybackNext, Sender, Rtsp
<1> QED  BY <1>1, <1>2, <1>3, <1>4 DEF FenceInv

LEMMA FenceInit == PlaybackInit /\ FarApart => FenceInv
<1> SUFFICES ASSUME PlaybackInit, FarApart PROVE FenceInv
  OBVIOUS
<1>1. AnchorInv /\ FramesKnown
  BY AnchorInit, InitWay DEF FarApart, WayInv
<1>2. gen = 1 /\ OnTheWay = {} /\ InDecoder = {} /\ buffer = {} /\ DOMAIN socket = {}
  BY DEF PlaybackInit, OnTheWay, InDecoder
<1>3. InLine
  BY <1>2 DEF InLine
<1>4. ~Awaiting /\ Fenced
  BY <1>2 DEF Awaiting, Fenced, Fresh
<1>5. FenceKept
  BY <1>2, <1>4
     DEF FenceKept, PoolFresh, DecoderFresh, BlanketDown, WindowArmed, StaleOnly, NoneDecoding,
         Fresh
<1> QED  BY <1>1, <1>3, <1>5 DEF FenceInv

(* No frame from before a seek is in the pool once the anchor after it is  *)
(* in force, for any number of tracks, if each is announced by a FLUSH and *)
(* lies far above all earlier ones, or far below them and no frame gets in *)
(* the middle of a request.                                                *)
THEOREM StaleIsBlocked == PlaybackSpec /\ FarApart => []PlaybackInv
<1>1. FenceInv => StaleBlocked
  <2> SUFFICES ASSUME FenceInv, Settled PROVE \A f \in buffer : f.gen = gen
    BY DEF StaleBlocked
  <2>1. ~Awaiting
    BY DEF Settled, Awaiting, Anchored
  <2> QED  BY <2>1 DEF FenceInv, FenceKept, PoolFresh, Fresh
<1> QED
  BY <1>1, FenceInit, NextFence, PlaybackTypes, PTL DEF PlaybackSpec, PlaybackInv
=============================================================================
