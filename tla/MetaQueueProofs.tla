--------------------------- MODULE MetaQueueProofs ---------------------------
(***************************************************************************)
(* What the operators of MetaQueue return, for every queue: lemmas the     *)
(* proofs about VideoJitter and AudioJitter cite.                          *)
(***************************************************************************)
EXTENDS MetaQueue, SequenceTheorems, FunctionTheorems, FiniteSetTheorems,
        WellFoundedInduction, TLAPS

\* A nonempty set of naturals has a least element, and Min is it.
LEMMA MinIsLeast ==
  ASSUME NEW S \in SUBSET Nat, S # {}
  PROVE  Min(S) \in S /\ \A x \in S : Min(S) <= x
<1> DEFINE R == OpToRel(<, Nat)
<1>1. IsWellFoundedOn(R, Nat)
  BY NatLessThanWellFounded, Zenon
<1>2. \A x, y \in Nat : x < y => <<x, y>> \in R
  BY DEF OpToRel
<1> HIDE DEF R
<1>3. PICK m \in S : \A y \in S : ~ (<<y, m>> \in R)
  BY <1>1, WFMin
<1>4. \A x \in S : ~ (x < m)
  BY <1>2, <1>3, Zenon
<1>5. m \in S /\ \A x \in S : m <= x
  BY <1>4
<1> QED
  BY <1>5, Zenon DEF Min

\* The frames of a queue and their numbers.
LEMMA FrameFacts ==
  ASSUME NEW q \in Seq(Frame)
  PROVE  /\ Len(q) \in Nat
         /\ \A i \in 1..Len(q) : q[i] \in Frame /\ q[i].seq \in Nat
<1>1. \A i \in 1..Len(q) : q[i] \in Frame
  BY ElementOfSeq
<1> QED
  BY <1>1, LenProperties DEF Frame

LEMMA MediaIsFrame ==
  ASSUME NEW s \in Nat
  PROVE  /\ Media(s) \in Frame /\ Media(s).seq = s
         /\ PlcGen(s) \in Frame /\ PlcGen(s).seq = s
  BY DEF Media, PlcGen, Frame

\* Drop removes a prefix.
LEMMA DropProperties ==
  ASSUME NEW q \in Seq(Frame), NEW n \in 0..Len(q)
  PROVE  /\ Drop(q, n) \in Seq(Frame)
         /\ Len(Drop(q, n)) = Len(q) - n
         /\ \A i \in 1..(Len(q) - n) : Drop(q, n)[i] = q[n + i]
<1>1. Len(q) \in Nat /\ \A i \in n + 1 .. Len(q) : q[i] \in Frame
  BY FrameFacts
<1>2. n + 1 \in Int /\ Len(q) \in Int
  BY <1>1
<1> DEFINE d == SubSeq(q, n + 1, Len(q))
<1>3. /\ d \in Seq(Frame)
      /\ Len(d) = IF n + 1 <= Len(q) THEN Len(q) - (n + 1) + 1 ELSE 0
      /\ \A i \in 1..(Len(q) - (n + 1) + 1) : d[i] = q[n + 1 + i - 1]
  BY <1>1, <1>2, SubSeqProperties
<1>4. \A i \in 1..(Len(q) - n) : n + 1 + i - 1 = n + i
  BY <1>1
<1>5. Len(q) - (n + 1) + 1 = Len(q) - n
  BY <1>1
<1>6. Drop(q, n) = d
  BY DEF Drop
<1> HIDE DEF d
<1>7. Len(d) = Len(q) - n
  BY <1>1, <1>3
<1>8. \A i \in 1..(Len(q) - n) : d[i] = q[n + i]
  BY <1>1, <1>3, <1>4, <1>5
<1> QED
  BY <1>3, <1>6, <1>7, <1>8

\* The scan of the queue stops at the first frame that is not older.
LEMMA FirstNotOlderProperties ==
  ASSUME NEW q \in Seq(Frame), NEW s \in Nat, \E i \in 1..Len(q) : s <= q[i].seq
  PROVE  /\ FirstNotOlder(q, s) \in 1..Len(q)
         /\ s <= q[FirstNotOlder(q, s)].seq
         /\ \A j \in 1..Len(q) : j < FirstNotOlder(q, s) => q[j].seq < s
<1> DEFINE S == {i \in 1..Len(q) : s <= q[i].seq}
<1>1. S # {} /\ S \in SUBSET Nat
  BY FrameFacts
<1>2. FirstNotOlder(q, s) = Min(S)
  BY DEF FirstNotOlder
<1>3. Min(S) \in S /\ \A x \in S : Min(S) <= x
  BY <1>1, MinIsLeast
<1>4. \A j \in 1..Len(q) : j \notin S => q[j].seq < s
  BY FrameFacts
<1>5. Min(S) \in 1..Len(q) /\ s <= q[Min(S)].seq
  BY <1>3
<1>6. \A j \in 1..Len(q) : j < Min(S) => j \notin S
  BY <1>3, <1>5, FrameFacts
<1> QED
  BY <1>2, <1>4, <1>5, <1>6

\* A frame that does not go to the back finds one that is not older.
LEMMA NotToBack ==
  ASSUME NEW q \in Seq(Frame), NEW s \in Nat, ~GoesToBack(q, s)
  PROVE  /\ Len(q) \in 1..Len(q)
         /\ \E i \in 1..Len(q) : s <= q[i].seq
<1>1. q # <<>>
  BY DEF GoesToBack
<1>2. Len(q) \in Nat /\ Len(q) # 0
  BY <1>1, EmptySeq, LenProperties
<1>3. Len(q) \in 1..Len(q)
  BY <1>2
<1>4. s <= q[Len(q)].seq
  BY <1>3, FrameFacts DEF GoesToBack
<1> QED
  BY <1>3, <1>4

\* InsertAt shifts what is behind the insertion point.
LEMMA InsertAtProperties ==
  ASSUME NEW q \in Seq(Frame), NEW i \in 1..(Len(q) + 1), NEW f \in Frame
  PROVE  /\ InsertAt(q, i, f) \in Seq(Frame)
         /\ Len(InsertAt(q, i, f)) = Len(q) + 1
         /\ \A k \in 1..(Len(q) + 1) :
              InsertAt(q, i, f)[k] =
                IF k < i THEN q[k] ELSE IF k = i THEN f ELSE q[k - 1]
<1> DEFINE a == SubSeq(q, 1, i - 1)
           b == <<f>>
           c == SubSeq(q, i, Len(q))
<1>1. Len(q) \in Nat /\ i \in Nat /\ \A k \in 1..Len(q) : q[k] \in Frame
  BY FrameFacts
<1>2. /\ a \in Seq(Frame) /\ Len(a) = i - 1
      /\ \A k \in 1..(i - 1) : a[k] = q[k]
  BY <1>1
<1>3. b \in Seq(Frame) /\ Len(b) = 1 /\ b[1] = f
  OBVIOUS
<1>4. /\ c \in Seq(Frame) /\ Len(c) = Len(q) - i + 1
      /\ \A k \in 1..(Len(q) - i + 1) : c[k] = q[i + k - 1]
  BY <1>1
<1> HIDE DEF a, b, c
<1> DEFINE ab == a \o b
<1> HIDE DEF ab
<1>5. /\ ab \in Seq(Frame) /\ Len(ab) = i
      /\ \A k \in 1..i : ab[k] = IF k < i THEN q[k] ELSE f
  <2>1. /\ ab \in Seq(Frame)
        /\ Len(ab) = Len(a) + Len(b)
        /\ \A k \in 1..(Len(a) + Len(b)) :
             ab[k] = IF k <= Len(a) THEN a[k] ELSE b[k - Len(a)]
    BY <1>2, <1>3, ConcatProperties DEF ab
  <2>2. Len(a) + Len(b) = i
    BY <1>1, <1>2, <1>3
  <2>3. ASSUME NEW k \in 1..i
        PROVE  ab[k] = IF k < i THEN q[k] ELSE f
    <3>1. CASE k < i
      <4>1. k \in 1..(i - 1) /\ k <= Len(a) /\ k \in 1..(Len(a) + Len(b))
        BY <3>1, <2>2, <1>1, <1>2
      <4>2. ab[k] = a[k]
        BY <4>1, <2>1
      <4> QED
        BY <3>1, <4>1, <4>2, <1>2
    <3>2. CASE k = i
      BY <3>2, <2>1, <2>2, <1>1, <1>2, <1>3
    <3>3. k < i \/ k = i
      BY <1>1
    <3> QED
      BY <3>1, <3>2, <3>3
  <2> QED
    BY <2>1, <2>2, <2>3
<1>6. /\ ab \o c \in Seq(Frame)
      /\ Len(ab \o c) = Len(ab) + Len(c)
      /\ \A k \in 1..(Len(ab) + Len(c)) :
           (ab \o c)[k] = IF k <= Len(ab) THEN ab[k] ELSE c[k - Len(ab)]
  BY <1>4, <1>5, ConcatProperties
<1>7. InsertAt(q, i, f) = ab \o c
  BY DEF InsertAt, a, b, c, ab
<1>8. Len(ab) + Len(c) = Len(q) + 1
  BY <1>1, <1>4, <1>5
<1>9. ASSUME NEW k \in 1..(Len(q) + 1)
      PROVE  (ab \o c)[k] = IF k < i THEN q[k] ELSE IF k = i THEN f ELSE q[k - 1]
  <2>1. CASE k <= i
    BY <2>1, <1>1, <1>5, <1>6, <1>8
  <2>2. CASE k > i
    <3>1. (ab \o c)[k] = c[k - i]
      BY <2>2, <1>1, <1>5, <1>6, <1>8
    <3>2. k - i \in 1..(Len(q) - i + 1) /\ i + (k - i) - 1 = k - 1
      BY <2>2, <1>1
    <3> QED
      BY <3>1, <3>2, <2>2, <1>1, <1>4
  <2>3. k <= i \/ k > i
    BY <1>1
  <2> QED
    BY <2>1, <2>2, <2>3, Zenon
<1> QED
  BY <1>6, <1>7, <1>8, <1>9

----------------------------------------------------------------------------
\* Putting a newer frame at the back keeps the order.
LEMMA AppendSorted ==
  ASSUME NEW q \in Seq(Frame), Sorted(q), NEW f \in Frame,
         GoesToBack(q, f.seq)
  PROVE  /\ Append(q, f) \in Seq(Frame)
         /\ Len(Append(q, f)) = Len(q) + 1
         /\ Sorted(Append(q, f))
         /\ SeqsOf(Append(q, f)) = SeqsOf(q) \cup {f.seq}
<1> DEFINE r == Append(q, f)
<1>1. Len(q) \in Nat /\ \A i \in 1..Len(q) : q[i].seq \in Nat
  BY FrameFacts
<1>2. /\ r \in Seq(Frame) /\ Len(r) = Len(q) + 1
      /\ \A i \in 1..Len(q) : r[i] = q[i]
      /\ r[Len(q) + 1] = f
  BY AppendProperties
<1> HIDE DEF r
<1>3. \A i \in 1..Len(q) : q[i].seq < f.seq
  <2> SUFFICES ASSUME NEW i \in 1..Len(q) PROVE q[i].seq < f.seq
    OBVIOUS
  <2>1. q # <<>> /\ Len(q) \in 1..Len(q)
    BY <1>1
  <2>2. q[Len(q)].seq < f.seq
    BY <2>1, <1>1 DEF GoesToBack, Frame
  <2>3. i = Len(q) \/ q[i].seq < q[Len(q)].seq
    BY <2>1, <1>1 DEF Sorted
  <2> QED
    BY <2>1, <2>2, <2>3, <1>1 DEF Frame
<1>4. Sorted(r)
  <2> SUFFICES ASSUME NEW i \in 1..Len(r), NEW j \in 1..Len(r), i < j
               PROVE  r[i].seq < r[j].seq
    BY DEF Sorted
  <2>1. i \in 1..Len(q) /\ (j \in 1..Len(q) \/ j = Len(q) + 1)
    <3>1. Len(q) \in Nat /\ Len(r) = Len(q) + 1
      BY <1>1, <1>2
    <3> QED
      BY <3>1
  <2>2. r[i] = q[i]
    BY <2>1, <1>2
  <2>3. CASE j \in 1..Len(q)
    <3>1. r[j] = q[j]
      BY <2>3, <1>2
    <3> QED
      BY <2>1, <2>2, <2>3, <3>1 DEF Sorted
  <2>4. CASE j = Len(q) + 1
    <3>1. r[j] = f
      BY <2>4, <1>2
    <3> QED
      BY <2>1, <2>2, <3>1, <1>3
  <2> QED
    BY <2>1, <2>3, <2>4
<1>5. SeqsOf(r) = SeqsOf(q) \cup {f.seq}
  <2>1. 1..Len(r) = 1..Len(q) \cup {Len(q) + 1}
    BY <1>1, <1>2
  <2> QED
    BY <2>1, <1>2 DEF SeqsOf
<1> QED
  BY <1>2, <1>4, <1>5 DEF r

\* Inserting an out-of-order frame where the scan stops keeps the order.
LEMMA InsertSorted ==
  ASSUME NEW q \in Seq(Frame), Sorted(q), NEW f \in Frame,
         ~GoesToBack(q, f.seq),
         q[FirstNotOlder(q, f.seq)].seq # f.seq
  PROVE  LET r == InsertAt(q, FirstNotOlder(q, f.seq), f)
         IN  /\ r \in Seq(Frame)
             /\ Len(r) = Len(q) + 1
             /\ Sorted(r)
             /\ SeqsOf(r) = SeqsOf(q) \cup {f.seq}
             /\ f.seq \notin SeqsOf(q)
<1> DEFINE p == FirstNotOlder(q, f.seq)
           r == InsertAt(q, p, f)
<1>1. Len(q) \in Nat /\ \A i \in 1..Len(q) : q[i].seq \in Nat
  BY FrameFacts
<1>2. f.seq \in Nat
  BY DEF Frame
<1>3. /\ p \in 1..Len(q) /\ f.seq <= q[p].seq
      /\ \A j \in 1..Len(q) : j < p => q[j].seq < f.seq
  BY <1>2, NotToBack, FirstNotOlderProperties
<1>4. q[p].seq # f.seq
  OBVIOUS
<1> HIDE DEF p
<1>5. \A j \in 1..Len(q) : j >= p => f.seq < q[j].seq
  <2> SUFFICES ASSUME NEW j \in 1..Len(q), j >= p PROVE f.seq < q[j].seq
    OBVIOUS
  <2>1. f.seq < q[p].seq
    BY <1>1, <1>2, <1>3, <1>4
  <2>2. j = p \/ q[p].seq < q[j].seq
    BY <1>1, <1>3 DEF Sorted
  <2> QED
    BY <2>1, <2>2, <1>1, <1>2, <1>3
<1>6. /\ r \in Seq(Frame) /\ Len(r) = Len(q) + 1
      /\ \A k \in 1..(Len(q) + 1) :
           r[k] = IF k < p THEN q[k] ELSE IF k = p THEN f ELSE q[k - 1]
  BY <1>1, <1>3, InsertAtProperties
<1> HIDE DEF r
<1>7. Sorted(r)
  <2> SUFFICES ASSUME NEW i \in 1..(Len(q) + 1), NEW j \in 1..(Len(q) + 1),
                      i < j
               PROVE  r[i].seq < r[j].seq
    BY <1>6 DEF Sorted
  <2>0. \A a, b \in 1..Len(q) : a < b => q[a].seq < q[b].seq
    BY DEF Sorted
  <2>1. CASE j < p
    <3>1. i \in 1..Len(q) /\ j \in 1..Len(q) /\ i < p
      BY <2>1, <1>1, <1>3
    <3>2. r[i] = q[i] /\ r[j] = q[j]
      BY <2>1, <3>1, <1>6
    <3> QED
      BY <3>1, <3>2, <2>0
  <2>2. CASE j = p
    <3>1. i \in 1..Len(q) /\ i < p
      BY <2>2, <1>1, <1>3
    <3>2. r[i] = q[i] /\ r[j] = f
      BY <2>2, <3>1, <1>6
    <3> QED
      BY <3>1, <3>2, <1>3
  <2>3. CASE j > p /\ i < p
    <3>1. i \in 1..Len(q) /\ j - 1 \in 1..Len(q) /\ i < j - 1
      BY <2>3, <1>1, <1>3
    <3>2. r[i] = q[i] /\ r[j] = q[j - 1]
      BY <2>3, <1>1, <1>3, <1>6
    <3> QED
      BY <3>1, <3>2, <2>0
  <2>4. CASE j > p /\ i = p
    <3>1. j - 1 \in 1..Len(q) /\ j - 1 >= p
      BY <2>4, <1>1, <1>3
    <3>2. r[i] = f /\ r[j] = q[j - 1]
      BY <2>4, <1>1, <1>3, <1>6
    <3> QED
      BY <3>1, <3>2, <1>5
  <2>5. CASE j > p /\ i > p
    <3>1. i - 1 \in 1..Len(q) /\ j - 1 \in 1..Len(q) /\ i - 1 < j - 1
      BY <2>5, <1>1, <1>3
    <3>2. r[i] = q[i - 1] /\ r[j] = q[j - 1]
      BY <2>5, <1>1, <1>3, <1>6
    <3> QED
      BY <3>1, <3>2, <2>0
  <2>6. j < p \/ j = p \/ (j > p /\ i < p) \/ (j > p /\ i = p)
          \/ (j > p /\ i > p)
    BY <1>1, <1>3
  <2> QED
    BY <2>1, <2>2, <2>3, <2>4, <2>5, <2>6, Zenon
<1>8. SeqsOf(r) \subseteq SeqsOf(q) \cup {f.seq}
  <2> SUFFICES ASSUME NEW k \in 1..(Len(q) + 1)
               PROVE  r[k].seq \in SeqsOf(q) \cup {f.seq}
    BY <1>6 DEF SeqsOf
  <2>1. k < p => k \in 1..Len(q)
    BY <1>1, <1>3
  <2>2. k > p => k - 1 \in 1..Len(q)
    BY <1>1, <1>3
  <2>3. k < p \/ k = p \/ k > p
    BY <1>1, <1>3
  <2> QED
    BY <2>1, <2>2, <2>3, <1>6 DEF SeqsOf
<1>9. SeqsOf(q) \cup {f.seq} \subseteq SeqsOf(r)
  <2>1. p \in 1..Len(r) /\ r[p] = f
    BY <1>1, <1>3, <1>6
  <2>2. ASSUME NEW k \in 1..Len(q)
        PROVE  \E l \in 1..Len(r) : r[l] = q[k]
    <3>1. CASE k < p
      BY <3>1, <1>1, <1>6
    <3>2. CASE k >= p
      <4>1. k + 1 \in 1..Len(r) /\ r[k + 1] = q[k]
        BY <3>2, <1>1, <1>3, <1>6
      <4> QED
        BY <4>1
    <3> QED
      BY <3>1, <3>2, <1>1, <1>3
  <2> QED
    BY <2>1, <2>2 DEF SeqsOf
<1>10. f.seq \notin SeqsOf(q)
  <2>1. \A j \in 1..Len(q) : q[j].seq # f.seq
    BY <1>1, <1>2, <1>3, <1>5
  <2> QED
    BY <2>1 DEF SeqsOf
<1> QED
  BY <1>6, <1>7, <1>8, <1>9, <1>10 DEF r, p

\* A queue without its oldest frames is still in order, and what it lost is
\* older than what it kept.
LEMMA DropSorted ==
  ASSUME NEW q \in Seq(Frame), Sorted(q), NEW n \in 0..Len(q)
  PROVE  /\ Sorted(Drop(q, n))
         /\ SeqsOf(Drop(q, n)) \subseteq SeqsOf(q)
         /\ \A k \in SeqsOf(Drop(q, n)) :
              \A r \in SeqsOf(q) \ SeqsOf(Drop(q, n)) : r < k
         /\ \A k \in SeqsOf(Drop(q, n)) : \A i \in 1..n : q[i].seq < k
<1> DEFINE d == Drop(q, n)
<1>1. Len(q) \in Nat /\ \A i \in 1..Len(q) : q[i].seq \in Nat
  BY FrameFacts
<1>2. /\ d \in Seq(Frame) /\ Len(d) = Len(q) - n
      /\ \A i \in 1..(Len(q) - n) : d[i] = q[n + i]
  BY DropProperties
<1> HIDE DEF d
<1>3. Sorted(d)
  <2> SUFFICES ASSUME NEW i \in 1..Len(d), NEW j \in 1..Len(d), i < j
               PROVE  d[i].seq < d[j].seq
    BY DEF Sorted
  <2>1. n + i \in 1..Len(q) /\ n + j \in 1..Len(q) /\ n + i < n + j
    BY <1>1, <1>2
  <2>2. d[i] = q[n + i] /\ d[j] = q[n + j]
    BY <1>1, <1>2
  <2> QED
    BY <2>1, <2>2 DEF Sorted
<1>4. \A i \in 1..Len(d) : n + i \in 1..Len(q) /\ d[i] = q[n + i]
  BY <1>1, <1>2
<1>5. SeqsOf(d) \subseteq SeqsOf(q)
  BY <1>4 DEF SeqsOf
<1>6. ASSUME NEW i \in 1..Len(q), q[i].seq \notin SeqsOf(d)
      PROVE  i <= n
  <2> SUFFICES ASSUME i > n PROVE FALSE
    BY <1>1
  <2>1. i - n \in 1..Len(d) /\ n + (i - n) = i
    BY <1>1, <1>2
  <2>2. d[i - n] = q[i]
    BY <2>1, <1>4
  <2> QED
    BY <2>1, <2>2, <1>6 DEF SeqsOf
<1>7. \A i \in 1..n : \A j \in 1..Len(d) : q[i].seq < d[j].seq
  <2> SUFFICES ASSUME NEW i \in 1..n, NEW j \in 1..Len(d)
               PROVE  q[i].seq < d[j].seq
    OBVIOUS
  <2>1. i \in 1..Len(q) /\ n + j \in 1..Len(q) /\ i < n + j
    BY <1>1, <1>2
  <2> QED
    BY <2>1, <1>4 DEF Sorted
<1>8. \A k \in SeqsOf(d) : \A i \in 1..n : q[i].seq < k
  BY <1>7 DEF SeqsOf
<1>9. ASSUME NEW k \in SeqsOf(d), NEW r \in SeqsOf(q) \ SeqsOf(d)
      PROVE  r < k
  <2>1. PICK i \in 1..Len(q) : r = q[i].seq
    BY DEF SeqsOf
  <2>2. i \in 1..n
    BY <2>1, <1>1, <1>6
  <2> QED
    BY <2>1, <2>2, <1>8
<1> QED
  BY <1>3, <1>5, <1>8, <1>9 DEF d

\* drainToMax drops the oldest frames, and only what is over the bound.
LEMMA DrainProperties ==
  ASSUME NEW q \in Seq(Frame), Sorted(q), NEW maxSize \in Nat
  PROVE  LET r == DrainToMax(q, maxSize)
         IN  /\ r \in Seq(Frame)
             /\ Sorted(r)
             /\ Len(r) = IF Len(q) > maxSize THEN maxSize ELSE Len(q)
             /\ Len(q) <= maxSize => r = q
             /\ SeqsOf(r) \subseteq SeqsOf(q)
             /\ \A k \in SeqsOf(r) : \A x \in SeqsOf(q) \ SeqsOf(r) : x < k
             /\ \A k \in 1..Len(r) : \E i \in 1..Len(q) : r[k] = q[i]
<1> DEFINE r == DrainToMax(q, maxSize)
           n == Len(q) - maxSize
<1>1. Len(q) \in Nat
  BY FrameFacts
<1>2. CASE Len(q) > maxSize
  <2>1. n \in 0..Len(q)
    BY <1>1, <1>2
  <2>2. r = Drop(q, n)
    BY <1>2 DEF DrainToMax
  <2>3. Len(q) - n = maxSize /\ ~ (Len(q) <= maxSize)
    BY <1>1, <1>2
  <2> HIDE DEF n, r
  <2>4. /\ Drop(q, n) \in Seq(Frame)
        /\ Len(Drop(q, n)) = Len(q) - n
        /\ \A i \in 1..(Len(q) - n) : Drop(q, n)[i] = q[n + i]
    BY <2>1, DropProperties
  <2>5. /\ Sorted(Drop(q, n))
        /\ SeqsOf(Drop(q, n)) \subseteq SeqsOf(q)
        /\ \A k \in SeqsOf(Drop(q, n)) :
             \A x \in SeqsOf(q) \ SeqsOf(Drop(q, n)) : x < k
    BY <2>1, DropSorted
  <2>6. ASSUME NEW k \in 1..Len(r)
        PROVE  \E i \in 1..Len(q) : r[k] = q[i]
    <3>1. n + k \in 1..Len(q) /\ k \in 1..(Len(q) - n)
      BY <1>1, <2>1, <2>2, <2>4
    <3> QED
      BY <3>1, <2>2, <2>4
  <2>7. Len(r) = IF Len(q) > maxSize THEN maxSize ELSE Len(q)
    BY <1>2, <2>2, <2>3, <2>4
  <2> QED
    BY <2>2, <2>3, <2>4, <2>5, <2>6, <2>7 DEF r
<1>3. CASE ~ (Len(q) > maxSize)
  <2>1. r = q
    BY <1>3 DEF DrainToMax
  <2> HIDE DEF r
  <2>2. Len(r) = IF Len(q) > maxSize THEN maxSize ELSE Len(q)
    BY <1>3, <2>1
  <2> QED
    BY <2>1, <2>2 DEF r
<1> QED
  BY <1>2, <1>3

\* A frame that is not held is queued in order, and only an overflow costs
\* other frames: the oldest.
LEMMA QueueNewVideoFrame ==
  ASSUME NEW q \in Seq(Frame), Sorted(q), NEW s \in Nat, s \notin SeqsOf(q),
         NEW maxSize \in Nat, Len(q) <= maxSize
  PROVE  LET r == QueueVideoFrame(q, s, maxSize)
         IN  /\ r \in Seq(Frame)
             /\ Sorted(r)
             /\ Len(r) = IF Len(q) + 1 > maxSize THEN maxSize ELSE Len(q) + 1
             /\ SeqsOf(r) \subseteq SeqsOf(q) \cup {s}
             /\ Len(q) < maxSize => SeqsOf(r) = SeqsOf(q) \cup {s}
             /\ \A k \in SeqsOf(r) :
                  \A x \in (SeqsOf(q) \cup {s}) \ SeqsOf(r) : x < k
             /\ \A k \in 1..Len(r) :
                  r[k] = Media(s) \/ \E i \in 1..Len(q) : r[k] = q[i]
<1> DEFINE f == Media(s)
           m == IF GoesToBack(q, s) THEN Append(q, f)
                ELSE InsertAt(q, FirstNotOlder(q, s), f)
           r == DrainToMax(m, maxSize)
<1>1. f \in Frame /\ f.seq = s
  BY MediaIsFrame
<1>2. Len(q) \in Nat
  BY FrameFacts
<1>3. ~GoesToBack(q, s) => /\ FirstNotOlder(q, s) \in 1..Len(q)
                           /\ q[FirstNotOlder(q, s)].seq # s
  <2> SUFFICES ASSUME ~GoesToBack(q, s)
               PROVE  /\ FirstNotOlder(q, s) \in 1..Len(q)
                      /\ q[FirstNotOlder(q, s)].seq # s
    OBVIOUS
  <2>1. FirstNotOlder(q, s) \in 1..Len(q)
    BY NotToBack, FirstNotOlderProperties
  <2> QED
    BY <2>1 DEF SeqsOf
<1>4. QueueVideoFrame(q, s, maxSize) = r
  BY <1>3 DEF QueueVideoFrame
<1> HIDE DEF f
<1>5. /\ m \in Seq(Frame) /\ Len(m) = Len(q) + 1 /\ Sorted(m)
      /\ SeqsOf(m) = SeqsOf(q) \cup {s}
  <2>1. CASE GoesToBack(q, s)
    <3>1. m = Append(q, f)
      BY <2>1
    <3> QED
      BY <2>1, <3>1, <1>1, AppendSorted
  <2>2. CASE ~GoesToBack(q, s)
    <3>1. m = InsertAt(q, FirstNotOlder(q, s), f)
      BY <2>2
    <3> QED
      BY <2>2, <3>1, <1>1, <1>3, InsertSorted
  <2> QED
    BY <2>1, <2>2
<1>6. \A k \in 1..Len(m) : m[k] = f \/ \E i \in 1..Len(q) : m[k] = q[i]
  <2>1. CASE GoesToBack(q, s)
    <3>1. m = Append(q, f)
      BY <2>1
    <3>2. \A k \in 1..(Len(q) + 1) : k \in 1..Len(q) \/ k = Len(q) + 1
      BY <1>2
    <3>3. \A k \in 1..Len(q) : m[k] = q[k]
      BY <3>1, <1>1, AppendProperties
    <3>4. m[Len(q) + 1] = f
      BY <3>1, <1>1, AppendProperties
    <3> QED
      BY <3>2, <3>3, <3>4, <1>5
  <2>2. CASE ~GoesToBack(q, s)
    <3> DEFINE p == FirstNotOlder(q, s)
    <3>1. m = InsertAt(q, p, f)
      BY <2>2
    <3>2. p \in 1..Len(q) /\ p \in 1..(Len(q) + 1)
      BY <2>2, <1>2, <1>3
    <3> HIDE DEF p, m
    <3>3. \A k \in 1..(Len(q) + 1) :
            m[k] = IF k < p THEN q[k] ELSE IF k = p THEN f ELSE q[k - 1]
      <4>1. \A k \in 1..(Len(q) + 1) :
              InsertAt(q, p, f)[k] =
                IF k < p THEN q[k] ELSE IF k = p THEN f ELSE q[k - 1]
        BY <3>2, <1>1, InsertAtProperties
      <4> QED
        BY <4>1, <3>1, Zenon
    <3>4. \A k \in 1..(Len(q) + 1) :
            /\ k < p => k \in 1..Len(q)
            /\ ~ (k < p) /\ k # p => k - 1 \in 1..Len(q)
      BY <3>2, <1>2
    <3> QED
      BY <3>3, <3>4, <1>5
  <2> QED
    BY <2>1, <2>2
<1> HIDE DEF m
<1>7. /\ r \in Seq(Frame) /\ Sorted(r)
      /\ Len(r) = IF Len(m) > maxSize THEN maxSize ELSE Len(m)
      /\ Len(m) <= maxSize => r = m
      /\ SeqsOf(r) \subseteq SeqsOf(m)
      /\ \A k \in SeqsOf(r) : \A x \in SeqsOf(m) \ SeqsOf(r) : x < k
      /\ \A k \in 1..Len(r) : \E i \in 1..Len(m) : r[k] = m[i]
  BY <1>5, DrainProperties
<1> HIDE DEF r
<1>8. Len(q) < maxSize => SeqsOf(r) = SeqsOf(q) \cup {s}
  BY <1>2, <1>5, <1>7
<1>9. \A k \in 1..Len(r) : r[k] = f \/ \E i \in 1..Len(q) : r[k] = q[i]
  BY <1>6, <1>7
<1> QED
  BY <1>4, <1>5, <1>7, <1>8, <1>9 DEF f

\* A frame whose number is held leaves the queue as it is.
LEMMA QueueHeldVideoFrame ==
  ASSUME NEW q \in Seq(Frame), Sorted(q), NEW s \in Nat, s \in SeqsOf(q),
         NEW maxSize \in Nat
  PROVE  QueueVideoFrame(q, s, maxSize) = q
<1>1. Len(q) \in Nat /\ \A i \in 1..Len(q) : q[i].seq \in Nat
  BY FrameFacts
<1>2. PICK j \in 1..Len(q) : q[j].seq = s
  BY DEF SeqsOf
<1>3. ~GoesToBack(q, s)
  <2>1. q # <<>> /\ Len(q) \in 1..Len(q)
    BY <1>1, <1>2
  <2>2. j = Len(q) \/ q[j].seq < q[Len(q)].seq
    BY <2>1, <1>1 DEF Sorted
  <2>3. s <= q[Len(q)].seq
    BY <2>1, <2>2, <1>1, <1>2
  <2> QED
    BY <2>1, <2>3, <1>1 DEF GoesToBack
<1> DEFINE p == FirstNotOlder(q, s)
<1>4. /\ p \in 1..Len(q) /\ s <= q[p].seq
      /\ \A i \in 1..Len(q) : i < p => q[i].seq < s
  BY <1>2, <1>1, FirstNotOlderProperties
<1>5. q[p].seq = s
  <2> HIDE DEF p
  <2>1. ~ (j < p)
    BY <1>1, <1>2, <1>4
  <2>2. j = p \/ p < j
    BY <2>1, <1>4
  <2>3. p < j => q[p].seq < q[j].seq
    BY <1>4 DEF Sorted
  <2> QED
    BY <2>2, <2>3, <1>1, <1>2, <1>4
<1> QED
  BY <1>3, <1>5 DEF QueueVideoFrame

\* A queue in order holds as many numbers as frames.
LEMMA SortedCardinality ==
  ASSUME NEW q \in Seq(Frame), Sorted(q)
  PROVE  IsFiniteSet(SeqsOf(q)) /\ Cardinality(SeqsOf(q)) = Len(q)
<1>1. Len(q) \in Nat /\ \A i \in 1..Len(q) : q[i].seq \in Nat
  BY FrameFacts
<1> DEFINE g == [i \in 1..Len(q) |-> q[i].seq]
<1>2. g \in Bijection(1..Len(q), SeqsOf(q))
  <2>1. g \in [1..Len(q) -> SeqsOf(q)]
    BY DEF SeqsOf
  <2>2. ASSUME NEW i \in 1..Len(q), NEW j \in 1..Len(q), g[i] = g[j]
        PROVE  i = j
    <3>1. i < j \/ j < i \/ i = j
      OBVIOUS
    <3> QED
      BY <3>1, <2>2, <1>1 DEF Sorted
  <2>3. \A t \in SeqsOf(q) : \E i \in 1..Len(q) : g[i] = t
    BY DEF SeqsOf
  <2> HIDE DEF g
  <2> QED
    BY <2>1, <2>2, <2>3, Fun_IsBij
<1>3. ExistsBijection(1..Len(q), SeqsOf(q))
  BY <1>2 DEF ExistsBijection
<1>4. IsFiniteSet(1..Len(q)) /\ Cardinality(1..Len(q)) = Len(q)
  <2>1. /\ IsFiniteSet(1..Len(q))
        /\ Cardinality(1..Len(q)) = IF 1 > Len(q) THEN 0 ELSE Len(q) - 1 + 1
    BY <1>1, FS_Interval
  <2> QED
    BY <2>1, <1>1
<1> QED
  BY <1>3, <1>4, FS_Bijection
----------------------------------------------------------------------------
\* The scan finds a frame that is held at its own number.
LEMMA FirstNotOlderFinds ==
  ASSUME NEW q \in Seq(Frame), Sorted(q), NEW s \in Nat, HoldsSeq(q, s)
  PROVE  FirstNotOlder(q, s) \in 1..Len(q) /\ q[FirstNotOlder(q, s)].seq = s
<1> DEFINE p == FirstNotOlder(q, s)
<1>1. Len(q) \in Nat /\ \A i \in 1..Len(q) : q[i].seq \in Nat
  BY FrameFacts
<1>2. PICK j \in 1..Len(q) : q[j].seq = s
  BY DEF HoldsSeq
<1>3. /\ p \in 1..Len(q) /\ s <= q[p].seq
      /\ \A i \in 1..Len(q) : i < p => q[i].seq < s
  BY <1>2, <1>1, FirstNotOlderProperties
<1> HIDE DEF p
<1>4. j = p \/ p < j
  BY <1>1, <1>2, <1>3
<1>5. p < j => q[p].seq < q[j].seq
  BY <1>3 DEF Sorted
<1>6. q[p].seq = s
  BY <1>1, <1>2, <1>3, <1>4, <1>5
<1> QED
  BY <1>3, <1>6 DEF p

\* Replacing a frame by one of the same number leaves the numbers alone.
LEMMA ReplaceSorted ==
  ASSUME NEW q \in Seq(Frame), Sorted(q), NEW i \in 1..Len(q),
         NEW f \in Frame, f.seq = q[i].seq
  PROVE  LET r == ReplaceAt(q, i, f)
         IN  /\ r \in Seq(Frame)
             /\ Len(r) = Len(q)
             /\ Sorted(r)
             /\ SeqsOf(r) = SeqsOf(q)
<1> DEFINE r == ReplaceAt(q, i, f)
<1>1. /\ r \in Seq(Frame) /\ Len(r) = Len(q)
      /\ \A j \in 1..Len(q) : r[j] = IF j = i THEN f ELSE q[j]
  BY ExceptSeq DEF ReplaceAt
<1> HIDE DEF r
<1>2. \A j \in 1..Len(q) : r[j].seq = q[j].seq
  BY <1>1
<1> QED
  BY <1>1, <1>2 DEF Sorted, SeqsOf, r

\* Media handed to queueAudioFrame is queued in order; only a number that was
\* not held makes the queue longer.
LEMMA QueueAudioFrameProperties ==
  ASSUME NEW q \in Seq(Frame), Sorted(q), NEW s \in Nat
  PROVE  LET r == QueueAudioFrame(q, s)
         IN  /\ r \in Seq(Frame)
             /\ Sorted(r)
             /\ SeqsOf(r) = SeqsOf(q) \cup {s}
             /\ Len(r) = IF HoldsSeq(q, s) THEN Len(q) ELSE Len(q) + 1
<1> DEFINE f == Media(s)
           p == FirstNotOlder(q, s)
           r == QueueAudioFrame(q, s)
<1>1. f \in Frame /\ f.seq = s
  BY MediaIsFrame
<1>2. Len(q) \in Nat /\ \A i \in 1..Len(q) : q[i].seq \in Nat
  BY FrameFacts
<1> HIDE DEF f
<1>3. CASE GoesToBack(q, s)
  <2>1. r = Append(q, f)
    BY <1>3 DEF QueueAudioFrame, f
  <2>2. ~HoldsSeq(q, s)
    <3> SUFFICES ASSUME NEW i \in 1..Len(q), q[i].seq = s PROVE FALSE
      BY DEF HoldsSeq
    <3>1. q # <<>> /\ Len(q) \in 1..Len(q)
      BY <1>2
    <3>2. i = Len(q) \/ q[i].seq < q[Len(q)].seq
      BY <3>1, <1>2 DEF Sorted
    <3>3. s > q[Len(q)].seq
      BY <1>3, <3>1 DEF GoesToBack
    <3> QED
      BY <3>1, <3>2, <3>3, <1>2
  <2> HIDE DEF r
  <2>3. /\ Append(q, f) \in Seq(Frame)
        /\ Len(Append(q, f)) = Len(q) + 1
        /\ Sorted(Append(q, f))
        /\ SeqsOf(Append(q, f)) = SeqsOf(q) \cup {f.seq}
    BY <1>1, <1>3, AppendSorted
  <2> QED
    BY <2>1, <2>2, <2>3, <1>1 DEF r
<1>4. CASE ~GoesToBack(q, s)
  <2>1. p \in 1..Len(q)
    BY <1>4, NotToBack, FirstNotOlderProperties
  <2>2. CASE q[p].seq = s
    <3>1. r = ReplaceAt(q, p, f)
      BY <1>4, <2>2 DEF QueueAudioFrame, f
    <3>2. HoldsSeq(q, s) /\ s \in SeqsOf(q)
      BY <2>1, <2>2 DEF HoldsSeq, SeqsOf
    <3> HIDE DEF r, p
    <3>3. /\ ReplaceAt(q, p, f) \in Seq(Frame)
          /\ Len(ReplaceAt(q, p, f)) = Len(q)
          /\ Sorted(ReplaceAt(q, p, f))
          /\ SeqsOf(ReplaceAt(q, p, f)) = SeqsOf(q)
      BY <1>1, <2>1, <2>2, ReplaceSorted
    <3> QED
      BY <3>1, <3>2, <3>3 DEF r
  <2>3. CASE q[p].seq # s
    <3>1. r = InsertAt(q, p, f)
      BY <1>4, <2>3 DEF QueueAudioFrame, f
    <3>2. ~HoldsSeq(q, s)
      BY <2>3, FirstNotOlderFinds
    <3> HIDE DEF r
    <3>3. /\ InsertAt(q, p, f) \in Seq(Frame)
          /\ Len(InsertAt(q, p, f)) = Len(q) + 1
          /\ Sorted(InsertAt(q, p, f))
          /\ SeqsOf(InsertAt(q, p, f)) = SeqsOf(q) \cup {f.seq}
      BY <1>1, <1>4, <2>3, InsertSorted
    <3> QED
      BY <3>1, <3>2, <3>3, <1>1 DEF r
  <2> QED
    BY <2>2, <2>3
<1> QED
  BY <1>3, <1>4

\* A number is held by media or by concealment.
LEMMA HeldIsRepeatOrUpgrade ==
  ASSUME NEW q \in Seq(Frame), NEW s \in Nat
  PROVE  HoldsSeq(q, s) <=> IsRepeat(q, s) \/ IsUpgrade(q, s)
<1>1. \A i \in 1..Len(q) : q[i] \in Frame
  BY FrameFacts
<1>2. \A i \in 1..Len(q) :
        q[i].seq = s <=> q[i] = Media(s) \/ q[i] = PlcGen(s)
  BY <1>1 DEF Frame, Media, PlcGen
<1> QED
  BY <1>2 DEF HoldsSeq, IsRepeat, IsUpgrade

\* A queue in order has no more frames than there are numbers between its
\* first and its last one.
LEMMA SortedSpan ==
  ASSUME NEW q \in Seq(Frame), Sorted(q), q # <<>>
  PROVE  /\ Len(q) \in 1..Len(q)
         /\ SeqsOf(q) \subseteq q[1].seq .. q[Len(q)].seq
         /\ Len(q) <= q[Len(q)].seq - q[1].seq + 1
<1>1. Len(q) \in Nat /\ \A i \in 1..Len(q) : q[i].seq \in Nat
  BY FrameFacts
<1>2. Len(q) # 0
  BY EmptySeq
<1> DEFINE a == q[1].seq
           b == q[Len(q)].seq
<1>3. 1 \in 1..Len(q) /\ Len(q) \in 1..Len(q)
  BY <1>1, <1>2
<1>4. \A i \in 1..Len(q) : (i = 1 \/ a < q[i].seq)
                           /\ (i = Len(q) \/ q[i].seq < b)
  BY <1>1, <1>3 DEF Sorted
<1>5. a \in Nat /\ b \in Nat
  BY <1>1, <1>3
<1> HIDE DEF a, b
<1>6. \A i \in 1..Len(q) : q[i].seq \in a..b
  <2>1. q[1].seq = a /\ q[Len(q)].seq = b
    BY DEF a, b
  <2> QED
    BY <2>1, <1>1, <1>4, <1>5
<1>7. SeqsOf(q) \subseteq a..b
  BY <1>6 DEF SeqsOf
<1>8. a <= b
  BY <1>3, <1>5, <1>6
<1>9. IsFiniteSet(a..b) /\ Cardinality(a..b) = b - a + 1
  BY <1>5, <1>8, FS_Interval
<1>10. Cardinality(SeqsOf(q)) <= Cardinality(a..b)
  BY <1>7, <1>9, FS_Subset
<1>11. Cardinality(SeqsOf(q)) = Len(q)
  BY SortedCardinality
<1> QED
  BY <1>3, <1>7, <1>9, <1>10, <1>11 DEF a, b

\* Concealment fills every hole between the first and the last frame, and
\* takes no frame away.
LEMMA ConcealGapsProperties ==
  ASSUME NEW q \in Seq(Frame), Sorted(q), q # <<>>
  PROVE  LET r == ConcealGaps(q)
         IN  /\ r \in Seq(Frame)
             /\ Len(r) = q[Len(q)].seq - q[1].seq + 1
             /\ Len(r) >= Len(q)
             /\ \A k \in 1..Len(r) : r[k].seq = q[1].seq + k - 1
             /\ SeqsOf(r) = q[1].seq .. q[Len(q)].seq
             /\ \A i \in 1..Len(q) : \E k \in 1..Len(r) : r[k] = q[i]
<1> DEFINE a == q[1].seq
           b == q[Len(q)].seq
           n == b - a + 1
           r == ConcealGaps(q)
<1>1. Len(q) \in Nat /\ \A i \in 1..Len(q) : q[i] \in Frame /\ q[i].seq \in Nat
  BY FrameFacts
<1>2. /\ Len(q) \in 1..Len(q)
      /\ SeqsOf(q) \subseteq a..b
      /\ Len(q) <= n
  BY SortedSpan
<1>3. a \in Nat /\ b \in Nat /\ n \in Nat
  <2>1. 1 \in 1..Len(q)
    BY <1>1, <1>2
  <2>2. a \in Nat /\ b \in Nat
    BY <2>1, <1>1, <1>2
  <2> HIDE DEF a, b
  <2> QED
    BY <2>2, <1>1, <1>2
<1>4. r = [k \in 1..n |-> Concealed(q, a + k - 1)]
  BY DEF ConcealGaps
<1> HIDE DEF a, b, r
<1>5. ASSUME NEW s \in Nat
      PROVE  Concealed(q, s) \in Frame /\ Concealed(q, s).seq = s
  <2>1. CASE HoldsSeq(q, s)
    <3>1. FirstNotOlder(q, s) \in 1..Len(q) /\ q[FirstNotOlder(q, s)].seq = s
      BY <2>1, FirstNotOlderFinds
    <3> QED
      BY <3>1, <2>1, <1>1 DEF Concealed
  <2>2. CASE ~HoldsSeq(q, s)
    BY <2>2, MediaIsFrame DEF Concealed
  <2> QED
    BY <2>1, <2>2
<1>6. \A k \in 1..n : /\ a + k - 1 \in Nat
                      /\ r[k] = Concealed(q, a + k - 1)
  BY <1>3, <1>4
<1>7. \A k \in 1..n : r[k] \in Frame /\ r[k].seq = a + k - 1
  BY <1>5, <1>6
<1>8. r \in Seq(Frame) /\ Len(r) = n
  <2>1. \A k \in 1..n : Concealed(q, a + k - 1) \in Frame
    BY <1>6, <1>7
  <2>2. r \in [1..n -> Frame]
    BY <2>1, <1>4, Zenon
  <2>3. r \in Seq(Frame)
    BY <2>2, <1>3, SeqDef
  <2>4. DOMAIN r = 1..n /\ DOMAIN r = 1..Len(r) /\ Len(r) \in Nat
    BY <2>2, <2>3, LenProperties
  <2>5. Len(r) = n
    BY <2>4, <1>3
  <2> QED
    BY <2>3, <2>5
<1>9. SeqsOf(r) = a..b
  <2>1. \A t \in a..b : t - a + 1 \in 1..n /\ a + (t - a + 1) - 1 = t
    BY <1>3
  <2>2. \A k \in 1..n : a + k - 1 \in a..b
    BY <1>3
  <2>3. SeqsOf(r) \subseteq a..b
    BY <2>2, <1>7, <1>8 DEF SeqsOf
  <2>4. \A t \in a..b : \E k \in 1..n : r[k].seq = t
    BY <2>1, <1>7
  <2> QED
    BY <2>3, <2>4, <1>8 DEF SeqsOf
<1>10. ASSUME NEW i \in 1..Len(q)
       PROVE  \E k \in 1..n : r[k] = q[i]
  <2> DEFINE s == q[i].seq
  <2>1. HoldsSeq(q, s) /\ s \in Nat
    BY <1>1 DEF HoldsSeq
  <2>2. s \in a..b
    BY <1>2 DEF SeqsOf
  <2> DEFINE p == FirstNotOlder(q, s)
  <2>3. p \in 1..Len(q) /\ q[p].seq = s
    BY <2>1, FirstNotOlderFinds
  <2>4. r[s - a + 1] = q[p]
    <3> HIDE DEF s
    <3>1. s - a + 1 \in 1..n /\ a + (s - a + 1) - 1 = s
      BY <2>2, <1>3
    <3> QED
      BY <3>1, <1>6, <2>1 DEF Concealed
  <2>5. p = i
    <3> HIDE DEF p
    <3>1. ~ (p < i) /\ ~ (i < p)
      BY <2>3, <1>1 DEF Sorted
    <3> QED
      BY <3>1, <2>3
  <2>6. s - a + 1 \in 1..n
    <3> HIDE DEF s
    <3> QED
      BY <2>2, <1>3
  <2> QED
    BY <2>4, <2>5, <2>6
<1> QED
  BY <1>2, <1>7, <1>8, <1>9, <1>10 DEF a, b, r

\* Frames that are numbered one by one are in order and without gaps.
LEMMA NumberedSorted ==
  ASSUME NEW q \in Seq(Frame), NEW a \in Nat,
         \A k \in 1..Len(q) : q[k].seq = a + k - 1
  PROVE  Sorted(q) /\ Contiguous(q)
<1>1. Len(q) \in Nat
  BY FrameFacts
<1>2. Sorted(q)
  BY <1>1 DEF Sorted
<1>3. \A i \in 1..(Len(q) - 1) : i \in 1..Len(q) /\ i + 1 \in 1..Len(q)
  BY <1>1
<1>4. ASSUME NEW i \in 1..(Len(q) - 1)
      PROVE  q[i + 1].seq = q[i].seq + 1
  <2>1. q[i].seq = a + i - 1 /\ q[i + 1].seq = a + (i + 1) - 1
    BY <1>3
  <2> QED
    BY <2>1
<1> QED
  BY <1>2, <1>4 DEF Contiguous

\* A run without gaps stays one when its front is taken off.
LEMMA DropContiguous ==
  ASSUME NEW q \in Seq(Frame), Contiguous(q), NEW n \in 0..Len(q)
  PROVE  Contiguous(Drop(q, n))
<1>1. Len(q) \in Nat
  BY FrameFacts
<1>2. /\ Len(Drop(q, n)) = Len(q) - n
      /\ \A i \in 1..(Len(q) - n) : Drop(q, n)[i] = q[n + i]
  BY DropProperties
<1> SUFFICES ASSUME NEW i \in 1..(Len(q) - n - 1)
             PROVE  Drop(q, n)[i + 1].seq = Drop(q, n)[i].seq + 1
  BY <1>2 DEF Contiguous
<1>3. /\ i \in 1..(Len(q) - n) /\ i + 1 \in 1..(Len(q) - n)
      /\ n + i \in 1..(Len(q) - 1) /\ n + (i + 1) = (n + i) + 1
  BY <1>1
<1> QED
  BY <1>2, <1>3 DEF Contiguous
=============================================================================
