-------------------------- MODULE AudioJitterProofs --------------------------
(***************************************************************************)
(* Proofs about AudioJitter: the audio queue stays in order, without gaps, *)
(* fresh and accounted for, the sound never jumps back, and an idle        *)
(* client's queue stays at its level, for every number of frames, every    *)
(* pattern of deliveries, every length a popAudio asks for and every       *)
(* timing of the two threads.                                              *)
(***************************************************************************)
EXTENDS AudioJitter, MetaQueueProofs

\* What the queue holds has the numbers of the stream, concealment included.
SeqsKnown == SeqsOf(Q) \subseteq Seqs

\* A frame waits for the lock exactly between the age check and the insertion.
PushingWaits == pushing # NoSeq <=> worker = "queue"

\* Without the race, that frame is still newer than what was played.
PushFresh ==
  ~overtaken /\ pushing # NoSeq /\ audioSeqPopped # 0
    => pushing > audioSeqPopped

\* While no client pops, what is above the level is what is yet to be pruned.
IdlePruned ==
  /\ toPrune > 0 <=> worker = "prune"
  /\ idleClient =>
       /\ app = "idle"
       /\ worker = "idle" => Len(Q) <= 2
       /\ worker = "prune" => Len(Q) <= 2 + toPrune

\* None of the properties is inductive alone.  The frame a push holds must be
\* known to be fresh when it is queued; the numbers concealment makes up lie
\* between two that are queued and are therefore fresh; the order of the
\* queue makes what a pop leaves newer than what it plays; and an idle
\* client's bound counts the prunes still to come.
IInv ==
  /\ TypeOK
  /\ SeqsKnown
  /\ GapsConcealed
  /\ FramesAccounted
  /\ QueueFresh
  /\ PushingWaits
  /\ PushFresh
  /\ IdlePruned

----------------------------------------------------------------------------
\* Jitter is far below the target: the recommended level is the target, two
\* frames.
LEMMA RecommendedFillIsTarget ==
  ASSUME NEW j \in JitterMs
  PROVE  RecommendedFill(j) = 20
<1>1. j \in {0, 1}
  BY DEF JitterMs
<1>2. 20 \in {20, j} /\ \A y \in {20, j} : 20 >= y
  BY <1>1
<1>3. \A x \in {20, j} : (\A y \in {20, j} : x >= y) => x = 20
  BY <1>1
<1>4. Max({20, j}) = 20
  BY <1>2, <1>3 DEF Max
<1>5. 20 \in {20, 150} /\ \A y \in {20, 150} : 20 <= y
  OBVIOUS
<1>6. \A x \in {20, 150} : (\A y \in {20, 150} : x <= y) => x = 20
  OBVIOUS
<1>7. Min({20, 150}) = 20
  BY <1>5, <1>6 DEF Min
<1> QED
  BY <1>4, <1>7 DEF RecommendedFill, TargetFillLevel, MaxBucketSize

LEMMA PruneCountLeavesTwo ==
  ASSUME NEW n \in Nat, NEW j \in JitterMs
  PROVE  /\ PruneCount(n, j) \in Nat
         /\ n <= 2 + PruneCount(n, j)
<1>1. RecommendedFill(j) \div MsPerPacket = 2
  BY RecommendedFillIsTarget DEF MsPerPacket
<1> QED
  BY <1>1 DEF PruneCount

\* Frames that are newer than what was played, told by their numbers.
LEMMA FreshSeqs ==
  ASSUME NEW q \in Seq(Frame), NEW s
  PROVE  (\A i \in 1..Len(q) : q[i].seq > s) <=> (\A k \in SeqsOf(q) : k > s)
BY DEF SeqsOf

\* The front of the queue, and what a pop leaves behind.
LEMMA PopProperties ==
  ASSUME NEW q \in Seq(Frame), Sorted(q), q # <<>>
  PROVE  /\ Len(q) \in Nat /\ Len(q) > 0
         /\ q[1].seq \in SeqsOf(q)
         /\ Drop(q, 1) \in Seq(Frame)
         /\ Len(Drop(q, 1)) = Len(q) - 1
         /\ Sorted(Drop(q, 1))
         /\ SeqsOf(Drop(q, 1)) \subseteq SeqsOf(q)
         /\ \A k \in SeqsOf(Drop(q, 1)) : k > q[1].seq
         /\ Contiguous(q) => Contiguous(Drop(q, 1))
<1>1. Len(q) \in Nat /\ Len(q) > 0 /\ \A i \in 1..Len(q) : q[i].seq \in Nat
  BY FrameFacts, EmptySeq
<1>2. 1 \in 0..Len(q) /\ 1 \in 1..Len(q) /\ 1 \in 1..1
  BY <1>1
<1>3. Drop(q, 1) \in Seq(Frame) /\ Len(Drop(q, 1)) = Len(q) - 1
  BY <1>2, DropProperties
<1>4. /\ Sorted(Drop(q, 1))
      /\ SeqsOf(Drop(q, 1)) \subseteq SeqsOf(q)
      /\ \A k \in SeqsOf(Drop(q, 1)) : \A i \in 1..1 : q[i].seq < k
  BY <1>2, DropSorted
<1>5. SeqsOf(Drop(q, 1)) \subseteq Nat
  BY <1>1, <1>4 DEF SeqsOf
<1>6. \A k \in SeqsOf(Drop(q, 1)) : k > q[1].seq
  BY <1>1, <1>2, <1>4, <1>5
<1>7. q[1].seq \in SeqsOf(q)
  BY <1>2 DEF SeqsOf
<1>8. Contiguous(q) => Contiguous(Drop(q, 1))
  BY <1>2, DropContiguous
<1> QED
  BY <1>1, <1>3, <1>4, <1>6, <1>7, <1>8

\* What one pop does to the queue and the counters.
LEMMA PoppedEffect ==
  ASSUME TypeOK, Sorted(Q), Popped
  PROVE  /\ Q' \in Seq(Frame)
         /\ Sorted(Q')
         /\ SeqsOf(Q') \subseteq SeqsOf(Q)
         /\ Contiguous(Q) => Contiguous(Q')
         /\ Len(Q') = IF Q = <<>> THEN 0 ELSE Len(Q) - 1
         /\ metrics' \in [total : Nat, totalPopped : Nat, discarded : Nat,
                          discardedRepeats : Nat, concealed : Int]
         /\ FramesAccounted /\ generated' = generated => FramesAccounted'
<1>1. Q \in Seq(Frame) /\ generated \in Nat
      /\ metrics \in [total : Nat, totalPopped : Nat, discarded : Nat,
                      discardedRepeats : Nat, concealed : Int]
  BY DEF TypeOK
<1>2. CASE Q = <<>>
  <2>1. Q' = Q /\ metrics' = metrics
    BY <1>2 DEF Popped
  <2>2. Len(Q) = 0
    BY <1>2
  <2> QED
    BY <1>1, <1>2, <2>1, <2>2 DEF FramesAccounted
<1>3. CASE Q # <<>>
  <2>1. /\ Q' = Drop(Q, 1)
        /\ metrics' = [metrics EXCEPT !.totalPopped = @ + 1]
    BY <1>3 DEF Popped
  <2>2. /\ Len(Q) \in Nat /\ Len(Q) > 0
        /\ Drop(Q, 1) \in Seq(Frame)
        /\ Len(Drop(Q, 1)) = Len(Q) - 1
        /\ Sorted(Drop(Q, 1))
        /\ SeqsOf(Drop(Q, 1)) \subseteq SeqsOf(Q)
        /\ Contiguous(Q) => Contiguous(Drop(Q, 1))
    BY <1>1, <1>3, PopProperties
  <2>3. metrics' \in [total : Nat, totalPopped : Nat, discarded : Nat,
                      discardedRepeats : Nat, concealed : Int]
    BY <1>1, <2>1
  <2>4. /\ metrics'.total = metrics.total
        /\ metrics'.concealed = metrics.concealed
        /\ metrics'.totalPopped = metrics.totalPopped + 1
    BY <1>1, <2>1
  <2>5. Len(Q') = Len(Q) - 1
    BY <2>1, <2>2
  <2>6. FramesAccounted /\ generated' = generated => FramesAccounted'
    BY <1>1, <2>2, <2>4, <2>5 DEF FramesAccounted
  <2> QED
    BY <1>3, <2>1, <2>2, <2>3, <2>5, <2>6
<1> QED
  BY <1>2, <1>3
----------------------------------------------------------------------------
LEMMA InitIInv == Init => IInv
<1> SUFFICES ASSUME Init PROVE IInv
  OBVIOUS
<1>1. Q = <<>> /\ Q \in Seq(Frame) /\ Len(Q) = 0 /\ SeqsOf(Q) = {}
  <2>1. Q = <<>>
    BY DEF Init
  <2> QED
    BY <2>1, EmptySeq DEF SeqsOf
<1>2. TypeOK
  <2>1. 0 \in Seqs /\ 0 \in 0..(Length - 1)
    BY AudioJitterAssumption DEF Seqs
  <2>2. copies \in [Seqs -> Nat]
    BY AudioJitterAssumption DEF Init
  <2>3. metrics \in [total : Nat, totalPopped : Nat, discarded : Nat,
                     discardedRepeats : Nat, concealed : Int]
    BY DEF Init
  <2>4. /\ audioSeqPopped = 0 /\ sourceKnown = FALSE
        /\ msPerPacket = 0 /\ idleClient = TRUE
        /\ worker = "idle" /\ pushing = NoSeq /\ toPrune = 0
        /\ app = "idle" /\ initialFill = TRUE /\ drain = "normal"
        /\ adjustments = 0 /\ buffered = 0
        /\ generated = 0 /\ overtaken = FALSE
    BY DEF Init
  <2> QED
    BY <1>1, <2>1, <2>2, <2>3, <2>4 DEF TypeOK
<1>3. GapsConcealed
  BY <1>1 DEF GapsConcealed, Sorted, Contiguous
<1>4. FramesAccounted
  BY <1>1 DEF Init, FramesAccounted
<1>5. SeqsKnown /\ QueueFresh
  BY <1>1 DEF Init, SeqsKnown, QueueFresh
<1>6. PushingWaits /\ PushFresh /\ IdlePruned
  BY <1>1 DEF Init, PushingWaits, PushFresh, IdlePruned, NoSeq
<1> QED
  BY <1>2, <1>3, <1>4, <1>5, <1>6 DEF IInv

\* The age check: what passes it is newer than what was played.
LEMMA PushBeginKeeps ==
  ASSUME IInv, NEW s \in Seqs, PushBegin(s)
  PROVE  IInv'
<1>1. TypeOK /\ s \in Nat /\ audioSeqPopped \in Nat
  <2>1. TypeOK
    BY DEF IInv
  <2>2. audioSeqPopped \in Seqs
    BY <2>1 DEF TypeOK
  <2> QED
    BY <2>1, <2>2, AudioJitterAssumption DEF Seqs
<1>2. /\ worker = "idle" /\ copies[s] > 0
      /\ copies' = [copies EXCEPT ![s] = @ - 1]
      /\ sourceKnown' = (sourceKnown \/ Q = <<>>)
      /\ UNCHANGED <<Q, msPerPacket, idleClient, toPrune, generated>>
      /\ UNCHANGED appVars
  BY DEF PushBegin
<1>3. copies' \in [Seqs -> Nat]
  <2>0. copies \in [Seqs -> Nat]
    BY <1>1 DEF TypeOK
  <2>1. copies \in [Seqs -> Nat] /\ copies[s] - 1 \in Nat
    BY <1>2, <2>0
  <2>2. copies' = [copies EXCEPT ![s] = @ - 1]
    BY <1>2
  <2> QED
    BY <2>1, <2>2
<1>4. pushing = NoSeq
  BY <1>2 DEF IInv, PushingWaits
<1>5. \/ /\ TooOld(s) /\ worker' = "conceal" /\ pushing' = NoSeq
         /\ metrics' = [metrics EXCEPT !.discarded = @ + 1]
      \/ /\ ~TooOld(s) /\ worker' = "queue" /\ pushing' = s
         /\ metrics' = metrics
  BY <1>4, Zenon DEF PushBegin
<1>6. /\ metrics' \in [total : Nat, totalPopped : Nat, discarded : Nat,
                       discardedRepeats : Nat, concealed : Int]
      /\ metrics'.total = metrics.total
      /\ metrics'.totalPopped = metrics.totalPopped
      /\ metrics'.concealed = metrics.concealed
  <2>1. metrics \in [total : Nat, totalPopped : Nat, discarded : Nat,
                     discardedRepeats : Nat, concealed : Int]
    BY <1>1 DEF TypeOK
  <2>2. \/ metrics' = [metrics EXCEPT !.discarded = @ + 1]
        \/ metrics' = metrics
    BY <1>5
  <2> QED
    BY <2>1, <2>2
<1>7. TypeOK'
  <2>1. pushing' \in Seqs \cup {NoSeq} /\ worker' \in {"queue", "conceal"}
    BY <1>5
  <2>2. sourceKnown' \in BOOLEAN
    BY <1>2
  <2> QED
    BY <1>1, <1>2, <1>3, <1>6, <2>1, <2>2 DEF TypeOK, appVars
<1>8. GapsConcealed'
  BY <1>2 DEF IInv, GapsConcealed
<1>9. FramesAccounted'
  BY <1>2, <1>6 DEF IInv, FramesAccounted
<1>10. SeqsKnown' /\ QueueFresh'
  BY <1>2 DEF IInv, SeqsKnown, QueueFresh, appVars
<1>11. PushingWaits'
  BY <1>1, <1>5 DEF PushingWaits, NoSeq
<1>12. PushFresh'
  <2>1. audioSeqPopped' = audioSeqPopped
    BY <1>2 DEF appVars
  <2>2. pushing' # NoSeq /\ audioSeqPopped # 0 => pushing' > audioSeqPopped
    BY <1>1, <1>5 DEF TooOld
  <2> QED
    BY <2>1, <2>2 DEF PushFresh
<1>13. IdlePruned'
  BY <1>2, <1>5 DEF IInv, IdlePruned, appVars
<1> QED
  BY <1>7, <1>8, <1>9, <1>10, <1>11, <1>12, <1>13 DEF IInv

\* The insertion: in order, of a fresh number, and counted.
LEMMA PushInsertKeeps == ASSUME IInv, PushInsert PROVE IInv'
<1>1. /\ TypeOK /\ Q \in Seq(Frame) /\ Sorted(Q)
      /\ pushing \in Seqs /\ pushing \in Nat
  <2>1. worker = "queue"
    BY DEF PushInsert
  <2>2. pushing \in Seqs
    BY <2>1 DEF IInv, PushingWaits, TypeOK
  <2> QED
    BY <2>2 DEF IInv, TypeOK, GapsConcealed, Seqs
<1>2. /\ worker = "queue" /\ worker' = "conceal" /\ pushing' = NoSeq
      /\ Q' = QueueAudioFrame(Q, pushing)
      /\ UNCHANGED <<sourceKnown, msPerPacket, idleClient, toPrune, copies,
                     generated>>
      /\ UNCHANGED appVars
  BY DEF PushInsert
<1>3. /\ Q' \in Seq(Frame) /\ Sorted(Q')
      /\ SeqsOf(Q') = SeqsOf(Q) \cup {pushing}
      /\ Len(Q') = IF HoldsSeq(Q, pushing) THEN Len(Q) ELSE Len(Q) + 1
  BY <1>1, <1>2, QueueAudioFrameProperties
<1>4. /\ metrics' \in [total : Nat, totalPopped : Nat, discarded : Nat,
                       discardedRepeats : Nat, concealed : Int]
      /\ metrics'.totalPopped = metrics.totalPopped
      /\ \/ /\ HoldsSeq(Q, pushing)
            /\ metrics'.total = metrics.total
            /\ metrics'.concealed = metrics.concealed
         \/ /\ HoldsSeq(Q, pushing)
            /\ metrics'.total = metrics.total + 1
            /\ metrics'.concealed = metrics.concealed - 1
         \/ /\ ~HoldsSeq(Q, pushing)
            /\ metrics'.total = metrics.total + 1
            /\ metrics'.concealed = metrics.concealed
  <2>1. HoldsSeq(Q, pushing) <=> IsRepeat(Q, pushing) \/ IsUpgrade(Q, pushing)
    BY <1>1, HeldIsRepeatOrUpgrade
  <2>2. metrics \in [total : Nat, totalPopped : Nat, discarded : Nat,
                     discardedRepeats : Nat, concealed : Int]
    BY <1>1 DEF TypeOK
  <2>3. CASE IsRepeat(Q, pushing)
    <3>1. metrics' = [metrics EXCEPT !.discardedRepeats = @ + 1]
      BY <2>3 DEF PushInsert
    <3> QED
      BY <2>1, <2>2, <2>3, <3>1
  <2>4. CASE ~IsRepeat(Q, pushing) /\ IsUpgrade(Q, pushing)
    <3>1. metrics' = [metrics EXCEPT !.total = @ + 1, !.concealed = @ - 1]
      BY <2>4 DEF PushInsert
    <3>2. metrics' \in [total : Nat, totalPopped : Nat, discarded : Nat,
                        discardedRepeats : Nat, concealed : Int]
      <4>1. metrics.total + 1 \in Nat /\ metrics.concealed - 1 \in Int
        BY <2>2
      <4>2. [metrics EXCEPT !.total = metrics.total + 1]
              \in [total : Nat, totalPopped : Nat, discarded : Nat,
                   discardedRepeats : Nat, concealed : Int]
        BY <2>2, <4>1
      <4> QED
        BY <2>2, <3>1, <4>1, <4>2
    <3>3. /\ metrics'.totalPopped = metrics.totalPopped
          /\ metrics'.total = metrics.total + 1
          /\ metrics'.concealed = metrics.concealed - 1
      BY <2>2, <3>1
    <3> QED
      BY <2>1, <2>4, <3>2, <3>3, Zenon
  <2>5. CASE ~IsRepeat(Q, pushing) /\ ~IsUpgrade(Q, pushing)
    <3>1. metrics' = [metrics EXCEPT !.total = @ + 1]
      BY <2>5 DEF PushInsert
    <3> QED
      BY <2>1, <2>2, <2>5, <3>1
  <2> QED
    BY <2>3, <2>4, <2>5
<1>5. TypeOK'
  BY <1>1, <1>2, <1>3, <1>4 DEF TypeOK, appVars
<1>6. SeqsKnown'
  BY <1>1, <1>3 DEF IInv, SeqsKnown
<1>7. GapsConcealed'
  BY <1>2, <1>3 DEF GapsConcealed
<1>8. FramesAccounted'
  <2> DEFINE t == metrics.total
             c == metrics.concealed
             p == metrics.totalPopped
             t2 == metrics'.total
             c2 == metrics'.concealed
             n == Len(Q)
             n2 == Len(Q')
  <2>1. /\ t \in Int /\ c \in Int /\ p \in Int /\ generated \in Int
        /\ t2 \in Int /\ c2 \in Int /\ n \in Nat
        /\ metrics'.totalPopped = p /\ generated' = generated
    BY <1>1, <1>2, <1>4, FrameFacts DEF TypeOK
  <2>2. t + generated + c = p + n
    BY DEF IInv, FramesAccounted
  <2>3. \/ t2 = t /\ c2 = c /\ n2 = n
        \/ t2 = t + 1 /\ c2 = c - 1 /\ n2 = n
        \/ t2 = t + 1 /\ c2 = c /\ n2 = n + 1
    BY <1>3, <1>4
  <2>4. t2 + generated + c2 = p + n2
    <3> HIDE DEF t, c, p, t2, c2, n, n2
    <3> QED
      BY <2>1, <2>2, <2>3
  <2> QED
    BY <2>1, <2>4 DEF FramesAccounted
<1>9. QueueFresh'
  <2>1. audioSeqPopped' = audioSeqPopped /\ overtaken' = overtaken
    BY <1>2 DEF appVars
  <2> SUFFICES ASSUME ~overtaken, audioSeqPopped # 0
               PROVE  \A k \in SeqsOf(Q') : k > audioSeqPopped
    BY <1>3, <2>1, FreshSeqs DEF QueueFresh
  <2>2. \A k \in SeqsOf(Q) : k > audioSeqPopped
    BY <1>1, FreshSeqs DEF IInv, QueueFresh
  <2>3. pushing > audioSeqPopped
    BY <1>1 DEF IInv, PushFresh, NoSeq
  <2> QED
    BY <1>3, <2>2, <2>3
<1>10. PushingWaits' /\ PushFresh'
  BY <1>2 DEF PushingWaits, PushFresh
<1>11. IdlePruned'
  BY <1>2 DEF IInv, IdlePruned, appVars
<1> QED
  BY <1>5, <1>6, <1>7, <1>8, <1>9, <1>10, <1>11 DEF IInv

\* Concealment: the numbers it makes up lie between two that are queued.
LEMMA ConcealKeeps == ASSUME IInv, Conceal PROVE IInv'
<1>1. TypeOK /\ Q \in Seq(Frame) /\ Sorted(Q) /\ Len(Q) \in Nat
  BY FrameFacts DEF IInv, TypeOK, GapsConcealed
<1>2. /\ worker = "conceal" /\ worker' = "measure"
      /\ Q' = ConcealGaps(Q)
      /\ generated' = generated + Len(Q') - Len(Q)
      /\ UNCHANGED <<sourceKnown, msPerPacket, idleClient, pushing, toPrune,
                     copies, metrics>>
      /\ UNCHANGED appVars
  BY DEF Conceal
<1>3. /\ Q' \in Seq(Frame) /\ Len(Q') >= Len(Q)
      /\ Sorted(Q') /\ Contiguous(Q')
      /\ \A k \in SeqsOf(Q') : \E l, h \in SeqsOf(Q) : l <= k /\ k <= h
  <2>1. CASE Q = <<>>
    <3>1. Q' = Q /\ Len(Q) = 0
      BY <1>2, <2>1 DEF ConcealGaps
    <3> QED
      BY <1>1, <3>1 DEF Sorted, Contiguous, SeqsOf
  <2>2. CASE Q # <<>>
    <3> DEFINE a == Q[1].seq
               b == Q[Len(Q)].seq
    <3>1. /\ Q' \in Seq(Frame) /\ Len(Q') >= Len(Q)
          /\ \A k \in 1..Len(Q') : Q'[k].seq = a + k - 1
          /\ SeqsOf(Q') = a..b
      BY <1>1, <1>2, <2>2, ConcealGapsProperties
    <3>2. 1 \in 1..Len(Q) /\ Len(Q) \in 1..Len(Q)
      BY <1>1, <2>2, SortedSpan
    <3>3. a \in Nat /\ a \in SeqsOf(Q) /\ b \in SeqsOf(Q)
      BY <1>1, <3>2, FrameFacts DEF SeqsOf
    <3> HIDE DEF a, b
    <3>4. Sorted(Q') /\ Contiguous(Q')
      BY <3>1, <3>3, NumberedSorted
    <3>5. \A k \in a..b : a <= k /\ k <= b
      OBVIOUS
    <3>6. \A k \in SeqsOf(Q') : \E l, h \in SeqsOf(Q) : l <= k /\ k <= h
      BY <3>1, <3>3, <3>5
    <3> QED
      BY <3>1, <3>4, <3>6
  <2> QED
    BY <2>1, <2>2
<1>4. SeqsOf(Q') \subseteq Nat /\ Len(Q') \in Nat
  BY <1>3, FrameFacts DEF SeqsOf
<1>5. TypeOK'
  <2>1. generated' \in Nat
    BY <1>1, <1>2, <1>3, <1>4 DEF TypeOK
  <2> QED
    BY <1>1, <1>2, <1>3, <2>1 DEF TypeOK, appVars
<1>6. SeqsKnown'
  <2>1. SeqsOf(Q) \subseteq Seqs
    BY DEF IInv, SeqsKnown
  <2> QED
    BY <1>3, <1>4, <2>1, AudioJitterAssumption DEF SeqsKnown, Seqs
<1>7. GapsConcealed'
  BY <1>3 DEF GapsConcealed
<1>8. FramesAccounted'
  <2> DEFINE t == metrics.total
             c == metrics.concealed
             p == metrics.totalPopped
             n == Len(Q)
             n2 == Len(Q')
  <2>1. /\ t \in Int /\ c \in Int /\ p \in Int /\ generated \in Int
        /\ n \in Nat /\ n2 \in Nat
    BY <1>1, <1>4 DEF TypeOK
  <2>2. t + generated + c = p + n
    BY DEF IInv, FramesAccounted
  <2>3. generated' = generated + n2 - n /\ metrics' = metrics
    BY <1>2
  <2>4. t + generated' + c = p + n2
    <3> HIDE DEF t, c, p, n, n2
    <3> QED
      BY <2>1, <2>2, <2>3
  <2> QED
    BY <2>3, <2>4 DEF FramesAccounted
<1>9. QueueFresh'
  <2>1. audioSeqPopped' = audioSeqPopped /\ overtaken' = overtaken
    BY <1>2 DEF appVars
  <2> SUFFICES ASSUME ~overtaken, audioSeqPopped # 0
               PROVE  \A k \in SeqsOf(Q') : k > audioSeqPopped
    BY <1>3, <2>1, FreshSeqs DEF QueueFresh
  <2>2. \A k \in SeqsOf(Q) : k > audioSeqPopped
    BY <1>1, FreshSeqs DEF IInv, QueueFresh
  <2>3. SeqsOf(Q) \subseteq Nat /\ audioSeqPopped \in Nat
    BY <1>1, FrameFacts DEF SeqsOf, TypeOK, Seqs
  <2> QED
    BY <1>3, <1>4, <2>2, <2>3
<1>10. PushingWaits' /\ PushFresh'
  BY <1>2 DEF IInv, PushingWaits, PushFresh, appVars
<1>11. IdlePruned'
  BY <1>2 DEF IInv, IdlePruned, appVars
<1> QED
  BY <1>5, <1>6, <1>7, <1>8, <1>9, <1>10, <1>11 DEF IInv
\* The idle client's pruning: what it will leave is known when it begins.
LEMMA MeasureKeeps == ASSUME IInv, Measure PROVE IInv'
<1>1. /\ worker = "measure" /\ msPerPacket' = MsPerPacket
      /\ worker' = IF idleClient THEN "size" ELSE "idle"
      /\ UNCHANGED <<Q, sourceKnown, idleClient, pushing, toPrune, copies,
                     metrics, generated>>
      /\ UNCHANGED appVars
  BY DEF Measure
<1>2. TypeOK'
  BY <1>1 DEF IInv, TypeOK, appVars
<1>3. SeqsKnown' /\ GapsConcealed' /\ FramesAccounted' /\ QueueFresh'
  BY <1>1 DEF IInv, SeqsKnown, GapsConcealed, FramesAccounted, QueueFresh,
              appVars
<1>4. PushingWaits' /\ PushFresh'
  BY <1>1 DEF IInv, PushingWaits, PushFresh, appVars
<1>5. IdlePruned'
  BY <1>1 DEF IInv, IdlePruned, appVars
<1> QED
  BY <1>2, <1>3, <1>4, <1>5 DEF IInv

LEMMA CountPrunesKeeps == ASSUME IInv, CountPrunes PROVE IInv'
<1>1. Len(Q) \in Nat
  BY FrameFacts DEF IInv, TypeOK
<1>2. PICK jitterMs \in JitterMs : toPrune' = PruneCount(Len(Q), jitterMs)
  BY DEF CountPrunes
<1>3. toPrune' \in Nat /\ Len(Q) <= 2 + toPrune'
  BY <1>1, <1>2, PruneCountLeavesTwo
<1>4. /\ worker = "size"
      /\ worker' = IF toPrune' > 0 THEN "prune" ELSE "idle"
      /\ UNCHANGED <<Q, sourceKnown, msPerPacket, idleClient, pushing, copies,
                     metrics, generated>>
      /\ UNCHANGED appVars
  BY DEF CountPrunes
<1>5. TypeOK'
  BY <1>3, <1>4 DEF IInv, TypeOK, appVars
<1>6. SeqsKnown' /\ GapsConcealed' /\ FramesAccounted' /\ QueueFresh'
  BY <1>4 DEF IInv, SeqsKnown, GapsConcealed, FramesAccounted, QueueFresh,
              appVars
<1>7. PushingWaits' /\ PushFresh'
  BY <1>4 DEF IInv, PushingWaits, PushFresh, appVars
<1>8. IdlePruned'
  <2>1. (toPrune' > 0 <=> worker' = "prune") /\ app' = app
        /\ idleClient' = idleClient /\ Q' = Q
    BY <1>4 DEF appVars
  <2>2. worker' = "idle" => Len(Q) <= 2
    BY <1>1, <1>3, <1>4
  <2> QED
    BY <1>3, <2>1, <2>2 DEF IInv, IdlePruned
<1> QED
  BY <1>5, <1>6, <1>7, <1>8 DEF IInv

LEMMA PruneKeeps == ASSUME IInv, Prune PROVE IInv'
<1>1. TypeOK /\ Sorted(Q) /\ toPrune \in Nat /\ Len(Q) \in Nat
  BY FrameFacts DEF IInv, TypeOK, GapsConcealed
<1>2. /\ worker = "prune" /\ toPrune' = toPrune - 1 /\ Popped
      /\ worker' = IF toPrune' > 0 THEN "prune" ELSE "idle"
      /\ UNCHANGED <<sourceKnown, msPerPacket, idleClient, pushing, copies,
                     generated>>
      /\ UNCHANGED appVars
  BY DEF Prune
<1>3. /\ Q' \in Seq(Frame) /\ Sorted(Q')
      /\ SeqsOf(Q') \subseteq SeqsOf(Q)
      /\ Contiguous(Q) => Contiguous(Q')
      /\ Len(Q') = IF Q = <<>> THEN 0 ELSE Len(Q) - 1
      /\ metrics' \in [total : Nat, totalPopped : Nat, discarded : Nat,
                       discardedRepeats : Nat, concealed : Int]
      /\ FramesAccounted'
  BY <1>1, <1>2, PoppedEffect DEF IInv
<1>4. toPrune > 0 /\ toPrune' \in Nat
  BY <1>1, <1>2 DEF IInv, IdlePruned
<1>5. TypeOK'
  BY <1>1, <1>2, <1>3, <1>4 DEF TypeOK, appVars
<1>6. SeqsKnown' /\ GapsConcealed'
  BY <1>2, <1>3 DEF IInv, SeqsKnown, GapsConcealed
<1>7. QueueFresh'
  <2>1. audioSeqPopped' = audioSeqPopped /\ overtaken' = overtaken
    BY <1>2 DEF appVars
  <2>2. Q \in Seq(Frame)
    BY <1>1 DEF TypeOK
  <2> QED
    BY <1>3, <2>1, <2>2, FreshSeqs DEF IInv, QueueFresh
<1>8. PushingWaits' /\ PushFresh'
  BY <1>2 DEF IInv, PushingWaits, PushFresh, appVars
<1>9. IdlePruned'
  <2>1. /\ toPrune' > 0 <=> worker' = "prune"
        /\ app' = app /\ idleClient' = idleClient
    BY <1>2 DEF appVars
  <2>2. idleClient => Len(Q) <= 2 + toPrune
    BY <1>2 DEF IInv, IdlePruned
  <2>3. idleClient => Len(Q') <= 2 + toPrune'
    BY <1>1, <1>2, <1>3, <1>4, <2>2
  <2>4. worker' = "idle" => toPrune' = 0
    <3>1. worker' = "idle" => ~(toPrune' > 0)
      BY <2>1
    <3> QED
      BY <3>1, <1>4
  <2>5. idleClient => app = "idle"
    BY DEF IInv, IdlePruned
  <2> QED
    BY <2>1, <2>3, <2>4, <2>5 DEF IdlePruned
<1> QED
  BY <1>3, <1>5, <1>6, <1>7, <1>8, <1>9 DEF IInv

----------------------------------------------------------------------------
\* The look of popAudio at the queue, and the video half's at idle_client.
LEMMA DrainSpeedType ==
  ASSUME NEW jitterMs
  PROVE  DrainSpeed(jitterMs) \in {"normal", "increased", "decreased"}
BY DEF DrainSpeed

LEMMA PopBeginKeeps == ASSUME IInv, PopBegin PROVE IInv'
<1>1. /\ app = "idle" /\ idleClient' = FALSE
      /\ UNCHANGED <<Q, buffered, audioSeqPopped, overtaken, metrics>>
      /\ UNCHANGED workerVars
  BY DEF PopBegin
<1>2. /\ app' \in {"idle", "pop", "stuck"}
      /\ initialFill' \in BOOLEAN
      /\ drain' \in {"normal", "increased", "decreased"}
      /\ adjustments' \in {0, 1}
  <2>1. TypeOK
    BY DEF IInv
  <2>2. CASE ~sourceKnown /\ UNCHANGED <<app, initialFill, drain, adjustments>>
    BY <2>1, <2>2 DEF TypeOK
  <2>3. CASE /\ app' = "stuck"
             /\ UNCHANGED <<initialFill, drain, adjustments>>
    BY <2>1, <2>3 DEF TypeOK
  <2>4. CASE /\ app' = "pop" /\ adjustments' = 1
             /\ \E jitterMs \in JitterMs :
                  /\ initialFill' = Filling(jitterMs)
                  /\ drain' = IF initialFill' THEN drain
                              ELSE DrainSpeed(jitterMs)
    <3>1. PICK jitterMs \in JitterMs :
            /\ initialFill' = Filling(jitterMs)
            /\ drain' = IF initialFill' THEN drain ELSE DrainSpeed(jitterMs)
      BY <2>4
    <3>2. initialFill' \in BOOLEAN
      BY <3>1 DEF Filling
    <3>3. drain' \in {"normal", "increased", "decreased"}
      BY <2>1, <3>1, DrainSpeedType DEF TypeOK
    <3> QED
      BY <2>4, <3>2, <3>3
  <2> QED
    BY <2>2, <2>3, <2>4, Zenon DEF PopBegin
<1>3. TypeOK'
  BY <1>1, <1>2 DEF IInv, TypeOK, workerVars
<1>4. SeqsKnown' /\ GapsConcealed' /\ FramesAccounted' /\ QueueFresh'
  BY <1>1 DEF IInv, SeqsKnown, GapsConcealed, FramesAccounted, QueueFresh,
              workerVars
<1>5. PushingWaits' /\ PushFresh' /\ IdlePruned'
  BY <1>1 DEF IInv, PushingWaits, PushFresh, IdlePruned, workerVars
<1> QED
  BY <1>3, <1>4, <1>5 DEF IInv

LEMMA VideoPoppedKeeps == ASSUME IInv, VideoPopped PROVE IInv'
<1>1. /\ idleClient' = FALSE
      /\ UNCHANGED <<Q, metrics>> /\ UNCHANGED workerVars /\ UNCHANGED appVars
  BY DEF VideoPopped
<1>2. TypeOK'
  <2>1. idleClient' \in BOOLEAN
    BY <1>1
  <2> QED
    BY <1>1, <2>1 DEF IInv, TypeOK, workerVars, appVars
<1>3. SeqsKnown' /\ GapsConcealed' /\ FramesAccounted' /\ QueueFresh'
  BY <1>1 DEF IInv, SeqsKnown, GapsConcealed, FramesAccounted, QueueFresh,
              workerVars, appVars
<1>4. PushingWaits' /\ PushFresh' /\ IdlePruned'
  BY <1>1 DEF IInv, PushingWaits, PushFresh, IdlePruned, workerVars, appVars
<1> QED
  BY <1>2, <1>3, <1>4 DEF IInv

\* A round that produces sound leaves room for the next in the playout buffer.
LEMMA ProduceType ==
  ASSUME buffered \in 0..(Length - 1), Produce
  PROVE  buffered' \in 0..(Length - 1) /\ app' \in {"idle", "pop"}
<1>1. Length \in Nat \ {0}
  BY AudioJitterAssumption
<1>2. CASE buffered + 1 < Length
  BY <1>1, <1>2 DEF Produce
<1>3. CASE ~(buffered + 1 < Length)
  BY <1>1, <1>3 DEF Produce
<1> QED
  BY <1>2, <1>3

\* A round of the loop that leaves the queue alone.
LEMMA QuietRoundKeeps ==
  ASSUME IInv, PlayFilling \/ InsertSilence \/ PopNothing
  PROVE  IInv'
<1>1. /\ app = "pop" /\ Produce
      /\ initialFill' \in BOOLEAN /\ adjustments' \in {0, 1}
      /\ UNCHANGED <<Q, metrics, drain, audioSeqPopped, overtaken, idleClient>>
      /\ UNCHANGED workerVars
  <2>1. CASE PlayFilling
    <3>1. /\ app = "pop" /\ Produce
          /\ UNCHANGED <<Q, metrics, initialFill, drain, adjustments,
                         audioSeqPopped, overtaken, idleClient>>
          /\ UNCHANGED workerVars
      BY <2>1 DEF PlayFilling
    <3> QED
      BY <3>1 DEF IInv, TypeOK
  <2>2. CASE InsertSilence
    <3>1. /\ app = "pop" /\ Produce /\ initialFill' = FALSE
          /\ adjustments > 0 /\ adjustments' = adjustments - 1
          /\ UNCHANGED <<Q, metrics, drain, audioSeqPopped, overtaken,
                         idleClient>>
          /\ UNCHANGED workerVars
      BY <2>2 DEF InsertSilence, Playing
    <3>2. adjustments' \in {0, 1}
      BY <3>1 DEF IInv, TypeOK
    <3> QED
      BY <3>1, <3>2
  <2>3. CASE PopNothing
    BY <2>3 DEF PopNothing, Playing, IInv, TypeOK
  <2> QED
    BY <2>1, <2>2, <2>3
<1>2. buffered' \in 0..(Length - 1) /\ app' \in {"idle", "pop"}
  BY <1>1, ProduceType DEF IInv, TypeOK
<1>3. TypeOK'
  BY <1>1, <1>2 DEF IInv, TypeOK, workerVars
<1>4. SeqsKnown' /\ GapsConcealed' /\ FramesAccounted' /\ QueueFresh'
  BY <1>1 DEF IInv, SeqsKnown, GapsConcealed, FramesAccounted, QueueFresh,
              workerVars
<1>5. PushingWaits' /\ PushFresh' /\ IdlePruned'
  BY <1>1 DEF IInv, PushingWaits, PushFresh, IdlePruned, workerVars
<1> QED
  BY <1>3, <1>4, <1>5 DEF IInv

\* A round that takes a frame, to throw it away or to play it.
LEMMA TakingRoundEffect ==
  ASSUME IInv, PopDiscard \/ PopFrame
  PROVE  /\ app = "pop" /\ ~idleClient /\ idleClient' = idleClient
         /\ UNCHANGED workerVars
         /\ TypeOK'
         /\ Sorted(Q') /\ SeqsOf(Q') \subseteq SeqsOf(Q)
         /\ Contiguous(Q) => Contiguous(Q')
         /\ FramesAccounted'
<1>1. TypeOK /\ Sorted(Q)
  BY DEF IInv, GapsConcealed
<1>2. /\ app = "pop" /\ Popped /\ Q # <<>> /\ initialFill' = FALSE
      /\ UNCHANGED <<drain, idleClient>> /\ UNCHANGED workerVars
      /\ adjustments' \in {0, 1}
      /\ PopDiscard \/ PopFrame
  BY <1>1 DEF PopDiscard, PopFrame, Playing, TypeOK
<1>3. /\ Q' \in Seq(Frame) /\ Sorted(Q')
      /\ SeqsOf(Q') \subseteq SeqsOf(Q)
      /\ Contiguous(Q) => Contiguous(Q')
      /\ metrics' \in [total : Nat, totalPopped : Nat, discarded : Nat,
                       discardedRepeats : Nat, concealed : Int]
      /\ FramesAccounted'
  BY <1>1, <1>2, PoppedEffect DEF IInv, workerVars
<1>4. /\ buffered' \in 0..(Length - 1) /\ app' \in {"idle", "pop"}
      /\ audioSeqPopped' \in Seqs /\ overtaken' \in BOOLEAN
  <2>1. CASE PopDiscard
    BY <1>1, <1>2, <2>1 DEF PopDiscard, TypeOK
  <2>2. CASE PopFrame
    <3>1. Q[1].seq \in Seqs
      BY <1>1, <1>2, PopProperties DEF IInv, SeqsKnown, TypeOK
    <3> QED
      BY <1>1, <2>2, <3>1, ProduceType DEF PopFrame, TypeOK
  <2> QED
    BY <1>2, <2>1, <2>2
<1>5. TypeOK'
  BY <1>1, <1>2, <1>3, <1>4 DEF TypeOK, workerVars
<1>6. ~idleClient
  BY <1>2 DEF IInv, IdlePruned
<1> QED
  BY <1>2, <1>3, <1>5, <1>6

LEMMA PopDiscardKeeps == ASSUME IInv, PopDiscard PROVE IInv'
<1>1. /\ app = "pop" /\ ~idleClient /\ idleClient' = idleClient
      /\ UNCHANGED workerVars
      /\ TypeOK'
      /\ Sorted(Q') /\ SeqsOf(Q') \subseteq SeqsOf(Q)
      /\ Contiguous(Q) => Contiguous(Q')
      /\ FramesAccounted'
  BY TakingRoundEffect
<1>2. UNCHANGED <<audioSeqPopped, overtaken>>
  BY DEF PopDiscard
<1>3. SeqsKnown' /\ GapsConcealed'
  BY <1>1 DEF IInv, SeqsKnown, GapsConcealed, workerVars
<1>4. QueueFresh'
  <2>1. Q \in Seq(Frame) /\ Q' \in Seq(Frame)
    BY <1>1 DEF IInv, TypeOK
  <2> QED
    BY <1>1, <1>2, <2>1, FreshSeqs DEF IInv, QueueFresh
<1>5. PushingWaits' /\ PushFresh' /\ IdlePruned'
  BY <1>1, <1>2 DEF IInv, PushingWaits, PushFresh, IdlePruned, workerVars
<1> QED
  BY <1>1, <1>3, <1>4, <1>5 DEF IInv

\* The oldest frame is played: what stays is newer, and a frame on its way
\* into the queue is newer too or the pop has overtaken it.
LEMMA PopFrameKeeps == ASSUME IInv, PopFrame PROVE IInv'
<1>1. /\ app = "pop" /\ ~idleClient /\ idleClient' = idleClient
      /\ UNCHANGED workerVars
      /\ TypeOK'
      /\ Sorted(Q') /\ SeqsOf(Q') \subseteq SeqsOf(Q)
      /\ Contiguous(Q) => Contiguous(Q')
      /\ FramesAccounted'
  BY TakingRoundEffect
<1>2. /\ audioSeqPopped' = Q[1].seq
      /\ overtaken' = (overtaken \/ (pushing # NoSeq /\ pushing <= Q[1].seq))
      /\ Q # <<>> /\ Popped
  BY DEF PopFrame
<1>3. SeqsKnown' /\ GapsConcealed'
  BY <1>1 DEF IInv, SeqsKnown, GapsConcealed, workerVars
<1>4. QueueFresh'
  <2>1. Q \in Seq(Frame) /\ Sorted(Q) /\ Q' \in Seq(Frame)
    BY <1>1 DEF IInv, TypeOK, GapsConcealed
  <2>2. Q' = Drop(Q, 1)
    BY <1>2 DEF Popped
  <2>3. \A k \in SeqsOf(Q') : k > audioSeqPopped'
    BY <1>2, <2>1, <2>2, PopProperties
  <2> QED
    BY <2>1, <2>3, FreshSeqs DEF QueueFresh
<1>5. PushFresh'
  <2>1. pushing' = pushing /\ pushing \in Seqs \cup {NoSeq}
    BY <1>1 DEF IInv, TypeOK, workerVars
  <2>2. audioSeqPopped' \in Nat
    BY <1>1 DEF TypeOK, Seqs
  <2> QED
    <3> SUFFICES ASSUME ~overtaken', pushing' # NoSeq
                 PROVE  pushing' > audioSeqPopped'
      BY DEF PushFresh
    <3>1. pushing # NoSeq /\ ~(pushing <= Q[1].seq)
      BY <1>2, <2>1
    <3>2. pushing \in Nat
      BY <2>1, <3>1 DEF Seqs
    <3> QED
      BY <1>2, <2>1, <2>2, <3>1, <3>2
<1>6. PushingWaits' /\ IdlePruned'
  BY <1>1 DEF IInv, PushingWaits, IdlePruned, workerVars
<1> QED
  BY <1>1, <1>3, <1>4, <1>5, <1>6 DEF IInv

LEMMA NextIInv == IInv /\ [Next]_vars => IInv'
<1> SUFFICES ASSUME IInv, [Next]_vars PROVE IInv'
  OBVIOUS
<1>1. CASE \E s \in Seqs : PushBegin(s)
  BY <1>1, PushBeginKeeps
<1>2. CASE WorkerStep
  BY <1>2, PushInsertKeeps, ConcealKeeps, MeasureKeeps, CountPrunesKeeps,
     PruneKeeps DEF WorkerStep
<1>3. CASE PopBegin
  BY <1>3, PopBeginKeeps
<1>4. CASE VideoPopped
  BY <1>4, VideoPoppedKeeps
<1>5. CASE PopRound
  BY <1>5, QuietRoundKeeps, PopDiscardKeeps, PopFrameKeeps DEF PopRound
<1>6. CASE UNCHANGED vars
  BY <1>6 DEF vars, IInv, TypeOK, SeqsKnown, GapsConcealed, FramesAccounted,
              QueueFresh, PushingWaits, PushFresh, IdlePruned
<1> QED
  BY <1>1, <1>2, <1>3, <1>4, <1>5, <1>6 DEF Next

LEMMA Invariance == Spec => []IInv
  BY InitIInv, NextIInv, PTL DEF Spec

----------------------------------------------------------------------------
\* Types hold; a popAudio adjusts the depth of the queue at most once
\* (jitter.cc:214-274).
THEOREM TypeCorrect == Spec => []TypeOK
<1>1. IInv => TypeOK
  BY DEF IInv
<1> QED
  BY <1>1, Invariance, PTL

\* The queue stays in order, and without a gap once the concealment after an
\* insertion has run, whatever is popped and pruned around it
\* (jitter.cc:586-629, jitter_queues.cc:124-186).
THEOREM GapsStayConcealed == Spec => []GapsConcealed
<1>1. IInv => GapsConcealed
  BY DEF IInv
<1> QED
  BY <1>1, Invariance, PTL

\* No frame, received or generated, is lost or counted twice between push and
\* pop (jitter_queues.cc:105-206).
THEOREM AllFramesAccounted == Spec => []FramesAccounted
<1>1. IInv => FramesAccounted
  BY DEF IInv
<1> QED
  BY <1>1, Invariance, PTL

\* The age check keeps the queue newer than the sound, but for the race
\* between the check and the lock (jitter_queues.cc:110-118).
THEOREM QueueStaysFresh == Spec => []QueueFresh
<1>1. IInv => QueueFresh
  BY DEF IInv
<1> QED
  BY <1>1, Invariance, PTL

\* While no client pops, the worker leaves the recommended level, two frames,
\* whatever arrived in between (jitter.cc:519-532, 755-770).
THEOREM IdleQueueBounded == Spec => []IdleBounded
<1>1. IInv => IdleBounded
  <2> SUFFICES ASSUME IInv, idleClient, worker = "idle"
               PROVE  Len(Q) * MsPerPacket <= TargetFillLevel
    BY DEF IdleBounded
  <2>1. Len(Q) \in Nat /\ Len(Q) <= 2
    BY FrameFacts DEF IInv, IdlePruned, TypeOK
  <2> QED
    BY <2>1 DEF MsPerPacket, TargetFillLevel
<1> QED
  BY <1>1, Invariance, PTL

\* Without the race the sound never jumps back (jitter.cc:277-283).
THEOREM SoundNeverBack == Spec => NeverBack
<1>1. IInv /\ [Next]_vars =>
        [~overtaken /\ audioSeqPopped' # audioSeqPopped
           => audioSeqPopped' > audioSeqPopped]_vars
  <2> SUFFICES ASSUME IInv, [Next]_vars, ~overtaken,
                      audioSeqPopped' # audioSeqPopped
               PROVE  audioSeqPopped' > audioSeqPopped
    OBVIOUS
  <2>1. PopFrame
    BY DEF Next, vars, appVars, PushBegin, WorkerStep, PushInsert, Conceal,
           Measure, CountPrunes, Prune, PopBegin, VideoPopped, PopRound,
           PlayFilling, InsertSilence, PopNothing, PopDiscard
  <2>2. audioSeqPopped' = Q[1].seq /\ Q # <<>>
    BY <2>1 DEF PopFrame
  <2>3. 1 \in 1..Len(Q) /\ Q[1].seq \in Nat /\ audioSeqPopped \in Nat
    BY <2>2, FrameFacts, EmptySeq DEF IInv, TypeOK, Seqs
  <2> QED
    BY <2>2, <2>3 DEF IInv, QueueFresh
<1> QED
  BY <1>1, Invariance, PTL DEF Spec, NeverBack
=============================================================================
