-------------------------- MODULE VideoJitterProofs --------------------------
(***************************************************************************)
(* Proofs about VideoJitter: the safety of the video queue and of what it  *)
(* shows, that popVideo's loops compute what the loop-free definitions of  *)
(* Sync say, and that the queue implements ReorderBuffer, for every number *)
(* of frames, every queue bound, every pattern of arrivals and every       *)
(* timing of the three threads, the audio thread's within a walk too.      *)
(***************************************************************************)
EXTENDS VideoJitter, MetaQueueProofs

\* What the queue holds is media, with the numbers of the stream.
MediaOnly == \A i \in 1..Len(Q) : Q[i].type = "media" /\ Q[i].seq \in Seqs

\* Without the race, the frame between the age check and the lock is still
\* newer than what was shown.
PushFresh == ~overtaken /\ pushing # NoSeq => pushing > videoSeqPopped

\* The places of the walk over the queue.
Walking == renderer \in {"walk", "timed", "newer"}

\* What the variables of a call are at each place of the renderer.
CallPlaces ==
  /\ renderer # "pop" => pops = 0 /\ shown = <<>> /\ ~leftEarly
  /\ renderer = "idle" => action = "hold" /\ numPop = 0 /\ ~clockMoved
  /\ Walking => numPop <= Len(Q) /\ (action = "hold" => numPop = 0)
  /\ Walking /\ action = "pop_video_only" => numPop > 0
  /\ renderer \in {"timed", "newer"} => numPop < Len(Q) /\ NextInOrder

\* QueueFresh is not inductive: the pushed frame must be known to be fresh
\* while it waits for the lock, the order of the queue makes what a pop
\* leaves newer than what it shows, and the metrics tell a repeat from a new
\* frame only because everything queued is media.
IInv ==
  /\ TypeOK
  /\ QueueSorted
  /\ MediaOnly
  /\ FramesAccounted
  /\ QueueFresh
  /\ PushFresh
  /\ CallPlaces

----------------------------------------------------------------------------
\* Types and lengths that every step below needs.
LEMMA Basics ==
  ASSUME IInv
  PROVE  /\ Q \in Seq(Frame) /\ Len(Q) \in Nat /\ Len(Q) <= MaxSize
         /\ MaxSize \in Nat /\ Sorted(Q)
         /\ \A i \in 1..Len(Q) : Q[i] \in Frame /\ Q[i].seq \in Seqs
         /\ Seqs \subseteq Nat /\ videoSeqPopped \in Int
         /\ videoSeqPopped \in Seqs \cup {NoSeq} /\ pushing \in Int
         /\ numPop \in Nat /\ pops \in Nat
         /\ shown \in Seq(Seqs) /\ Len(shown) \in Nat
         /\ metrics \in Metrics
<1>1. Seqs \subseteq Nat
  BY SyncAssumption DEF Seqs
<1>2. shown \in Seq(Seqs) /\ Len(shown) \in Nat
  BY LenProperties DEF IInv, TypeOK
<1> QED
  BY <1>1, <1>2, VideoJitterAssumption, FrameFacts
     DEF IInv, TypeOK, QueueSorted, MediaOnly, NoSeq

\* A frame popped leaves the rest of the queue.
LEMMA TailFacts ==
  ASSUME NEW q \in Seq(Frame), q # <<>>
  PROVE  /\ Len(q) \in Nat \ {0} /\ 1 \in 1..Len(q) /\ 1 \in 0..Len(q)
         /\ Head(q) = q[1]
         /\ Tail(q) = Drop(q, 1)
         /\ Tail(q) \in Seq(Frame) /\ Len(Tail(q)) = Len(q) - 1
         /\ \A i \in 1..Len(Tail(q)) : i + 1 \in 1..Len(q)
                                       /\ Tail(q)[i] = q[i + 1]
<1>1. Len(q) \in Nat /\ Len(q) # 0
  BY EmptySeq, LenProperties
<1>2. Tail(q) = SubSeq(q, 2, Len(q))
  BY TailIsSubSeq
<1>3. /\ Tail(q) \in Seq(Frame) /\ Len(Tail(q)) = Len(q) - 1
      /\ \A i \in 1..Len(Tail(q)) : Tail(q)[i] = q[i + 1]
  BY HeadTailProperties
<1> QED
  BY <1>1, <1>2, <1>3 DEF Drop

\* What PushInsert does to the queue: nothing to one that holds the frame,
\* else the frame joins it.
LEMMA PushInsertEffect ==
  ASSUME IInv, PushInsert
  PROVE  /\ Q' \in Seq(Frame) /\ Sorted(Q') /\ Len(Q') <= MaxSize
         /\ \A k \in 1..Len(Q') :
              Q'[k] = Media(pushing) \/ \E i \in 1..Len(Q) : Q'[k] = Q[i]
         /\ IsRepeat(Q, pushing) => Q' = Q
         /\ ~IsRepeat(Q, pushing) =>
              /\ pushing \notin SeqsOf(Q)
              /\ Len(Q') = Len(Q) + 1 - Overflow
<1>1. /\ pushing \in Nat /\ Q \in Seq(Frame) /\ Sorted(Q)
      /\ MaxSize \in Nat /\ Len(Q) \in Nat /\ Len(Q) <= MaxSize
  BY VideoJitterAssumption, SyncAssumption, FrameFacts
     DEF IInv, PushInsert, TypeOK, QueueSorted, Seqs
<1>2. Q' = QueueVideoFrame(Q, pushing, MaxSize)
  BY DEF PushInsert
<1>3. IsRepeat(Q, pushing) <=> pushing \in SeqsOf(Q)
  <2>1. \A i \in 1..Len(Q) : Q[i] = Media(pushing) <=> Q[i].seq = pushing
    <3> SUFFICES ASSUME NEW i \in 1..Len(Q)
                 PROVE  Q[i] = Media(pushing) <=> Q[i].seq = pushing
      OBVIOUS
    <3>1. Q[i] \in Frame /\ Q[i].type = "media"
      BY <1>1, FrameFacts DEF IInv, MediaOnly
    <3> QED
      BY <3>1 DEF Frame, Media
  <2> QED
    BY <2>1 DEF IsRepeat, SeqsOf
<1>4. CASE pushing \in SeqsOf(Q)
  <2>1. Q' = Q
    BY <1>1, <1>2, <1>4, QueueHeldVideoFrame
  <2> QED
    BY <1>1, <1>3, <1>4, <2>1
<1>5. CASE pushing \notin SeqsOf(Q)
  <2> DEFINE r == QueueVideoFrame(Q, pushing, MaxSize)
  <2>1. /\ r \in Seq(Frame) /\ Sorted(r)
        /\ Len(r) = IF Len(Q) + 1 > MaxSize THEN MaxSize ELSE Len(Q) + 1
        /\ \A k \in 1..Len(r) :
             r[k] = Media(pushing) \/ \E i \in 1..Len(Q) : r[k] = Q[i]
    BY <1>1, <1>5, QueueNewVideoFrame
  <2> HIDE DEF r
  <2>2. Q' = r
    BY <1>2 DEF r
  <2>3. Len(r) <= MaxSize /\ Len(r) = Len(Q) + 1 - Overflow
    BY <1>1, <2>1 DEF Overflow
  <2> QED
    BY <1>3, <1>5, <2>1, <2>2, <2>3
<1> QED
  BY <1>4, <1>5

----------------------------------------------------------------------------
\* Counting keeps the metrics' type and leaves the other counters alone.
LEMMA Counting ==
  ASSUME NEW m \in Metrics, NEW n \in Nat
  PROVE  /\ LET a == [m EXCEPT !.discarded = @ + 1]
            IN  /\ a \in Metrics /\ a.total = m.total
                /\ a.totalPopped = m.totalPopped /\ a.drained = m.drained
         /\ LET b == [m EXCEPT !.discardedRepeats = @ + 1]
            IN  /\ b \in Metrics /\ b.total = m.total
                /\ b.totalPopped = m.totalPopped /\ b.drained = m.drained
         /\ LET c == [m EXCEPT !.total = @ + 1, !.drained = @ + n]
            IN  /\ c \in Metrics /\ c.total = m.total + 1
                /\ c.totalPopped = m.totalPopped /\ c.drained = m.drained + n
         /\ LET d == [m EXCEPT !.totalPopped = @ + n]
            IN  /\ d \in Metrics /\ d.total = m.total
                /\ d.totalPopped = m.totalPopped + n
                /\ d.drained = m.drained
<1>1. LET a == [m EXCEPT !.discarded = @ + 1]
      IN  /\ a \in Metrics /\ a.total = m.total
          /\ a.totalPopped = m.totalPopped /\ a.drained = m.drained
  BY DEF Metrics
<1>2. LET b == [m EXCEPT !.discardedRepeats = @ + 1]
      IN  /\ b \in Metrics /\ b.total = m.total
          /\ b.totalPopped = m.totalPopped /\ b.drained = m.drained
  BY DEF Metrics
<1>3. LET c == [m EXCEPT !.total = @ + 1, !.drained = @ + n]
      IN  /\ c \in Metrics /\ c.total = m.total + 1
          /\ c.totalPopped = m.totalPopped /\ c.drained = m.drained + n
  <2> DEFINE b == [m EXCEPT !.total = @ + 1]
             c == [b EXCEPT !.drained = @ + n]
  <2>1. /\ b \in Metrics /\ b.total = m.total + 1
        /\ b.totalPopped = m.totalPopped /\ b.drained = m.drained
    BY DEF Metrics
  <2>2. [m EXCEPT !.total = @ + 1, !.drained = @ + n] = c
    BY DEF Metrics
  <2> HIDE DEF b
  <2>3. /\ c \in Metrics /\ c.total = b.total
        /\ c.totalPopped = b.totalPopped /\ c.drained = b.drained + n
    BY <2>1 DEF Metrics
  <2> HIDE DEF c
  <2> QED
    BY <2>1, <2>2, <2>3
<1>4. LET d == [m EXCEPT !.totalPopped = @ + n]
      IN  /\ d \in Metrics /\ d.total = m.total
          /\ d.totalPopped = m.totalPopped + n
          /\ d.drained = m.drained
  BY DEF Metrics
<1> QED
  BY <1>1, <1>2, <1>3, <1>4, Zenon

LEMMA InitIInv == Init => IInv
<1> SUFFICES ASSUME Init PROVE IInv
  OBVIOUS
<1>1. Q = <<>> /\ Len(Q) = 0 /\ Q \in Seq(Frame) /\ shown \in Seq(Seqs)
  BY DEF Init
<1>2. metrics \in Metrics
  BY DEF Init, Metrics
<1>3. /\ audioLate \in BOOLEAN /\ overtaken \in BOOLEAN
      /\ storing \in BOOLEAN /\ clockMoved \in BOOLEAN /\ leftEarly \in BOOLEAN
  BY DEF Init
<1>4. TypeOK
  BY <1>1, <1>2, <1>3, VideoJitterAssumption, SyncAssumption DEF Init, TypeOK
<1>5. QueueSorted /\ MediaOnly /\ QueueFresh
  BY <1>1 DEF QueueSorted, Sorted, MediaOnly, QueueFresh
<1>6. FramesAccounted /\ PushFresh /\ CallPlaces
  BY <1>1 DEF Init, FramesAccounted, PushFresh, CallPlaces, Walking
<1> QED
  BY <1>4, <1>5, <1>6 DEF IInv

\* The age check lets only newer frames through.
LEMMA PushBeginKeeps == ASSUME IInv, NEW s \in Seqs, PushBegin(s)
                        PROVE  IInv'
<1> USE DEF clockVars, walkVars, popVars, callVars
<1>1. /\ metrics' \in Metrics /\ metrics'.total = metrics.total
      /\ metrics'.totalPopped = metrics.totalPopped
      /\ metrics'.drained = metrics.drained
  <2>1. metrics \in Metrics
    BY Basics
  <2>2. \/ metrics' = [metrics EXCEPT !.discarded = @ + 1]
        \/ metrics' = metrics
    BY DEF PushBegin
  <2> QED
    BY <2>1, <2>2, Counting
<1>2. TypeOK'
  <2>1. metrics' \in Metrics
    BY <1>1
  <2>2. copies' \in [Seqs -> Nat]
    BY DEF IInv, TypeOK, PushBegin
  <2>3. pushing' \in Seqs \cup {NoSeq}
    BY DEF IInv, TypeOK, PushBegin
  <2> QED
    BY <2>1, <2>2, <2>3 DEF IInv, TypeOK, PushBegin
<1>3. QueueSorted' /\ MediaOnly' /\ QueueFresh' /\ CallPlaces'
  BY DEF IInv, PushBegin, QueueSorted, MediaOnly, QueueFresh, CallPlaces,
         Walking, NextInOrder, NextFrame
<1>4. FramesAccounted'
  BY <1>1 DEF IInv, PushBegin, FramesAccounted
<1>5. PushFresh'
  BY Basics DEF IInv, PushBegin, PushFresh, TypeOK, TooOld, NoSeq
<1> QED
  BY <1>2, <1>3, <1>4, <1>5 DEF IInv

LEMMA PushInsertKeeps == ASSUME IInv, PushInsert PROVE IInv'
<1> USE DEF clockVars, walkVars, popVars, callVars
<1>1. /\ Q' \in Seq(Frame) /\ Sorted(Q') /\ Len(Q') <= MaxSize
      /\ \A k \in 1..Len(Q') :
           Q'[k] = Media(pushing) \/ \E i \in 1..Len(Q) : Q'[k] = Q[i]
      /\ IsRepeat(Q, pushing) => Q' = Q
      /\ ~IsRepeat(Q, pushing) => Len(Q') = Len(Q) + 1 - Overflow
  BY PushInsertEffect
<1>2. pushing \in Seqs /\ pushing \in Nat
  BY VideoJitterAssumption, SyncAssumption DEF IInv, TypeOK, PushInsert, Seqs
<1>3. Overflow \in Nat
  BY VideoJitterAssumption, SyncAssumption, FrameFacts DEF IInv, TypeOK, Overflow
<1>4. metrics' \in Metrics
  <2>1. metrics \in Metrics
    BY DEF IInv, TypeOK
  <2>2. \/ metrics' = [metrics EXCEPT !.discardedRepeats = @ + 1]
        \/ metrics' = [metrics EXCEPT !.total = @ + 1, !.drained = @ + Overflow]
    BY DEF PushInsert
  <2> QED
    BY <2>1, <2>2, <1>3, Counting
<1>5. TypeOK'
  BY <1>1, <1>4 DEF IInv, TypeOK, PushInsert
<1>6. MediaOnly'
  <2> SUFFICES ASSUME NEW k \in 1..Len(Q')
               PROVE  Q'[k].type = "media" /\ Q'[k].seq \in Seqs
    BY DEF MediaOnly
  <2>1. CASE Q'[k] = Media(pushing)
    BY <2>1, <1>2 DEF Media
  <2>2. CASE \E i \in 1..Len(Q) : Q'[k] = Q[i]
    BY <2>2 DEF IInv, MediaOnly
  <2> QED
    BY <2>1, <2>2, <1>1
<1>7. FramesAccounted'
  <2>1. Len(Q) \in Nat
    BY FrameFacts DEF IInv, TypeOK
  <2>2. metrics \in Metrics
    BY DEF IInv, TypeOK
  <2>3. CASE IsRepeat(Q, pushing)
    <3>1. metrics' = [metrics EXCEPT !.discardedRepeats = @ + 1]
      BY <2>3 DEF PushInsert
    <3> QED
      BY <2>1, <2>2, <2>3, <3>1, <1>1, Counting DEF IInv, FramesAccounted
  <2>4. CASE ~IsRepeat(Q, pushing)
    <3>1. metrics' = [metrics EXCEPT !.total = @ + 1, !.drained = @ + Overflow]
      BY <2>4 DEF PushInsert
    <3>2. /\ metrics'.total = metrics.total + 1
          /\ metrics'.totalPopped = metrics.totalPopped
          /\ metrics'.drained = metrics.drained + Overflow
      BY <2>2, <3>1, <1>3, Counting
    <3>3. /\ metrics.total \in Nat /\ metrics.totalPopped \in Nat
          /\ metrics.drained \in Nat
      BY <2>2 DEF Metrics
    <3>4. metrics.total = metrics.totalPopped + metrics.drained + Len(Q)
      BY DEF IInv, FramesAccounted
    <3>5. Len(Q') = Len(Q) + 1 - Overflow
      BY <2>4, <1>1, <1>3
    <3> QED
      BY <3>2, <3>3, <3>4, <3>5, <1>3 DEF FramesAccounted
  <2> QED
    BY <2>3, <2>4
<1>8. QueueFresh'
  <2> SUFFICES ASSUME ~overtaken, NEW k \in 1..Len(Q')
               PROVE  Q'[k].seq > videoSeqPopped
    BY DEF PushInsert, QueueFresh
  <2>1. pushing > videoSeqPopped
    BY DEF IInv, PushFresh, PushInsert
  <2>2. \A i \in 1..Len(Q) : Q[i].seq > videoSeqPopped
    BY DEF IInv, QueueFresh
  <2> QED
    BY <1>1, <1>2, <2>1, <2>2, MediaIsFrame
<1>9. QueueSorted' /\ PushFresh' /\ CallPlaces'
  BY <1>1 DEF IInv, QueueSorted, PushFresh, PushInsert, CallPlaces, Walking
<1> QED
  BY <1>5, <1>6, <1>7, <1>8, <1>9 DEF IInv

\* What a pass of popVideo's loop does: a null pop, or the first frame leaves
\* and is discarded or handed to the decoder.
LEMMA PopFrameEffect ==
  ASSUME IInv, PopFrame
  PROVE  /\ renderer = "pop" /\ MorePops /\ pops' = pops + 1
         /\ UNCHANGED <<audioTime, audioLate, storing, pushing, copies,
                        renderer, action, numPop, clockMoved, leftEarly>>
         /\ \/ /\ Q = <<>>
               /\ UNCHANGED <<Q, metrics, shown, videoSeqPopped, overtaken>>
            \/ /\ Q # <<>> /\ Q' = Tail(Q)
               /\ metrics' = [metrics EXCEPT !.totalPopped = @ + 1]
               /\ \/ /\ action = "pop_discard"
                     /\ UNCHANGED <<shown, videoSeqPopped>>
                  \/ /\ action # "pop_discard"
                     /\ shown' = Append(shown, Q[1].seq)
                     /\ videoSeqPopped' \in {videoSeqPopped, Q[1].seq}
               /\ overtaken' = \/ overtaken
                               \/ pushing # NoSeq /\ pushing <= videoSeqPopped'
<1>1. Q # <<>> => Head(Q) = Q[1]
  BY Basics, TailFacts
<1> QED
  BY <1>1 DEF PopFrame, clockVars, pushVars, walkVars, callVars

\* What a pop leaves is newer than what it shows.
LEMMA PopFrameKeeps == ASSUME IInv, PopFrame PROVE IInv'
<1>1. /\ renderer = "pop" /\ pops' = pops + 1
      /\ UNCHANGED <<audioTime, audioLate, storing, pushing, copies,
                     renderer, action, numPop, clockMoved, leftEarly>>
  BY PopFrameEffect
<1>2. CallPlaces'
  BY <1>1 DEF CallPlaces, Walking
<1>3. pops' \in Nat
  BY <1>1, Basics
<1>4. CASE Q = <<>>
  <2>1. UNCHANGED <<Q, metrics, shown, videoSeqPopped, overtaken>>
    BY <1>4, PopFrameEffect
  <2>2. TypeOK'
    BY <1>1, <1>3, <2>1 DEF IInv, TypeOK
  <2> QED
    BY <1>1, <1>2, <2>1, <2>2 DEF IInv, QueueSorted, MediaOnly, QueueFresh,
       FramesAccounted, PushFresh
<1>5. CASE Q # <<>>
  <2>1. /\ Q' = Tail(Q)
        /\ metrics' = [metrics EXCEPT !.totalPopped = @ + 1]
        /\ shown' \in {shown, Append(shown, Q[1].seq)}
        /\ videoSeqPopped' \in {videoSeqPopped, Q[1].seq}
        /\ overtaken' = \/ overtaken
                        \/ pushing # NoSeq /\ pushing <= videoSeqPopped'
    BY <1>5, PopFrameEffect
  <2>2. /\ Len(Q) \in Nat \ {0} /\ 1 \in 1..Len(Q) /\ 1 \in 0..Len(Q)
        /\ Q' = Drop(Q, 1) /\ Q' \in Seq(Frame) /\ Len(Q') = Len(Q) - 1
        /\ \A i \in 1..Len(Q') : i + 1 \in 1..Len(Q) /\ Q'[i] = Q[i + 1]
    BY <1>5, <2>1, Basics, TailFacts
  <2>3. Q[1].seq \in Seqs /\ Q[1].seq \in Nat
    BY <2>2, Basics
  <2>4. videoSeqPopped' \in Seqs \cup {NoSeq} /\ videoSeqPopped' \in Int
    BY <2>1, <2>3, Basics
  <2>5. /\ metrics' \in Metrics
        /\ metrics'.total = metrics.total
        /\ metrics'.totalPopped = metrics.totalPopped + 1
        /\ metrics'.drained = metrics.drained
    <3> DEFINE d(n) == [metrics EXCEPT !.totalPopped = @ + n]
    <3>1. metrics \in Metrics /\ 1 \in Nat
      BY Basics
    <3>2. \A n \in Nat : /\ d(n) \in Metrics /\ d(n).total = metrics.total
                         /\ d(n).totalPopped = metrics.totalPopped + n
                         /\ d(n).drained = metrics.drained
      BY <3>1, Counting, Zenon
    <3>3. metrics' = d(1)
      BY <2>1
    <3> HIDE DEF d
    <3>4. /\ d(1) \in Metrics /\ d(1).total = metrics.total
          /\ d(1).totalPopped = metrics.totalPopped + 1
          /\ d(1).drained = metrics.drained
      BY <3>1, <3>2, Zenon
    <3> QED
      BY <3>3, <3>4, Zenon
  <2>6. TypeOK'
    <3>1. shown' \in Seq(Seqs)
      <4>1. shown \in Seq(Seqs)
        BY Basics
      <4>2. Append(shown, Q[1].seq) \in Seq(Seqs)
        BY <2>3, <4>1, AppendProperties
      <4> QED
        BY <2>1, <4>1, <4>2
    <3>2. overtaken' \in BOOLEAN
      BY <2>1, Zenon DEF IInv, TypeOK
    <3>3. Len(Q') <= MaxSize
      BY <2>2, Basics
    <3> QED
      BY <1>1, <1>3, <2>2, <2>4, <2>5, <3>1, <3>2, <3>3 DEF IInv, TypeOK
  <2>7. QueueSorted'
    BY <2>2, Basics, DropSorted DEF QueueSorted
  <2>8. MediaOnly'
    BY <2>2 DEF IInv, MediaOnly
  <2>9. FramesAccounted'
    <3>1. /\ metrics.total \in Nat /\ metrics.totalPopped \in Nat
          /\ metrics.drained \in Nat
      BY Basics DEF Metrics
    <3>2. Len(Q) \in Nat /\ Len(Q') = Len(Q) - 1
      BY <2>2
    <3>3. metrics.total = metrics.totalPopped + metrics.drained + Len(Q)
      BY DEF IInv, FramesAccounted
    <3>4. metrics'.total = metrics'.totalPopped + metrics'.drained + Len(Q')
      BY <2>5, <3>1, <3>2, <3>3
    <3> QED
      BY <3>4 DEF FramesAccounted
  <2>10. QueueFresh'
    <3> SUFFICES ASSUME ~overtaken, NEW i \in 1..Len(Q')
                 PROVE  Q'[i].seq > videoSeqPopped'
      BY <2>1 DEF QueueFresh
    <3>1. i + 1 \in 1..Len(Q) /\ Q'[i] = Q[i + 1] /\ 1 < i + 1
      BY <2>2
    <3>2. Q[i + 1].seq > videoSeqPopped
      BY <3>1 DEF IInv, QueueFresh
    <3>3. Q[1].seq < Q[i + 1].seq /\ Q[i + 1].seq \in Nat
      BY <2>2, <3>1, Basics DEF Sorted
    <3> QED
      BY <2>1, <2>3, <3>1, <3>2, <3>3
  <2>11. PushFresh'
    <3>1. pushing' = pushing /\ pushing \in Int
      BY <1>1, Basics
    <3> QED
      BY <2>1, <2>4, <3>1 DEF PushFresh
  <2> QED
    BY <1>2, <2>6, <2>7, <2>8, <2>9, <2>10, <2>11 DEF IInv
<1> QED
  BY <1>4, <1>5

\* The walk and the return leave the queue, what was shown and the counters.
LEMMA RendererKeeps ==
  ASSUME IInv,
         \/ PopVideo \/ OutOfOrder \/ ReadAudioTime \/ CompareTimes
         \/ ReadLocalTime \/ EndOfQueue \/ Return
  PROVE  IInv'
<1> USE DEF clockVars, pushVars, walkVars, popVars, callVars, WalkUnchanged
<1>1. UNCHANGED <<Q, videoSeqPopped, audioTime, audioLate, storing, pushing,
                  copies, metrics, overtaken>>
  BY DEF PopVideo, OutOfOrder, ReadAudioTime, CompareTimes, ReadLocalTime,
         EndOfQueue, Return
<1>2. /\ renderer' \in {"idle", "walk", "timed", "newer", "pop"}
      /\ action' \in {"hold", "pop", "pop_discard", "pop_video_only"}
      /\ numPop' \in Nat /\ pops' \in Nat /\ shown' \in Seq(Seqs)
      /\ clockMoved' \in BOOLEAN /\ leftEarly' \in BOOLEAN
  <2>1. numPop + 1 \in Nat /\ <<>> \in Seq(Seqs)
    BY Basics
  <2>2. CASE PopVideo
    BY <2>2 DEF PopVideo, IInv, TypeOK
  <2>3. CASE OutOfOrder
    BY <2>1, <2>3 DEF OutOfOrder, Leave, LeaveWith, Count, IInv, TypeOK
  <2>4. CASE ReadAudioTime
    BY <2>1, <2>4 DEF ReadAudioTime, Count, IInv, TypeOK
  <2>5. CASE CompareTimes
    BY <2>1, <2>5 DEF CompareTimes, Count, IInv, TypeOK
  <2>6. CASE ReadLocalTime
    BY <2>1, <2>6 DEF ReadLocalTime, Leave, LeaveWith, IInv, TypeOK
  <2>7. CASE EndOfQueue
    BY <2>7 DEF EndOfQueue, Leave, IInv, TypeOK
  <2>8. CASE Return
    BY <2>1, <2>8 DEF Return, IInv, TypeOK
  <2> QED
    BY <2>2, <2>3, <2>4, <2>5, <2>6, <2>7, <2>8
<1>3. TypeOK'
  BY <1>1, <1>2 DEF IInv, TypeOK
<1>4. CallPlaces'
  <2> USE DEF CallPlaces, Walking, NextInOrder, NextFrame
  <2>1. Len(Q) \in Nat /\ numPop \in Nat
    BY Basics
  <2>2. CASE PopVideo
    BY <2>1, <2>2 DEF PopVideo, IInv
  <2>3. CASE OutOfOrder
    BY <2>1, <2>3 DEF OutOfOrder, Leave, LeaveWith, Count, IInv
  <2>4. CASE ReadAudioTime
    BY <2>1, <2>4 DEF ReadAudioTime, Count, IInv
  <2>5. CASE CompareTimes
    BY <2>1, <2>5 DEF CompareTimes, Count, IInv
  <2>6. CASE ReadLocalTime
    BY <2>1, <2>6 DEF ReadLocalTime, Leave, LeaveWith, IInv
  <2>7. CASE EndOfQueue
    BY <2>1, <2>7 DEF EndOfQueue, Leave, IInv
  <2>8. CASE Return
    BY <2>8 DEF Return
  <2> QED
    BY <2>2, <2>3, <2>4, <2>5, <2>6, <2>7, <2>8
<1> QED
  BY <1>1, <1>3, <1>4 DEF IInv, QueueSorted, MediaOnly, FramesAccounted,
     QueueFresh, PushFresh

LEMMA AudioKeeps == ASSUME IInv, Audio PROVE IInv'
<1>1. /\ UNCHANGED <<Q, videoSeqPopped, pushing, copies, metrics, renderer,
                     action, numPop, pops, shown, leftEarly, overtaken>>
      /\ audioTime' \in AudioTimes \cup {0}
      /\ audioLate' \in BOOLEAN /\ storing' \in BOOLEAN
      /\ clockMoved' \in BOOLEAN
      /\ renderer = "idle" => clockMoved' = clockMoved
  BY DEF Audio, StoreAudioTime, StoreLocalTime, AudioStalls, AudioUnchanged,
         MovesClock, pushVars, walkVars, popVars, IInv, TypeOK
<1> QED
  BY <1>1 DEF IInv, TypeOK, QueueSorted, MediaOnly, FramesAccounted,
     QueueFresh, PushFresh, CallPlaces, Walking, NextInOrder, NextFrame

LEMMA StutterKeeps == ASSUME IInv, UNCHANGED vars PROVE IInv'
  BY DEF IInv, TypeOK, QueueSorted, MediaOnly, FramesAccounted, QueueFresh,
         PushFresh, CallPlaces, Walking, NextInOrder, NextFrame, vars,
         clockVars, pushVars, walkVars, popVars, callVars

LEMMA NextIInv == IInv /\ [Next]_vars => IInv'
<1> SUFFICES ASSUME IInv, [Next]_vars PROVE IInv'
  OBVIOUS
<1>1. CASE \E s \in Seqs : PushBegin(s)
  BY <1>1, PushBeginKeeps
<1>2. CASE PushInsert
  BY <1>2, PushInsertKeeps
<1>3. CASE Renderer
  BY <1>3, RendererKeeps, PopFrameKeeps DEF Renderer
<1>4. CASE Audio
  BY <1>4, AudioKeeps
<1>5. CASE UNCHANGED vars
  BY <1>5, StutterKeeps
<1> QED
  BY <1>1, <1>2, <1>3, <1>4, <1>5 DEF Next

LEMMA Invariance == Spec => []IInv
  BY InitIInv, NextIInv, PTL DEF Spec

\* Types hold and the queue never outgrows max_size (jitter_queues.cc:46-57).
THEOREM TypeCorrect == Spec => []TypeOK
<1>1. IInv => TypeOK
  BY DEF IInv
<1> QED
  BY <1>1, Invariance, PTL

\* The queue stays in order, whatever arrives when (jitter_queues.cc:236-257).
THEOREM QueueStaysSorted == Spec => []QueueSorted
<1>1. IInv => QueueSorted
  BY DEF IInv
<1> QED
  BY <1>1, Invariance, PTL

\* No frame is lost or counted twice between push and pop
\* (jitter_queues.cc:190-257).
THEOREM AllFramesAccounted == Spec => []FramesAccounted
<1>1. IInv => FramesAccounted
  BY DEF IInv
<1> QED
  BY <1>1, Invariance, PTL

\* The age check keeps the queue newer than the picture, but for the race
\* between the check and the lock (jitter_queues.cc:215-223).
THEOREM QueueStaysFresh == Spec => []QueueFresh
<1>1. IInv => QueueFresh
  BY DEF IInv
<1> QED
  BY <1>1, Invariance, PTL

----------------------------------------------------------------------------
\* Without the race the picture never jumps back (jitter.cc:442-513).
THEOREM PictureNeverBack == Spec => NeverBack
<1>1. IInv /\ [Next]_vars =>
        [~overtaken /\ videoSeqPopped' # videoSeqPopped
           => videoSeqPopped' > videoSeqPopped]_vars
  <2> SUFFICES ASSUME IInv, [Next]_vars, ~overtaken,
                      videoSeqPopped' # videoSeqPopped
               PROVE  videoSeqPopped' > videoSeqPopped
    OBVIOUS
  <2>1. PopFrame
    BY DEF Next, vars, PushBegin, PushInsert, Renderer, PopVideo, OutOfOrder,
           ReadAudioTime, CompareTimes, ReadLocalTime, EndOfQueue, Return,
           WalkUnchanged, Audio, StoreAudioTime, StoreLocalTime, AudioStalls,
           AudioUnchanged
  <2>2. Q # <<>> /\ videoSeqPopped' = Q[1].seq
    BY <2>1, PopFrameEffect
  <2>3. 1 \in 1..Len(Q)
    BY <2>2, Basics, TailFacts
  <2> QED
    BY <2>2, <2>3 DEF IInv, QueueFresh
<1> QED
  BY <1>1, Invariance, PTL DEF Spec, NeverBack

----------------------------------------------------------------------------
\* What is less than all that stays is one of the oldest parts.
LEMMA OldestIsPart ==
  ASSUME NEW S \in SUBSET Nat, NEW R \in SUBSET S,
         \A k \in S \ R : \A r \in R : r < k
  PROVE  R \in Buffer!OldestParts(S)
<1>1. CASE S \ R = {}
  <2>1. R = S
    BY <1>1
  <2> QED
    BY <2>1 DEF Buffer!OldestParts
<1>2. CASE S \ R # {}
  <2>1. S \ R \in SUBSET Nat
    OBVIOUS
  <2>2. PICK k \in S \ R : \A x \in S \ R : k <= x
    BY <1>2, <2>1, MinIsLeast
  <2>3. \A x \in S : x < k <=> x \in R
    BY <2>2
  <2>4. R = {r \in S : r < k}
    BY <2>3
  <2> QED
    BY <2>2, <2>4 DEF Buffer!OldestParts
<1> QED
  BY <1>1, <1>2

\* A push is a Put of the reorder buffer, or nothing.
LEMMA PushImplementsPut ==
  ASSUME IInv, PushInsert
  PROVE  [Buffer!Next]_(SeqsOf(Q))
<1>1. /\ pushing \in Seqs /\ pushing \in Nat /\ Q \in Seq(Frame) /\ Sorted(Q)
      /\ MaxSize \in Nat /\ Len(Q) \in Nat /\ Len(Q) <= MaxSize
  BY VideoJitterAssumption, SyncAssumption, FrameFacts
     DEF IInv, PushInsert, TypeOK, QueueSorted, Seqs
<1>2. Q' = QueueVideoFrame(Q, pushing, MaxSize)
  BY DEF PushInsert
<1>3. CASE pushing \in SeqsOf(Q)
  <2>1. Q' = Q
    BY <1>1, <1>2, <1>3, QueueHeldVideoFrame
  <2> QED
    BY <2>1 DEF SeqsOf
<1>4. CASE pushing \notin SeqsOf(Q)
  <2> DEFINE held == SeqsOf(Q)
             left == SeqsOf(Q')
             R == (held \cup {pushing}) \ left
  <2>1. /\ left \subseteq held \cup {pushing}
        /\ Len(Q) < MaxSize => left = held \cup {pushing}
        /\ \A k \in left : \A x \in R : x < k
    BY <1>1, <1>2, <1>4, QueueNewVideoFrame
  <2>2. Cardinality(held) = Len(Q)
    BY <1>1, SortedCardinality
  <2>3. SeqsOf(Q)' = left
    BY DEF SeqsOf
  <2> HIDE DEF left, held
  <2>4. R \in SUBSET (held \cup {pushing}) /\ left = (held \cup {pushing}) \ R
    BY <2>1, Zenon
  <2>5. R \in Buffer!OldestParts(held \cup {pushing})
    <3>1. held \cup {pushing} \in SUBSET Nat
      BY <1>1, FrameFacts DEF held, SeqsOf
    <3> QED
      BY <2>1, <2>4, <3>1, OldestIsPart
  <2>6. R # {} => Cardinality(held) >= MaxSize
    BY <2>1, <2>2, <1>1
  <2>7. pushing \in Seqs \ held
    BY <1>1, <1>4 DEF held
  <2> HIDE DEF R
  <2>8. Buffer!Put
    <3>1. /\ pushing \in Seqs \ SeqsOf(Q)
          /\ R \in Buffer!OldestParts(SeqsOf(Q) \cup {pushing})
          /\ R # {} => Cardinality(SeqsOf(Q)) >= MaxSize
          /\ SeqsOf(Q)' = (SeqsOf(Q) \cup {pushing}) \ R
      BY <2>3, <2>4, <2>5, <2>6, <2>7, Zenon DEF held
    <3>2. Buffer!Cardinality(SeqsOf(Q)) = Cardinality(SeqsOf(Q))
      BY Zenon DEF Buffer!Cardinality, Cardinality
    <3> QED
      BY <3>1, <3>2, Zenon DEF Buffer!Put
  <2> QED
    BY <2>8 DEF Buffer!Next
<1> QED
  BY <1>3, <1>4

\* A pop is a Take.
LEMMA PopImplementsTake ==
  ASSUME IInv, PopFrame
  PROVE  [Buffer!Next]_(SeqsOf(Q))
<1>1. CASE Q' = Q
  BY <1>1 DEF SeqsOf
<1>2. CASE Q # <<>> /\ Q' = Tail(Q)
  <2> DEFINE held == SeqsOf(Q)
             left == SeqsOf(Q')
             R == held \ left
  <2>1. Q \in Seq(Frame) /\ Sorted(Q) /\ Q' = Drop(Q, 1) /\ 1 \in 0..Len(Q)
    BY <1>2, Basics, TailFacts
  <2>2. /\ left \subseteq held
        /\ \A k \in left : \A x \in R : x < k
    BY <2>1, DropSorted
  <2>3. held \in SUBSET Nat
    BY <2>1, FrameFacts DEF SeqsOf
  <2>4. SeqsOf(Q)' = left
    BY DEF SeqsOf
  <2> HIDE DEF left, held
  <2>5. R \in SUBSET held /\ left = held \ R
    BY <2>2
  <2>6. R \in Buffer!OldestParts(held)
    BY <2>2, <2>3, <2>5, OldestIsPart
  <2> HIDE DEF R
  <2>7. Buffer!Take
    BY <2>4, <2>5, <2>6 DEF Buffer!Take, held
  <2> QED
    BY <2>7 DEF Buffer!Next
<1> QED
  BY <1>1, <1>2, PopFrameEffect

\* The video queue is a reorder buffer: it holds nothing twice, gives up the
\* oldest first and loses a frame only when it is full
\* (jitter_queues.cc:46-57, 190-257).
THEOREM VideoQueueIsReorderBuffer == Spec => IsReorderBuffer
<1>1. Init => Buffer!Init
  BY DEF Init, Buffer!Init, SeqsOf
<1>2. IInv /\ [Next]_vars => [Buffer!Next]_(SeqsOf(Q))
  <2> SUFFICES ASSUME IInv, [Next]_vars PROVE [Buffer!Next]_(SeqsOf(Q))
    OBVIOUS
  <2>1. CASE PushInsert
    BY <2>1, PushImplementsPut
  <2>2. CASE PopFrame
    BY <2>2, PopImplementsTake
  <2>3. CASE ~PushInsert /\ ~PopFrame
    <3>1. Q' = Q
      BY <2>3 DEF Next, vars, PushBegin, Renderer, PopVideo, OutOfOrder,
           ReadAudioTime, CompareTimes, ReadLocalTime, EndOfQueue, Return,
           WalkUnchanged, Audio, StoreAudioTime, StoreLocalTime, AudioStalls,
           AudioUnchanged
    <3> QED
      BY <3>1 DEF SeqsOf
  <2> QED
    BY <2>1, <2>2, <2>3
<1> QED
  BY <1>1, <1>2, Invariance, PTL DEF Spec, IsReorderBuffer, Buffer!Spec

----------------------------------------------------------------------------
\* In a sorted queue newer than the last frame, a frame at its own place has
\* all its predecessors at theirs: the least frame out of place would push
\* the rest along.
LEMMA InOrderBefore ==
  ASSUME NEW q \in Seq(Frame), Sorted(q), NEW last \in Int,
         \A k \in 1..Len(q) : q[k].seq > last,
         NEW i \in 1..Len(q), q[i].seq = last + i
  PROVE  \A j \in 1..i : q[j].seq = last + j
<1>1. Len(q) \in Nat /\ \A k \in 1..Len(q) : q[k].seq \in Nat
  BY FrameFacts
<1>2. \A a, b \in 1..Len(q) : a < b => q[a].seq < q[b].seq
  BY DEF Sorted
<1>3. ASSUME NEW k \in 1..Len(q), q[k].seq < last + k PROVE FALSE
  <2> DEFINE S == {x \in 1..Len(q) : q[x].seq < last + x}
  <2>1. S \in SUBSET Nat /\ S # {}
    <3>1. k \in S
      BY <1>3
    <3>2. \A x \in S : x \in Nat
      BY <1>1
    <3> HIDE DEF S
    <3> QED
      BY <3>1, <3>2
  <2>2. PICK m \in S : \A x \in S : m <= x
    BY <2>1, MinIsLeast
  <2>3. m \in 1..Len(q) /\ q[m].seq < last + m
    BY <2>2
  <2>4. ASSUME NEW x \in 1..Len(q), x < m PROVE ~ (q[x].seq < last + x)
    <3>1. SUFFICES ASSUME x \in S PROVE FALSE
      OBVIOUS
    <3>2. m <= x
      BY <2>2, <3>1
    <3> QED
      BY <3>2, <2>3, <2>4
  <2> HIDE DEF S
  <2>5. CASE m = 1
    BY <2>3, <2>5, <1>1
  <2>6. CASE m > 1
    <3>1. m - 1 \in 1..Len(q) /\ m - 1 < m
      BY <2>3, <2>6, <1>1
    <3>2. ~ (q[m - 1].seq < last + (m - 1))
      BY <2>4, <3>1
    <3>3. q[m - 1].seq < q[m].seq
      BY <2>3, <3>1, <1>2
    <3>4. q[m - 1].seq \in Nat /\ q[m].seq \in Nat
      BY <2>3, <3>1, <1>1
    <3>5. m \in Int /\ last \in Int
      BY <2>3
    <3>6. \A a, b \in Nat : ~ (a < last + (m - 1)) /\ a < b => ~ (b < last + m)
      BY <3>5
    <3> QED
      BY <3>2, <3>3, <3>4, <3>6, <2>3
  <2>7. m = 1 \/ m > 1
    BY <2>3
  <2> QED
    BY <2>5, <2>6, <2>7
<1>4. ASSUME NEW j \in 1..i, q[j].seq > last + j PROVE FALSE
  <2> DEFINE S == {x \in j..i : ~ (q[x].seq > last + x)}
  <2>1. i \in S /\ S \in SUBSET Nat
    <3>1. q[i].seq = last + i /\ i \in j..i /\ i \in Nat
      BY <1>1
    <3>2. ~ (last + i > last + i)
      BY <3>1
    <3> QED
      BY <3>1, <3>2
  <2>2. PICK m \in S : \A x \in S : m <= x
    BY <2>1, MinIsLeast
  <2>3. m \in j..i /\ ~ (q[m].seq > last + m)
    BY <2>2
  <2>4. ASSUME NEW x \in j..i, x < m PROVE q[x].seq > last + x
    <3>1. SUFFICES ASSUME x \in S PROVE FALSE
      OBVIOUS
    <3>2. m <= x
      BY <2>2, <3>1
    <3> QED
      BY <3>2, <2>3, <2>4
  <2> HIDE DEF S
  <2>5. m # j
    BY <1>4, <2>3
  <2>6. /\ m - 1 \in j..i /\ m - 1 \in 1..Len(q) /\ m \in 1..Len(q)
        /\ m - 1 < m
    BY <1>1, <2>3, <2>5
  <2>7. q[m - 1].seq > last + (m - 1)
    BY <2>4, <2>6
  <2>8. q[m - 1].seq < q[m].seq
    BY <2>6, <1>2
  <2>9. q[m - 1].seq \in Nat /\ q[m].seq \in Nat
    BY <2>6, <1>1
  <2> QED
    BY <2>3, <2>6, <2>7, <2>8, <2>9
<1>5. \A j \in 1..i : j \in 1..Len(q) /\ q[j].seq \in Nat
  BY <1>1
<1>6. ASSUME NEW j \in 1..i PROVE q[j].seq = last + j
  <2>1. j \in 1..Len(q) /\ q[j].seq \in Nat /\ j \in Int /\ last \in Int
    BY <1>5
  <2>2. ~ (q[j].seq < last + j) /\ ~ (q[j].seq > last + j)
    BY <2>1, <1>3, <1>4
  <2> QED
    BY <2>1, <2>2
<1> QED
  BY <1>6

\* The frame before the next one to be handed to the decoder.
Previous == IF shown = <<>> THEN videoSeqPopped ELSE shown[Len(shown)]

\* The frames the walk has chosen to be shown continue the picture; out of
\* order it chooses only to discard, until it leaves.
WalkedInOrder ==
  ~overtaken /\ Walking /\ action \in {"pop", "pop_video_only"}
    => \A j \in 1..numPop : Q[j].seq = videoSeqPopped + j

\* The loop of pops goes on to show frame k of what is queued.
ToBeShown(k) ==
  \/ action = "pop_video_only"
  \/ action = "pop" /\ k <= numPop - pops

\* Those frames continue what is shown, the last one of a pop perhaps as an
\* intra frame.
ShowsInOrder ==
  ~overtaken /\ ~leftEarly /\ renderer = "pop"
    => \A k \in 1..Len(Q) : ToBeShown(k) =>
         \/ Q[k].seq = Previous + k
         \/ action = "pop" /\ k = numPop - pops /\ Q[k].seq \in IntraSeqs

\* In a queue that is fresh, what the walk counts in order has only frames in
\* order in front of it.
LEMMA CountedInOrder ==
  ASSUME IInv, ~overtaken, numPop < Len(Q), NextInOrder
  PROVE  \A j \in 1..(numPop + 1) : Q[j].seq = videoSeqPopped + j
<1>1. numPop + 1 \in 1..Len(Q)
  BY Basics
<1>2. Q[numPop + 1].seq = videoSeqPopped + (numPop + 1)
  BY DEF NextInOrder, NextFrame, InOrder
<1>3. \A k \in 1..Len(Q) : Q[k].seq > videoSeqPopped
  BY DEF IInv, QueueFresh
<1> QED
  BY <1>1, <1>2, <1>3, Basics, InOrderBefore

\* What a step of the walk leaves alone, and how it may end.
LEMMA WalkStepEffect ==
  ASSUME IInv, \/ OutOfOrder \/ ReadAudioTime \/ CompareTimes
               \/ ReadLocalTime \/ EndOfQueue
  PROVE  /\ Walking
         /\ UNCHANGED <<Q, videoSeqPopped, audioTime, audioLate, storing,
                        pushing, copies, metrics, clockMoved, overtaken>>
         /\ pops = 0 /\ pops' = 0 /\ shown = <<>> /\ shown' = <<>>
         /\ ~leftEarly
         /\ \/ Count("pop_discard")
            \/ /\ Count("pop") \/ Count("pop_video_only")
               /\ numPop < Len(Q) /\ NextInOrder
            \/ /\ renderer' \in {"timed", "newer"}
               /\ UNCHANGED <<action, numPop>>
            \/ /\ LeaveWith("pop") /\ NextFrame \in IntraSeqs
               /\ numPop < Len(Q) /\ action \notin {"pop", "pop_discard"}
            \/ /\ LeaveWith("pop_video_only") /\ leftEarly' /\ numPop < Len(Q)
            \/ Leave /\ action = "pop_video_only" /\ leftEarly'
            \/ Leave /\ action = "pop_video_only" /\ numPop = Len(Q)
            \/ Leave /\ action # "pop_video_only"
<1>1. Walking
  BY DEF OutOfOrder, ReadAudioTime, CompareTimes, ReadLocalTime, EndOfQueue,
         Walking
<1>2. UNCHANGED <<Q, videoSeqPopped, audioTime, audioLate, storing, pushing,
                  copies, metrics, pops, shown, clockMoved, overtaken>>
  BY DEF OutOfOrder, ReadAudioTime, CompareTimes, ReadLocalTime, EndOfQueue,
         WalkUnchanged, clockVars, pushVars, popVars
<1>3. pops = 0 /\ shown = <<>> /\ ~leftEarly
  BY <1>1 DEF IInv, CallPlaces, Walking
<1>4. /\ action \in {"hold", "pop", "pop_discard", "pop_video_only"}
      /\ renderer \in {"timed", "newer"} => numPop < Len(Q) /\ NextInOrder
  BY DEF IInv, TypeOK, CallPlaces
<1>5. CASE OutOfOrder
  BY <1>1, <1>2, <1>3, <1>4, <1>5 DEF OutOfOrder, BehindPops, Leave
<1>6. CASE ReadAudioTime
  BY <1>1, <1>2, <1>3, <1>6 DEF ReadAudioTime
<1>7. CASE CompareTimes
  BY <1>1, <1>2, <1>3, <1>4, <1>7 DEF CompareTimes
<1>8. CASE ReadLocalTime
  <2>1. leftEarly' = (action' = "pop_video_only")
    BY <1>8 DEF ReadLocalTime
  <2>2. CASE audioLate
    <3>1. LeaveWith("pop_video_only") /\ numPop < Len(Q)
      BY <1>4, <1>8, <2>2 DEF ReadLocalTime
    <3> QED
      BY <1>1, <1>2, <1>3, <2>1, <3>1 DEF LeaveWith
  <2>3. CASE ~audioLate
    <3>1. Leave
      BY <1>8, <2>3 DEF ReadLocalTime
    <3> QED
      BY <1>1, <1>2, <1>3, <2>1, <3>1 DEF Leave
  <2> QED
    BY <2>2, <2>3
<1>9. CASE EndOfQueue
  BY <1>1, <1>2, <1>3, <1>9 DEF EndOfQueue
<1> QED
  BY <1>5, <1>6, <1>7, <1>8, <1>9

LEMMA WalkOrder ==
  ASSUME IInv, WalkedInOrder,
         \/ OutOfOrder \/ ReadAudioTime \/ CompareTimes
         \/ ReadLocalTime \/ EndOfQueue
  PROVE  WalkedInOrder' /\ ShowsInOrder'
<1>1. /\ Walking /\ ~leftEarly /\ Q' = Q /\ videoSeqPopped' = videoSeqPopped
      /\ overtaken' = overtaken /\ pops' = 0 /\ shown' = <<>>
  BY WalkStepEffect
<1>2. numPop \in Nat /\ Len(Q) \in Nat /\ numPop <= Len(Q)
  BY <1>1, Basics DEF IInv, CallPlaces
<1>3. CASE Count("pop_discard")
  BY <1>3 DEF Count, WalkedInOrder, ShowsInOrder
<1>4. CASE /\ Count("pop") \/ Count("pop_video_only")
           /\ numPop < Len(Q) /\ NextInOrder
  <2>1. renderer' = "walk" /\ numPop' = numPop + 1
    BY <1>4 DEF Count
  <2>2. ~overtaken => \A j \in 1..numPop' : Q'[j].seq = videoSeqPopped' + j
    BY <1>1, <1>4, <2>1, CountedInOrder
  <2> QED
    BY <1>1, <2>1, <2>2 DEF WalkedInOrder, ShowsInOrder
<1>5. CASE renderer' \in {"timed", "newer"} /\ UNCHANGED <<action, numPop>>
  BY <1>1, <1>5 DEF WalkedInOrder, ShowsInOrder
\* Leaving, the walk has nothing shown yet.
<1>6. Previous' = videoSeqPopped
  BY <1>1 DEF Previous
<1>7. CASE /\ LeaveWith("pop") /\ NextFrame \in IntraSeqs
           /\ numPop < Len(Q) /\ action \notin {"pop", "pop_discard"}
  <2>1. renderer' = "pop" /\ action' = "pop" /\ numPop' = numPop + 1
    BY <1>7 DEF LeaveWith
  <2>2. ~overtaken => \A j \in 1..numPop : Q[j].seq = videoSeqPopped + j
    <3>1. action = "hold" \/ action = "pop_video_only"
      BY <1>7 DEF IInv, TypeOK
    <3>2. action = "hold" => numPop = 0
      BY <1>1 DEF IInv, CallPlaces
    <3> QED
      BY <1>1, <3>1, <3>2 DEF WalkedInOrder
  <2>3. Q[numPop + 1].seq \in IntraSeqs
    BY <1>7 DEF NextFrame
  <2>4. ASSUME ~overtaken, NEW k \in 1..Len(Q), k <= numPop + 1
        PROVE  \/ Q[k].seq = videoSeqPopped + k
               \/ k = numPop + 1 /\ Q[k].seq \in IntraSeqs
    BY <1>2, <2>2, <2>3, <2>4
  <2>5. numPop' - pops' = numPop + 1
    BY <1>1, <1>2, <2>1
  <2> QED
    BY <1>1, <1>6, <2>1, <2>4, <2>5 DEF WalkedInOrder, ShowsInOrder, Walking,
       ToBeShown
<1>8. CASE leftEarly' /\ (LeaveWith("pop_video_only") \/ Leave)
  BY <1>8 DEF LeaveWith, Leave, WalkedInOrder, ShowsInOrder, Walking
<1>9. CASE Leave /\ (action = "pop_video_only" => numPop = Len(Q))
  <2>1. renderer' = "pop" /\ action' = action /\ numPop' = numPop
    BY <1>9 DEF Leave
  <2>2. numPop' - pops' = numPop
    BY <1>1, <1>2, <2>1
  <2>3. ASSUME ~overtaken, NEW k \in 1..Len(Q), action = "pop_video_only"
        PROVE  Q[k].seq = videoSeqPopped + k
    BY <1>1, <1>9, <2>3 DEF WalkedInOrder
  <2>4. ASSUME ~overtaken, NEW k \in 1..Len(Q), action = "pop", k <= numPop
        PROVE  Q[k].seq = videoSeqPopped + k
    BY <1>1, <1>2, <2>4 DEF WalkedInOrder
  <2> QED
    BY <1>1, <1>6, <2>1, <2>2, <2>3, <2>4 DEF WalkedInOrder, ShowsInOrder,
       Walking, ToBeShown
<1> QED
  BY <1>3, <1>4, <1>5, <1>7, <1>8, <1>9, WalkStepEffect, Zenon

\* A pass of the loop of pops hands over the first of the frames to be shown.
LEMMA PopOrder ==
  ASSUME IInv, ShowsInOrder, PopFrame
  PROVE  /\ WalkedInOrder' /\ ShowsInOrder'
         /\ ~overtaken /\ ~leftEarly /\ shown' # shown =>
              /\ shown' = Append(shown, Q[1].seq) /\ Q # <<>>
              /\ Q[1].seq \in IntraSeqs \/ Q[1].seq = Previous + 1
<1>1. /\ renderer = "pop" /\ renderer' = "pop" /\ MorePops
      /\ action' = action /\ numPop' = numPop /\ pops' = pops + 1
      /\ leftEarly' = leftEarly
  BY PopFrameEffect
<1>2. WalkedInOrder'
  BY <1>1 DEF WalkedInOrder, Walking
<1>3. numPop \in Nat /\ pops \in Nat
  BY Basics
<1>4. CASE Q = <<>>
  <2>1. Q' = <<>> /\ shown' = shown
    BY <1>4, PopFrameEffect
  <2> QED
    BY <1>2, <2>1 DEF ShowsInOrder
<1>5. CASE Q # <<>> /\ action = "pop_discard"
  <2>1. shown' = shown
    BY <1>5, PopFrameEffect
  <2> QED
    BY <1>1, <1>2, <1>5, <2>1 DEF ShowsInOrder, ToBeShown
<1>6. CASE Q # <<>> /\ action # "pop_discard"
  <2>1. /\ Q' = Tail(Q) /\ shown' = Append(shown, Q[1].seq)
        /\ overtaken => overtaken'
    BY <1>6, PopFrameEffect
  <2>2. /\ 1 \in 1..Len(Q) /\ Len(Q) \in Nat
        /\ \A i \in 1..Len(Q') : i + 1 \in 1..Len(Q) /\ Q'[i] = Q[i + 1]
    BY <1>6, <2>1, Basics, TailFacts
  <2>3. Q[1].seq \in Seqs /\ Q[1].seq \in Nat
    BY <2>2, Basics
  <2>4. Previous' = Q[1].seq
    <3>1. shown \in Seq(Seqs)
      BY Basics
    <3>2. shown' # <<>> /\ shown'[Len(shown')] = Q[1].seq
      BY <2>1, <2>3, <3>1, AppendProperties
    <3> QED
      BY <3>2 DEF Previous
  <2>5. Previous \in Int
    <3>1. shown # <<>> => Len(shown) \in 1..Len(shown)
      BY Basics, EmptySeq
    <3>2. shown # <<>> => shown[Len(shown)] \in Seqs
      BY <3>1, Basics, ElementOfSeq
    <3> QED
      BY <3>2, Basics DEF Previous
  <2>6. ToBeShown(1)
    <3>1. action \in {"hold", "pop", "pop_discard", "pop_video_only"}
      BY DEF IInv, TypeOK
    <3>2. action # "hold" /\ (action = "pop" => pops < numPop)
      BY <1>1 DEF MorePops
    <3> QED
      BY <1>3, <1>6, <3>1, <3>2 DEF ToBeShown
  <2>7. ASSUME ~overtaken, ~leftEarly
        PROVE  /\ Q[1].seq \in IntraSeqs \/ Q[1].seq = Previous + 1
               /\ \/ Q[1].seq = Previous + 1
                  \/ action = "pop" /\ numPop - pops = 1
    BY <1>1, <2>2, <2>6, <2>7 DEF ShowsInOrder
  <2>8. ASSUME ~overtaken, ~leftEarly, NEW k \in 1..Len(Q'), ToBeShown(k)'
        PROVE  \/ Q'[k].seq = Previous' + k
               \/ /\ action' = "pop" /\ k = numPop' - pops'
                  /\ Q'[k].seq \in IntraSeqs
    <3>1. k + 1 \in 1..Len(Q) /\ Q'[k] = Q[k + 1] /\ k \in Nat
      BY <2>2
    <3>2. action = "pop" => k + 1 <= numPop - pops
      BY <1>1, <1>3, <2>8, <3>1 DEF ToBeShown
    <3>3. ToBeShown(k + 1)
      BY <1>1, <2>8, <3>2 DEF ToBeShown
    <3>4. \/ Q[k + 1].seq = Previous + (k + 1)
          \/ action = "pop" /\ k + 1 = numPop - pops /\ Q[k + 1].seq \in IntraSeqs
      BY <1>1, <2>8, <3>1, <3>3 DEF ShowsInOrder
    <3>5. Q[1].seq = Previous + 1
      BY <1>3, <2>7, <2>8, <3>1, <3>2
    <3>6. Previous' + k = Previous + (k + 1)
      BY <2>4, <2>5, <3>1, <3>5
    <3>7. k + 1 = numPop - pops => k = numPop' - pops'
      BY <1>1, <1>3, <3>1
    <3> QED
      BY <1>1, <3>1, <3>4, <3>6, <3>7
  <2> QED
    BY <1>1, <1>2, <1>6, <2>1, <2>7, <2>8 DEF ShowsInOrder
<1> QED
  BY <1>4, <1>5, <1>6

\* The other threads' steps, and the renderer's between two calls.
LEMMA OtherStepsOrder ==
  ASSUME IInv, WalkedInOrder, ShowsInOrder,
         \/ \E s \in Seqs : PushBegin(s)
         \/ PushInsert \/ PopVideo \/ Return \/ Audio \/ UNCHANGED vars
  PROVE  WalkedInOrder' /\ ShowsInOrder' /\ (shown' # shown => shown' = <<>>)
<1> USE DEF clockVars, pushVars, walkVars, popVars, callVars, WalkedInOrder,
            ShowsInOrder, Walking, ToBeShown, Previous
<1>1. CASE \E s \in Seqs : PushBegin(s)
  BY <1>1 DEF PushBegin
<1>2. CASE PushInsert
  BY <1>2 DEF PushInsert
<1>3. CASE PopVideo
  BY <1>3 DEF PopVideo, IInv, CallPlaces
<1>4. CASE Return
  BY <1>4 DEF Return
<1>5. CASE Audio
  BY <1>5 DEF Audio, StoreAudioTime, StoreLocalTime, AudioStalls,
              AudioUnchanged
<1>6. CASE UNCHANGED vars
  BY <1>6 DEF vars
<1> QED
  BY <1>1, <1>2, <1>3, <1>4, <1>5, <1>6

\* Without the race, and unless the walk left early with pop_video_only, the
\* decoder gets intra frames and successors only, wherever the audio thread
\* moves the clock (playout_sync.cc:24-116, jitter.cc:442-513).
THEOREM DecoderHasReferences == Spec => ReferencesDecoded
<1> DEFINE OInv == WalkedInOrder /\ ShowsInOrder
<1>1. Init => OInv
  BY DEF Init, WalkedInOrder, ShowsInOrder, Walking
<1>2. ASSUME IInv, OInv, [Next]_vars
      PROVE  /\ OInv'
             /\ ~overtaken /\ ~leftEarly /\ shown' \notin {shown, <<>>} =>
                  \/ shown'[Len(shown')] \in IntraSeqs
                  \/ shown'[Len(shown')] = Previous + 1
  <2>1. CASE \/ OutOfOrder \/ ReadAudioTime \/ CompareTimes \/ ReadLocalTime
             \/ EndOfQueue
    <3>1. shown' = <<>>
      BY <1>2, <2>1, WalkStepEffect
    <3> QED
      BY <1>2, <2>1, <3>1, WalkOrder
  <2>2. CASE PopFrame
    <3>1. OInv'
      BY <1>2, <2>2, PopOrder
    <3>2. ASSUME ~overtaken, ~leftEarly, shown' # shown
          PROVE  \/ shown'[Len(shown')] \in IntraSeqs
                 \/ shown'[Len(shown')] = Previous + 1
      <4>1. /\ shown' = Append(shown, Q[1].seq) /\ Q # <<>>
            /\ Q[1].seq \in IntraSeqs \/ Q[1].seq = Previous + 1
        BY <1>2, <2>2, <3>2, PopOrder
      <4>2. Q[1].seq \in Seqs /\ shown \in Seq(Seqs)
        BY <1>2, <4>1, Basics, TailFacts
      <4>3. shown'[Len(shown')] = Q[1].seq
        BY <4>1, <4>2, AppendProperties
      <4> QED
        BY <4>1, <4>3
    <3> QED
      BY <3>1, <3>2
  <2>3. CASE \/ \E s \in Seqs : PushBegin(s)
             \/ PushInsert \/ PopVideo \/ Return \/ Audio \/ UNCHANGED vars
    BY <1>2, <2>3, OtherStepsOrder
  <2> QED
    BY <1>2, <2>1, <2>2, <2>3 DEF Next, Renderer
<1>3. IInv /\ OInv /\ [Next]_vars =>
        [LET previous == IF shown = <<>> THEN videoSeqPopped
                         ELSE shown[Len(shown)]
             handed == shown'[Len(shown')]
         IN ~overtaken /\ ~leftEarly /\ shown' \notin {shown, <<>>}
              => handed \in IntraSeqs \/ handed = previous + 1]_vars
  BY <1>2, Zenon DEF Previous
<1>4. IInv /\ OInv /\ [Next]_vars => OInv'
  BY <1>2
<1> HIDE DEF OInv
<1> QED
  BY <1>1, <1>3, <1>4, Invariance, PTL DEF Spec, ReferencesDecoded

----------------------------------------------------------------------------
\* What the pop_video_only loop has taken so far, from the frames it found:
\* two or more of them never run out, a single one goes in the first pass,
\* and the passes after it are null pops.
TakenSoFar ==
  renderer = "pop" /\ action = "pop_video_only" =>
    LET n == Len(shown) + Len(Q)
    IN /\ n > 0
       /\ n >= 2 => Len(shown) = pops /\ 2 * pops <= n - 1
       /\ n = 1 => Len(Q) = IF pops = 0 THEN 1 ELSE 0

LEMMA TakenStarts ==
  ASSUME IInv, \/ OutOfOrder \/ ReadAudioTime \/ CompareTimes
               \/ ReadLocalTime \/ EndOfQueue
  PROVE  TakenSoFar'
<1>1. Walking /\ Q' = Q /\ pops' = 0 /\ shown' = <<>>
  BY WalkStepEffect
<1>2. renderer' = "pop" /\ action' = "pop_video_only" => Len(Q) > 0
  <2>1. action = "pop_video_only" => numPop > 0 /\ numPop <= Len(Q)
    BY <1>1 DEF IInv, CallPlaces
  <2> QED
    BY <2>1, Basics, WalkStepEffect DEF Count, LeaveWith, Leave
<1>3. Len(shown') = 0 /\ Len(Q) \in Nat
  BY <1>1, Basics, EmptySeq
<1> QED
  BY <1>1, <1>2, <1>3 DEF TakenSoFar

LEMMA TakenGoesOn ==
  ASSUME IInv, TakenSoFar, PopFrame
  PROVE  TakenSoFar'
<1> SUFFICES ASSUME action = "pop_video_only"
             PROVE  TakenSoFar'
  BY PopFrameEffect DEF TakenSoFar
<1> DEFINE n == Len(shown) + Len(Q)
<1>1. /\ n > 0 /\ Len(shown) \in Nat /\ Len(Q) \in Nat /\ pops \in Nat
      /\ n >= 2 => Len(shown) = pops /\ 2 * pops <= n - 1
      /\ n = 1 => Len(Q) = IF pops = 0 THEN 1 ELSE 0
  BY Basics, PopFrameEffect DEF TakenSoFar
<1>2. pops' = pops + 1 /\ action' = action
  BY PopFrameEffect
<1>3. Len(Q) >= 2 => pops < Len(Q) - 2
  BY PopFrameEffect DEF MorePops, VideoOnlyBound
<1>4. \/ Len(Q) = 0 /\ Len(Q') = 0 /\ Len(shown') = Len(shown)
      \/ /\ Len(Q) > 0 /\ Len(Q') = Len(Q) - 1
         /\ Len(shown') = Len(shown) + 1
  <2>1. CASE Q = <<>>
    BY <2>1, PopFrameEffect, EmptySeq
  <2>2. CASE Q # <<>>
    <3>1. Q' = Tail(Q) /\ shown' = Append(shown, Q[1].seq)
      BY <2>2, PopFrameEffect
    <3>2. Len(Q) \in Nat \ {0} /\ Len(Q') = Len(Q) - 1 /\ Q[1].seq \in Seqs
      BY <2>2, <3>1, Basics, TailFacts
    <3>3. Len(shown') = Len(shown) + 1
      BY <3>1, <3>2, Basics, AppendProperties
    <3> QED
      BY <3>2, <3>3
  <2> QED
    BY <2>1, <2>2
<1>5. Len(shown') + Len(Q') = n
  BY <1>1, <1>4
<1>6. /\ n >= 2 => Len(shown') = pops' /\ 2 * pops' <= n - 1
      /\ n = 1 => Len(Q') = IF pops' = 0 THEN 1 ELSE 0
  BY <1>1, <1>2, <1>3, <1>4
<1> HIDE DEF n
<1> QED
  BY <1>1, <1>5, <1>6 DEF TakenSoFar

\* The pop_video_only loop takes VideoOnlyPops frames from a queue of any
\* length, although its unsigned bound is read again on every pass and wraps
\* around for a queue of one frame (jitter.cc:490-508).
THEOREM LoopTakesVideoOnlyPops == Spec => []VideoOnlyTakes
<1>1. Init => TakenSoFar
  BY DEF Init, TakenSoFar
<1>2. IInv /\ TakenSoFar /\ [Next]_vars => TakenSoFar'
  <2> SUFFICES ASSUME IInv, TakenSoFar, [Next]_vars
               PROVE  TakenSoFar'
    OBVIOUS
  <2>1. CASE PopVideo
    BY <2>1 DEF PopVideo, TakenSoFar
  <2>2. CASE Return
    BY <2>2 DEF Return, TakenSoFar
  <2>3. CASE PushInsert
    BY <2>3 DEF PushInsert, walkVars, TakenSoFar
  <2>4. CASE \/ \E s \in Seqs : PushBegin(s)
             \/ Audio \/ UNCHANGED vars
    <3>1. UNCHANGED <<Q, renderer, action, pops, shown>>
      BY <2>4 DEF PushBegin, Audio, StoreAudioTime, StoreLocalTime,
         AudioStalls, AudioUnchanged, vars, walkVars, popVars
    <3> QED
      BY <3>1 DEF TakenSoFar
  <2> QED
    BY <2>1, <2>2, <2>3, <2>4, TakenStarts, TakenGoesOn DEF Next, Renderer
<1>3. IInv /\ TakenSoFar => VideoOnlyTakes
  <2> SUFFICES ASSUME IInv, TakenSoFar, renderer = "pop",
                      action = "pop_video_only", ~MorePops
               PROVE  Len(shown) = VideoOnlyPops(Len(shown) + Len(Q))
    BY DEF VideoOnlyTakes
  <2> DEFINE n == Len(shown) + Len(Q)
  <2>1. /\ n > 0 /\ Len(shown) \in Nat /\ Len(Q) \in Nat /\ pops \in Nat
        /\ n >= 2 => Len(shown) = pops /\ 2 * pops <= n - 1
        /\ n = 1 => Len(Q) = IF pops = 0 THEN 1 ELSE 0
    BY Basics DEF TakenSoFar
  <2>2. /\ Len(Q) >= 2 => ~ (pops < Len(Q) - 2)
        /\ Len(Q) < 2 => ~ (pops < UIntMax + 1 + Len(Q) - 2)
    BY <2>1 DEF MorePops, VideoOnlyBound
  <2>3. UIntMax \in Nat /\ UIntMax > 1
    BY VideoJitterAssumption
  <2>4. CASE n = 1
    <3>1. Len(Q) = 0
      BY <2>1, <2>2, <2>3, <2>4
    <3> QED
      BY <2>1, <2>4, <3>1 DEF VideoOnlyPops
  <2>5. CASE n >= 2
    <3>1. Len(Q) >= 2 /\ 2 * pops >= n - 2 /\ 2 * pops <= n - 1
      BY <2>1, <2>2, <2>5
    <3>2. pops = (n - 1) \div 2
      BY <2>1, <3>1
    <3> QED
      BY <2>1, <2>5, <3>2 DEF VideoOnlyPops
  <2> QED
    BY <2>1, <2>4, <2>5
<1> QED
  BY <1>1, <1>2, <1>3, Invariance, PTL DEF Spec

----------------------------------------------------------------------------
\* The loop-free verdicts of Sync on the queue and the clock as they are.
VerdictAt(i) == Verdict(Q, i, videoSeqPopped, audioTime, audioLate)
LeavesAt(i) == Leaves(Q, i, videoSeqPopped, audioTime, audioLate)
Decision == GetVideoAction(Q, videoSeqPopped, audioTime, audioLate)

\* Beside a clock that stands still, what the walk carries are the verdicts
\* on the frames behind it, none of which made it leave.
SteadyWalk ==
  Walking /\ ~clockMoved =>
    /\ action = IF numPop = 0 THEN "hold" ELSE VerdictAt(numPop)
    /\ \A j \in 1..numPop : ~LeavesAt(j)
    /\ renderer \in {"timed", "newer"} => audioTime # 0
    /\ renderer = "newer" => ~ (RecordTime[NextFrame] < audioTime)

\* The least of the places at which the walk may leave.
LEMMA FirstPlace ==
  ASSUME NEW n \in Nat, NEW E \in SUBSET (1..n), NEW i \in E,
         \A j \in 1..(i - 1) : j \notin E
  PROVE  Min(E) = i
<1>1. Min(E) \in E /\ Min(E) <= i
  BY MinIsLeast
<1>2. Min(E) \in 1..n /\ i \in 1..n
  BY <1>1
<1>3. ~ (Min(E) < i)
  BY <1>1, <1>2
<1> QED
  BY <1>1, <1>2, <1>3

\* The loop-free decision when the walk meets its first exit.
LEMMA FirstExit ==
  ASSUME Len(Q) \in Nat, NEW i \in 1..Len(Q), LeavesAt(i),
         \A j \in 1..(i - 1) : ~LeavesAt(j)
  PROVE  LET chosen == IF i = 1 THEN "hold" ELSE VerdictAt(i - 1)
         IN Decision = IF VerdictAt(i) = "late"
                       THEN [action |-> "pop_video_only", num |-> i]
                       ELSE IF VerdictAt(i) = "idr"
                               /\ chosen \notin {"pop", "pop_discard"}
                       THEN [action |-> "pop", num |-> i]
                       ELSE [action |-> chosen, num |-> i - 1]
<1> DEFINE exits == {k \in 1..Len(Q) : LeavesAt(k)}
           stop == IF exits = {} THEN Len(Q) + 1 ELSE Min(exits)
           chosen == IF stop = 1 THEN "hold" ELSE VerdictAt(stop - 1)
<1>1. i \in exits /\ \A j \in 1..(i - 1) : j \notin exits
  OBVIOUS
<1>2. exits \in SUBSET (1..Len(Q))
  OBVIOUS
<1>3. Decision
      = IF exits # {} /\ VerdictAt(stop) = "late"
        THEN [action |-> "pop_video_only", num |-> stop]
        ELSE IF exits # {} /\ VerdictAt(stop) = "idr"
                           /\ chosen \notin {"pop", "pop_discard"}
        THEN [action |-> "pop", num |-> stop]
        ELSE [action |-> chosen, num |-> stop - 1]
  BY Zenon DEF Decision, GetVideoAction, VerdictAt, LeavesAt
<1> HIDE DEF exits
<1>4. exits # {} /\ stop = i
  BY <1>1, <1>2, FirstPlace
<1> HIDE DEF stop
<1> QED
  BY <1>3, <1>4

\* The same when the walk meets no exit.
LEMMA NoExit ==
  ASSUME Len(Q) \in Nat, \A j \in 1..Len(Q) : ~LeavesAt(j)
  PROVE  Decision = [action |-> IF Len(Q) = 0 THEN "hold"
                                ELSE VerdictAt(Len(Q)),
                     num |-> Len(Q)]
<1> DEFINE exits == {k \in 1..Len(Q) : LeavesAt(k)}
           stop == IF exits = {} THEN Len(Q) + 1 ELSE Min(exits)
           chosen == IF stop = 1 THEN "hold" ELSE VerdictAt(stop - 1)
<1>1. exits = {}
  OBVIOUS
<1>2. Decision
      = IF exits # {} /\ VerdictAt(stop) = "late"
        THEN [action |-> "pop_video_only", num |-> stop]
        ELSE IF exits # {} /\ VerdictAt(stop) = "idr"
                           /\ chosen \notin {"pop", "pop_discard"}
        THEN [action |-> "pop", num |-> stop]
        ELSE [action |-> chosen, num |-> stop - 1]
  BY Zenon DEF Decision, GetVideoAction, VerdictAt, LeavesAt
<1>3. stop = Len(Q) + 1 /\ stop - 1 = Len(Q)
  BY <1>1
<1> HIDE DEF exits, stop
<1> QED
  BY <1>1, <1>2, <1>3

\* What a step of the walk says of the frame it is at.
LEMMA StepVerdict ==
  ASSUME IInv, SteadyWalk, ~clockMoved, numPop < Len(Q),
         \/ OutOfOrder \/ ReadAudioTime \/ CompareTimes \/ ReadLocalTime
  PROVE  LET i == numPop + 1
         IN /\ i \in 1..Len(Q) /\ \A j \in 1..(i - 1) : ~LeavesAt(j)
            /\ action = IF i = 1 THEN "hold" ELSE VerdictAt(i - 1)
            /\ \/ /\ Count(VerdictAt(i)) /\ ~LeavesAt(i)
               \/ /\ renderer' \in {"timed", "newer"}
                  /\ UNCHANGED <<action, numPop>>
                  /\ audioTime # 0
                  /\ renderer' = "newer" =>
                       ~ (RecordTime[NextFrame] < audioTime)
               \/ /\ LeavesAt(i) /\ VerdictAt(i) = "late"
                  /\ LeaveWith("pop_video_only")
               \/ /\ LeavesAt(i) /\ VerdictAt(i) = "idr"
                  /\ action \notin {"pop", "pop_discard"}
                  /\ LeaveWith("pop")
               \/ /\ LeavesAt(i) /\ Leave
                  /\ VerdictAt(i) # "late"
                  /\ VerdictAt(i) = "idr" => action \in {"pop", "pop_discard"}
<1> DEFINE i == numPop + 1
           s == NextFrame
           V == VerdictAt(i)
<1>1. /\ Walking /\ i \in 1..Len(Q) /\ i - 1 = numPop /\ numPop \in Nat
      /\ \A j \in 1..numPop : ~LeavesAt(j)
      /\ action = IF numPop = 0 THEN "hold" ELSE VerdictAt(numPop)
      /\ renderer \in {"timed", "newer"} => audioTime # 0 /\ NextInOrder
      /\ renderer = "newer" => ~ (RecordTime[s] < audioTime)
  BY Basics, WalkStepEffect DEF SteadyWalk, IInv, CallPlaces
<1>2. V = CASE ~NextInOrder /\ s \in IntraSeqs          -> "idr"
            [] ~NextInOrder /\ s \notin IntraSeqs       -> "pop_discard"
            [] NextInOrder /\ audioTime = 0             -> "pop_video_only"
            [] NextInOrder /\ audioTime # 0
                           /\ RecordTime[s] < audioTime -> "pop"
            [] OTHER -> IF audioLate THEN "late" ELSE "wait"
  BY Zenon DEF VerdictAt, Verdict, NextInOrder, NextFrame
<1>3. LeavesAt(i) <=> \/ V \in {"idr", "late", "wait"}
                      \/ V = "pop_discard" /\ action = "pop"
  <2>1. i > 1 => action = VerdictAt(i - 1)
    BY <1>1
  <2>2. i > 1 \/ action = "hold"
    BY <1>1
  <2>3. LeavesAt(i) <=> \/ V \in {"idr", "late", "wait"}
                        \/ V = "pop_discard" /\ i > 1 /\ VerdictAt(i - 1) = "pop"
    BY Zenon DEF LeavesAt, Leaves, VerdictAt
  <2> QED
    BY <2>1, <2>2, <2>3
<1>4. /\ \A j \in 1..(i - 1) : ~LeavesAt(j)
      /\ action = IF i = 1 THEN "hold" ELSE VerdictAt(i - 1)
  BY <1>1
<1> HIDE DEF i, V
<1> SUFFICES
      \/ /\ Count(V) /\ ~LeavesAt(i)
      \/ /\ renderer' \in {"timed", "newer"} /\ UNCHANGED <<action, numPop>>
         /\ audioTime # 0
         /\ renderer' = "newer" => ~ (RecordTime[s] < audioTime)
      \/ LeavesAt(i) /\ V = "late" /\ LeaveWith("pop_video_only")
      \/ /\ LeavesAt(i) /\ V = "idr" /\ action \notin {"pop", "pop_discard"}
         /\ LeaveWith("pop")
      \/ /\ LeavesAt(i) /\ Leave /\ V # "late"
         /\ V = "idr" => action \in {"pop", "pop_discard"}
  BY <1>1, <1>4, Zenon DEF i, V, s
<1>5. CASE OutOfOrder
  <2>1. /\ ~NextInOrder
        /\ IF action = "pop" THEN Leave
           ELSE IF s \notin IntraSeqs THEN Count("pop_discard")
           ELSE IF action = "pop_discard" THEN Leave
           ELSE LeaveWith("pop")
    BY <1>5 DEF OutOfOrder, BehindPops
  <2> HIDE DEF s
  <2> QED
    BY <1>2, <1>3, <2>1
<1>6. CASE ReadAudioTime
  <2>1. /\ NextInOrder
        /\ IF audioTime = 0 THEN Count("pop_video_only")
           ELSE renderer' = "timed" /\ UNCHANGED <<action, numPop>>
    BY <1>6 DEF ReadAudioTime
  <2> HIDE DEF s
  <2> QED
    BY <1>2, <1>3, <2>1
<1>7. CASE CompareTimes
  <2>1. /\ NextInOrder /\ audioTime # 0
        /\ IF RecordTime[s] < audioTime THEN Count("pop")
           ELSE renderer' = "newer" /\ UNCHANGED <<action, numPop>>
    BY <1>1, <1>7 DEF CompareTimes
  <2> HIDE DEF s
  <2> QED
    BY <1>2, <1>3, <2>1
<1>8. CASE ReadLocalTime
  <2>1. /\ NextInOrder /\ audioTime # 0 /\ ~ (RecordTime[s] < audioTime)
        /\ IF audioLate THEN LeaveWith("pop_video_only") ELSE Leave
    BY <1>1, <1>8 DEF ReadLocalTime
  <2> HIDE DEF s
  <2> QED
    BY <1>2, <1>3, <2>1
<1> QED
  BY <1>5, <1>6, <1>7, <1>8

LEMMA WalkStaysSteady ==
  ASSUME IInv, SteadyWalk,
         \/ OutOfOrder \/ ReadAudioTime \/ CompareTimes
         \/ ReadLocalTime \/ EndOfQueue
  PROVE  SteadyWalk' /\ WalkDecides'
<1>1. /\ Walking /\ pops' = 0 /\ clockMoved' = clockMoved
      /\ UNCHANGED <<Q, videoSeqPopped, audioTime, audioLate>>
  BY WalkStepEffect
<1> SUFFICES ASSUME ~clockMoved
             PROVE  SteadyWalk' /\ WalkDecides'
  BY <1>1 DEF SteadyWalk, WalkDecides
<1>2. numPop \in Nat /\ Len(Q) \in Nat /\ numPop <= Len(Q)
  BY <1>1, Basics DEF IInv, CallPlaces
\* The verdicts stay: queue and clock do.
<1>3. /\ \A j : VerdictAt(j)' = VerdictAt(j) /\ (LeavesAt(j)' <=> LeavesAt(j))
      /\ Decision' = Decision
  BY <1>1 DEF VerdictAt, LeavesAt, Decision
<1>4. CASE EndOfQueue
  <2>1. renderer' = "pop" /\ action' = action /\ numPop' = numPop
        /\ numPop = Len(Q)
    BY <1>4 DEF EndOfQueue, Leave
  <2>2. [action |-> action, num |-> numPop] = Decision
    BY <1>1, <1>2, <2>1, NoExit DEF SteadyWalk
  <2> QED
    BY <1>3, <2>1, <2>2 DEF SteadyWalk, Walking, WalkDecides, Decision
<1>5. CASE ~EndOfQueue
  <2> DEFINE i == numPop + 1
             V == VerdictAt(i)
  <2>1. numPop < Len(Q)
    BY <1>2, <1>5 DEF OutOfOrder, ReadAudioTime, CompareTimes, ReadLocalTime,
                      IInv, CallPlaces
  <2>2. /\ i \in 1..Len(Q) /\ \A j \in 1..(i - 1) : ~LeavesAt(j)
        /\ action = IF i = 1 THEN "hold" ELSE VerdictAt(i - 1)
        /\ \/ Count(V) /\ ~LeavesAt(i)
           \/ /\ renderer' \in {"timed", "newer"}
              /\ UNCHANGED <<action, numPop>>
              /\ audioTime # 0
              /\ renderer' = "newer" => ~ (RecordTime[NextFrame] < audioTime)
           \/ LeavesAt(i) /\ V = "late" /\ LeaveWith("pop_video_only")
           \/ /\ LeavesAt(i) /\ V = "idr"
              /\ action \notin {"pop", "pop_discard"} /\ LeaveWith("pop")
           \/ /\ LeavesAt(i) /\ Leave /\ V # "late"
              /\ V = "idr" => action \in {"pop", "pop_discard"}
    BY <1>5, <2>1, StepVerdict
  <2>3. CASE Count(V) /\ ~LeavesAt(i)
    <3>1. renderer' = "walk" /\ action' = V /\ numPop' = i /\ i # 0
      BY <1>2, <2>3 DEF Count
    <3>2. \A j \in 1..i : ~LeavesAt(j)
      BY <1>2, <2>2, <2>3
    <3> QED
      BY <1>3, <3>1, <3>2 DEF SteadyWalk, WalkDecides
  <2>4. CASE /\ renderer' \in {"timed", "newer"} /\ UNCHANGED <<action, numPop>>
             /\ audioTime # 0
             /\ renderer' = "newer" => ~ (RecordTime[NextFrame] < audioTime)
    <3>1. NextFrame' = NextFrame
      BY <1>1, <2>4 DEF NextFrame
    <3> QED
      BY <1>1, <1>3, <2>4, <3>1 DEF SteadyWalk, WalkDecides
  <2>5. CASE LeavesAt(i) /\ renderer' = "pop"
    <3> DEFINE Result(a) ==
                 IF V = "late" THEN [action |-> "pop_video_only", num |-> i]
                 ELSE IF V = "idr" /\ a \notin {"pop", "pop_discard"}
                 THEN [action |-> "pop", num |-> i]
                 ELSE [action |-> a, num |-> i - 1]
    <3>1. Decision = Result(IF i = 1 THEN "hold" ELSE VerdictAt(i - 1))
      BY <1>2, <2>2, <2>5, FirstExit
    <3>2. Decision = Result(action)
      <4> HIDE DEF Result
      <4> QED
        BY <2>2, <3>1
    <3>3. i - 1 = numPop
      BY <1>2
    <3> HIDE DEF i, V
    <3>4. [action |-> action', num |-> numPop'] = Result(action)
      BY <2>2, <2>5, <3>3 DEF Count, LeaveWith, Leave, i
    <3> QED
      BY <1>3, <2>5, <3>2, <3>4 DEF SteadyWalk, Walking, WalkDecides, Decision
  <2> QED
    BY <2>2, <2>3, <2>4, <2>5 DEF LeaveWith, Leave
<1> QED
  BY <1>4, <1>5

\* The walk, on a queue of any length and in every playout state, decides what
\* the loop-free definition says, when the audio thread leaves its clock alone
\* meanwhile (playout_sync.cc:24-116).
THEOREM WalkComputesDecision == Spec => []WalkDecides
<1> DEFINE SInv == SteadyWalk /\ WalkDecides
<1>1. Init => SInv
  BY DEF Init, SteadyWalk, Walking, WalkDecides
<1>2. IInv /\ SInv /\ [Next]_vars => SInv'
  <2> SUFFICES ASSUME IInv, SteadyWalk, WalkDecides, [Next]_vars
               PROVE  SteadyWalk' /\ WalkDecides'
    OBVIOUS
  <2>1. CASE PopVideo
    <3>1. /\ renderer' = "walk" /\ numPop' = 0 /\ action' = "hold"
          /\ 1..0 = {}
      BY <2>1 DEF PopVideo, IInv, CallPlaces
    <3> QED
      BY <3>1 DEF SteadyWalk, WalkDecides
  <2>2. CASE PopFrame
    <3>1. renderer' = "pop" /\ pops' # 0
      BY <2>2, PopFrameEffect, Basics
    <3> QED
      BY <3>1 DEF SteadyWalk, Walking, WalkDecides
  <2>3. CASE Return \/ PushInsert
    <3>1. renderer' = "idle"
      BY <2>3 DEF Return, PushInsert, walkVars
    <3> QED
      BY <3>1 DEF SteadyWalk, Walking, WalkDecides
  <2>4. CASE \/ \E s \in Seqs : PushBegin(s)
             \/ Audio \/ UNCHANGED vars
    <3>1. UNCHANGED <<Q, videoSeqPopped, renderer, action, numPop, pops>>
      BY <2>4 DEF PushBegin, Audio, StoreAudioTime, StoreLocalTime,
         AudioStalls, AudioUnchanged, vars, walkVars, popVars
    <3>2. \/ renderer = "idle" \/ clockMoved'
          \/ UNCHANGED <<audioTime, audioLate, clockMoved>>
      BY <2>4 DEF PushBegin, Audio, StoreAudioTime, StoreLocalTime,
         AudioStalls, MovesClock, vars, clockVars, callVars, IInv, TypeOK
    <3>3. CASE renderer = "idle" \/ clockMoved'
      BY <3>1, <3>3 DEF SteadyWalk, Walking, WalkDecides
    <3>4. CASE UNCHANGED <<audioTime, audioLate, clockMoved>>
      BY <3>1, <3>4 DEF SteadyWalk, Walking, WalkDecides, VerdictAt,
         LeavesAt, NextFrame
    <3> QED
      BY <3>2, <3>3, <3>4
  <2> QED
    BY <2>1, <2>2, <2>3, <2>4, WalkStaysSteady DEF Next, Renderer
<1> QED
  BY <1>1, <1>2, Invariance, PTL DEF Spec

=============================================================================
