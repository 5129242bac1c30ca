----------------------------- MODULE VideoJitter -----------------------------
(***************************************************************************)
(* The video half of the jitter buffer (Jitter::push and Jitter::popVideo  *)
(* for H264 and raw frames, jitter.cc; MetaQueue::queueVideoFrame,         *)
(* jitter_queues.cc; Sync, playout_sync.cc).                               *)
(*                                                                         *)
(* Three threads meet here.  The network worker pushes: it compares the    *)
(* frame with video_seq_popped before it takes the queue's lock and        *)
(* inserts it afterwards, two steps between which the renderer may pop.    *)
(* The renderer holds the lock for the whole of popVideo, but the audio    *)
(* clock that it synchronises to belongs to the audio thread, which moves  *)
(* it under another lock: so each of the walk's readings of the clock is a *)
(* step, and each pop.  The audio thread is an environment that may play   *)
(* media (a time), concealment (time 0) or stall (more than 400 ms without *)
(* a pop).                                                                 *)
(*                                                                         *)
(* Sequence numbers stand for frames: what kind of frame it is and when it *)
(* was captured are functions of its number.  Every number may arrive up   *)
(* to Deliveries[s] times, in any order, or never.                         *)
(***************************************************************************)
EXTENDS Sync

CONSTANTS
  MaxSize,      \* max_size: frames the queue keeps
  Deliveries,   \* how often the network can deliver each frame
  AudioTimes,   \* the capture times audio frames may have
  UIntMax       \* largest unsigned int; any value above MaxSize will do

ASSUME VideoJitterAssumption ==
  /\ MaxSize \in Nat \ {0}
  /\ Deliveries \in [Seqs -> Nat]
  /\ AudioTimes \subseteq Nat \ {0}
  /\ UIntMax \in Nat /\ UIntMax > MaxSize

VARIABLES
  Q,              \* video.mq.Q
  videoSeqPopped, \* sync.video_seq_popped
  audioTime,      \* sync.source_audio_time_popped, 0: none or concealment
  audioLate,      \* now - sync.local_audio_time_popped > 400 ms
  storing,        \* the audio thread is between its stores of these two
  pushing,        \* the frame between the age check and the lock, or NoSeq
  copies,         \* deliveries of each frame still to come
  metrics,        \* mq.metrics, plus what drainToMax dropped
  renderer,       \* where the renderer is in popVideo; it has the lock
                  \* everywhere but in "idle"
  action, numPop, \* the two variables of getVideoAction's walk, which is at
                  \* frame numPop + 1
  pops,           \* passes of popVideo's loop so far
  shown,          \* history: the frames this popVideo decoded or tried to
  clockMoved,     \* history: the audio clock changed during this popVideo
  leftEarly,      \* history: this popVideo's walk chose pop_video_only, which
                  \* takes no count, without having seen the whole queue
  overtaken       \* history: some pop showed a frame at least as new as the
                  \* one a push had checked but not yet queued

clockVars  == <<audioTime, audioLate, storing>>
pushVars   == <<pushing, copies>>
walkVars   == <<renderer, action, numPop>>
popVars    == <<pops, shown>>
callVars   == <<clockMoved, leftEarly>>
vars == <<Q, videoSeqPopped, clockVars, pushVars, metrics, walkVars, popVars,
          callVars, overtaken>>

Init ==
  /\ Q = <<>>
  /\ videoSeqPopped = NoSeq
  /\ audioTime = 0
  /\ audioLate = TRUE         \* local_audio_time_popped is the epoch
  /\ storing = FALSE
  /\ pushing = NoSeq
  /\ copies = Deliveries
  /\ metrics = [total |-> 0, totalPopped |-> 0, discarded |-> 0,
                discardedRepeats |-> 0, drained |-> 0]
  /\ renderer = "idle" /\ action = "hold" /\ numPop = 0
  /\ pops = 0 /\ shown = <<>>
  /\ clockMoved = FALSE /\ leftEarly = FALSE
  /\ overtaken = FALSE

----------------------------------------------------------------------------
\* The age check of queueVideoFrame, and two faulty variants of it.
TooOldOffByOne(s) == videoSeqPopped # NoSeq /\ s < videoSeqPopped
TooOldNever(s) == FALSE
TooOld(s) == videoSeqPopped # NoSeq /\ s <= videoSeqPopped

\* queueVideoFrame up to the lock: a copy of frame s arrives and its number
\* is compared with the last one popped, which the worker reads unlocked.
PushBegin(s) ==
  /\ pushing = NoSeq
  /\ copies[s] > 0
  /\ copies' = [copies EXCEPT ![s] = @ - 1]
  /\ IF TooOld(s)
     THEN /\ metrics' = [metrics EXCEPT !.discarded = @ + 1]
          /\ UNCHANGED pushing
     ELSE /\ pushing' = s
          /\ UNCHANGED metrics
  /\ UNCHANGED <<Q, videoSeqPopped, clockVars, walkVars, popVars, callVars,
                 overtaken>>

\* How many frames drainToMax drops once one more is queued.
Overflow == IF Len(Q) + 1 > MaxSize THEN Len(Q) + 1 - MaxSize ELSE 0

\* queueVideoFrame under the lock.
PushInsert ==
  /\ pushing # NoSeq /\ renderer = "idle"
  /\ Q' = QueueVideoFrame(Q, pushing, MaxSize)
  /\ IF IsRepeat(Q, pushing)
     THEN metrics' = [metrics EXCEPT !.discardedRepeats = @ + 1]
     ELSE metrics' = [metrics EXCEPT !.total = @ + 1,
                                     !.drained = @ + Overflow]
  /\ pushing' = NoSeq
  /\ UNCHANGED <<videoSeqPopped, clockVars, copies, walkVars, popVars,
                 callVars, overtaken>>

----------------------------------------------------------------------------
\* popVideo takes the lock; of an empty queue it shows the last picture again.
PopVideo ==
  /\ renderer = "idle" /\ Q # <<>>
  /\ renderer' = "walk"
  /\ UNCHANGED <<Q, videoSeqPopped, clockVars, pushVars, metrics, action,
                 numPop, popVars, callVars, overtaken>>

\* The three things a place of the walk does: count the frame and go on to the
\* next, leave with the frame, or leave without it.
Count(a) == renderer' = "walk" /\ action' = a /\ numPop' = numPop + 1
LeaveWith(a) == renderer' = "pop" /\ action' = a /\ numPop' = numPop + 1
Leave == renderer' = "pop" /\ UNCHANGED <<action, numPop>>

WalkUnchanged ==
  UNCHANGED <<Q, videoSeqPopped, clockVars, pushVars, metrics, popVars,
              clockMoved, overtaken>>

NextFrame == Q[numPop + 1].seq
NextInOrder == InOrder(NextFrame, numPop + 1, videoSeqPopped)

\* A gap, or no picture shown yet (when action is never "pop").  Frames go
\* until an intra frame is found, but those already chosen are shown first;
\* the faulty variant overlooks them.
BehindPopsNever == FALSE
BehindPops == action = "pop"

OutOfOrder ==
  /\ renderer = "walk" /\ numPop < Len(Q) /\ ~NextInOrder
  /\ IF BehindPops THEN Leave
     ELSE IF NextFrame \notin IntraSeqs THEN Count("pop_discard")
     ELSE IF action = "pop_discard" THEN Leave
     ELSE LeaveWith("pop")
  /\ WalkUnchanged /\ UNCHANGED leftEarly

\* A frame in order: is there an audio clock?
ReadAudioTime ==
  /\ renderer = "walk" /\ numPop < Len(Q) /\ NextInOrder
  /\ IF audioTime = 0
     THEN Count("pop_video_only")
     ELSE renderer' = "timed" /\ UNCHANGED <<action, numPop>>
  /\ WalkUnchanged /\ UNCHANGED leftEarly

\* Is the frame older than the audio?
CompareTimes ==
  /\ renderer = "timed"
  /\ IF RecordTime[NextFrame] < audioTime
     THEN Count("pop")
     ELSE renderer' = "newer" /\ UNCHANGED <<action, numPop>>
  /\ WalkUnchanged /\ UNCHANGED leftEarly

\* Has the audio stopped for 400 ms?
ReadLocalTime ==
  /\ renderer = "newer"
  /\ IF audioLate THEN LeaveWith("pop_video_only") ELSE Leave
  /\ leftEarly' = (action' = "pop_video_only")
  /\ WalkUnchanged

EndOfQueue ==
  /\ renderer = "walk" /\ numPop = Len(Q)
  /\ Leave
  /\ WalkUnchanged /\ UNCHANGED leftEarly

----------------------------------------------------------------------------
\* The bound of the pop_video_only loop, size() - 2 in unsigned arithmetic,
\* and two faulty variants: three frames kept, and a bound read only once.
VideoOnlyBoundFew == IF Len(Q) >= 3 THEN Len(Q) - 3 ELSE 0
VideoOnlyBoundOnce == IF Len(Q) >= 2 THEN Len(Q) + pops - 2 ELSE UIntMax
VideoOnlyBound ==
  IF Len(Q) >= 2 THEN Len(Q) - 2 ELSE UIntMax + 1 + Len(Q) - 2

MorePops ==
  CASE action = "hold"           -> FALSE
    [] action = "pop_video_only" -> pops < VideoOnlyBound
    [] OTHER                     -> pops < numPop

\* One pass of popVideo's loop.  A frame popped to be shown goes through the
\* decoder; if it decodes it is recorded in Sync.  A discarded frame leaves
\* no trace, and a pop of the empty queue is null.
PopFrame ==
  /\ renderer = "pop" /\ MorePops
  /\ pops' = pops + 1
  /\ IF Q = <<>>
     THEN UNCHANGED <<Q, metrics, shown, videoSeqPopped, overtaken>>
     ELSE /\ Q' = Tail(Q)
          /\ metrics' = [metrics EXCEPT !.totalPopped = @ + 1]
          /\ IF action = "pop_discard"
             THEN UNCHANGED <<shown, videoSeqPopped>>
             ELSE /\ shown' = Append(shown, Head(Q).seq)
                  /\ videoSeqPopped' \in {videoSeqPopped, Head(Q).seq}
          /\ overtaken' = \/ overtaken
                          \/ pushing # NoSeq /\ pushing <= videoSeqPopped'
  /\ UNCHANGED <<clockVars, pushVars, walkVars, callVars>>

\* popVideo gives back the lock and returns the picture.
Return ==
  /\ renderer = "pop" /\ ~MorePops
  /\ renderer' = "idle" /\ action' = "hold" /\ numPop' = 0
  /\ pops' = 0 /\ shown' = <<>>
  /\ clockMoved' = FALSE /\ leftEarly' = FALSE
  /\ UNCHANGED <<Q, videoSeqPopped, clockVars, pushVars, metrics, overtaken>>

Renderer ==
  \/ PopVideo \/ OutOfOrder \/ ReadAudioTime \/ CompareTimes \/ ReadLocalTime
  \/ EndOfQueue \/ PopFrame \/ Return

----------------------------------------------------------------------------
AudioUnchanged ==
  UNCHANGED <<Q, videoSeqPopped, pushVars, metrics, walkVars, popVars,
              leftEarly, overtaken>>

MovesClock(change) == clockMoved' = (clockMoved \/ (renderer # "idle" /\ change))

\* The audio thread plays a frame (Sync::audio_popped).  Media moves the
\* clock forward; a concealment frame carries the time 0.
StoreAudioTime(t) ==
  /\ ~storing /\ storing' = TRUE
  /\ t = 0 \/ t >= audioTime
  /\ audioTime' = t
  /\ MovesClock(t # audioTime)
  /\ AudioUnchanged /\ UNCHANGED audioLate

StoreLocalTime ==
  /\ storing /\ storing' = FALSE
  /\ audioLate' = FALSE
  /\ MovesClock(audioLate)
  /\ AudioUnchanged /\ UNCHANGED audioTime

\* 400 ms pass without an audio pop.  popVideo compares with the time at
\* which it was called, so this changes nothing for a call under way.
AudioStalls ==
  /\ renderer = "idle"
  /\ audioLate' = TRUE
  /\ AudioUnchanged /\ UNCHANGED <<audioTime, storing, clockMoved>>

Audio ==
  \/ \E t \in AudioTimes \cup {0} : StoreAudioTime(t)
  \/ StoreLocalTime
  \/ AudioStalls

Next ==
  \/ \E s \in Seqs : PushBegin(s)
  \/ PushInsert
  \/ Renderer
  \/ Audio

Spec == Init /\ [][Next]_vars

\* The renderer asks for a frame every 30 ms for as long as it lives, and
\* finishes the call it is in.
Fairness == WF_vars(Renderer)

FairSpec == Spec /\ Fairness

----------------------------------------------------------------------------
Metrics == [total : Nat, totalPopped : Nat, discarded : Nat,
            discardedRepeats : Nat, drained : Nat]

\* The types, with the bound drainToMax keeps (jitter_queues.cc:46).
TypeOK ==
  /\ Q \in Seq(Frame) /\ Len(Q) <= MaxSize
  /\ videoSeqPopped \in Seqs \cup {NoSeq}
  /\ audioTime \in AudioTimes \cup {0}
  /\ audioLate \in BOOLEAN /\ storing \in BOOLEAN
  /\ pushing \in Seqs \cup {NoSeq}
  /\ copies \in [Seqs -> Nat]
  /\ metrics \in Metrics
  /\ renderer \in {"idle", "walk", "timed", "newer", "pop"}
  /\ action \in {"hold", "pop", "pop_discard", "pop_video_only"}
  /\ numPop \in Nat /\ pops \in Nat
  /\ shown \in Seq(Seqs)
  /\ clockMoved \in BOOLEAN /\ leftEarly \in BOOLEAN
  /\ overtaken \in BOOLEAN

\* The queue is strictly ordered by sequence number whatever the order, the
\* repetition and the timing of arrivals: the order the sync walk and both
\* pops rely on (jitter_queues.cc:236-257).
QueueSorted == Sorted(Q)

\* Every frame the queue accepted left it by exactly one door or is still
\* there: popped, drained on overflow, or queued.
FramesAccounted ==
  metrics.total = metrics.totalPopped + metrics.drained + Len(Q)

\* What is queued is newer than what was shown, unless a pop ran between the
\* age check of a push and its lock: the check is right but for that race
\* (jitter_queues.cc:215-223).
QueueFresh ==
  ~overtaken => \A i \in 1..Len(Q) : Q[i].seq > videoSeqPopped

\* Without that race the picture never jumps back: each pop that shows
\* something leaves a newer frame on the screen (jitter.cc:442-513).
NeverBack == [][~overtaken /\ videoSeqPopped' # videoSeqPopped
                  => videoSeqPopped' > videoSeqPopped]_vars

\* Without that race, a frame handed to the decoder is intra or the successor
\* of the frame handed over or decoded before it, so its reference picture was
\* there, wherever in the walk the audio thread moves the clock - except when
\* the walk left early with pop_video_only, whose loop pops past the frames
\* the walk has seen: audio stopped for 400 ms, or came back after the walk
\* had begun without it (playout_sync.cc:33-113, jitter.cc:490-508).
ReferencesDecoded ==
  [][LET previous == IF shown = <<>> THEN videoSeqPopped
                     ELSE shown[Len(shown)]
         handed == shown'[Len(shown')]
     IN ~overtaken /\ ~leftEarly /\ shown' \notin {shown, <<>>}
          => handed \in IntraSeqs \/ handed = previous + 1]_vars

\* The walk decides as the loop-free definition in Sync says, when the audio
\* thread leaves the clock alone meanwhile (playout_sync.cc:24-116).
WalkDecides ==
  renderer = "pop" /\ pops = 0 /\ ~clockMoved
    => [action |-> action, num |-> numPop] =
         GetVideoAction(Q, videoSeqPopped, audioTime, audioLate)

\* When the pop_video_only loop ends it has taken VideoOnlyPops frames: half
\* of what exceeds one frame, and the whole queue when its bound wrapped
\* around (jitter.cc:490-508).
VideoOnlyTakes ==
  renderer = "pop" /\ action = "pop_video_only" /\ ~MorePops
    => Len(shown) = VideoOnlyPops(Len(shown) + Len(Q))

\* Once no audio clock holds the picture back for good, the queue drains to
\* the two frames the video-only mode keeps: no gap, repeat or late frame
\* makes the renderer wait forever.
DrainsToReserve ==
  <>[](audioLate \/ audioTime = 0) => <>[](Len(Q) <= 2)

\* The queue is a reorder buffer: nothing is held twice, and what leaves is
\* the oldest.
Buffer == INSTANCE ReorderBuffer
            WITH Capacity <- MaxSize, Numbers <- Seqs,
                 held <- SeqsOf(Q)

IsReorderBuffer == Buffer!Spec

=============================================================================
