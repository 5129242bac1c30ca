----------------------------- MODULE AudioJitter -----------------------------
(***************************************************************************)
(* The audio half of the jitter buffer: Jitter::push for audio packets,    *)
(* Jitter::popAudio, the idle client's pruning (jitter.cc), queueAudioFrame *)
(* (jitter_queues.cc) and the fill level control (playout_leakybucket.cc). *)
(*                                                                         *)
(* Two threads meet here.  The network worker takes a packet through six   *)
(* steps, each with a lock of its own or none: age check, insertion,       *)
(* concealment of gaps, measuring, and two to prune while no client pops.  *)
(* Pruning pops without the lock; here each of its pops is atomic.  The    *)
(* audio thread takes a popAudio through one locked look at the queue and  *)
(* a loop of rounds, each of which produces at most one frame of sound.    *)
(*                                                                         *)
(* All frames have the same length, MsPerPacket, and one popAudio asks for *)
(* Length of them (the bytes within a frame are fullFill's business).      *)
(* Whether the signal is silent is the speaker's choice, made anew each    *)
(* time the code asks.                                                     *)
(***************************************************************************)
EXTENDS MetaQueue

CONSTANTS
  MaxSeq,       \* sequence numbers are 0 .. MaxSeq
  Deliveries,   \* how often the network can deliver each frame
  Length        \* frames one popAudio asks for

Seqs == 0..MaxSeq

ASSUME AudioJitterAssumption ==
  /\ MaxSeq \in Nat
  /\ Deliveries \in [Seqs -> Nat]
  /\ Length \in Nat \ {0}

\* The length of a frame, and the target and the limit of the fill level.
MsPerPacket == 10
TargetFillLevel == 20
MaxBucketSize == 150

\* JitterCalc::getJitterMs: standard_deviation returns 0 as soon as there are
\* values, and without any it divides zero by zero and adds 1 to what the
\* conversion of NaN gives, 0 on the machines the client is built for.
JitterMs == {0, 1}

\* No frame: what pushing holds between two pushes.
NoSeq == -1

VARIABLES
  Q,              \* audio.mq.Q
  audioSeqPopped, \* sync.audio_seq_popped, 0 before the first pop
  sourceKnown,    \* audio.sourceID is that of the stream
  msPerPacket,    \* audio.ms_per_audio_packet, 0 until measured
  idleClient,     \* idle_client: neither popAudio nor popVideo yet
  worker,         \* where the network worker is
  pushing,        \* the frame that passed the age check, or NoSeq
  toPrune,        \* what is left of pruneAudioQueue's prune_count
  copies,         \* deliveries of each frame still to come
  app,            \* where the audio thread is; "stuck" on its own lock
  initialFill,    \* bucket.initial_fill
  drain,          \* bucket.current_drain
  adjustments,    \* num_depth_adjustments of the popAudio under way
  buffered,       \* frames in audio.playout
  metrics,        \* mq.metrics; concealed is concealed_generated
  generated,      \* history: concealment frames put into the queue
  overtaken       \* history: some pop played a frame at least as new as the
                  \* one a push had checked but not yet queued

vars == <<Q, audioSeqPopped, sourceKnown, msPerPacket, idleClient, worker,
          pushing, toPrune, copies, app, initialFill, drain, adjustments,
          buffered, metrics, generated, overtaken>>

appVars == <<app, initialFill, drain, adjustments, buffered, audioSeqPopped,
             overtaken>>
workerVars == <<sourceKnown, msPerPacket, worker, pushing, toPrune, copies,
                generated>>

Init ==
  /\ Q = <<>> /\ audioSeqPopped = 0 /\ sourceKnown = FALSE
  /\ msPerPacket = 0 /\ idleClient = TRUE
  /\ worker = "idle" /\ pushing = NoSeq /\ toPrune = 0
  /\ copies = Deliveries
  /\ app = "idle" /\ initialFill = TRUE /\ drain = "normal"
  /\ adjustments = 0 /\ buffered = 0
  /\ metrics = [total |-> 0, totalPopped |-> 0, discarded |-> 0,
                discardedRepeats |-> 0, concealed |-> 0]
  /\ generated = 0 /\ overtaken = FALSE

\* qMutex can be taken: the audio thread is not stuck with it.
QueueUnlocked == app # "stuck"

----------------------------------------------------------------------------
\* The age check of queueAudioFrame, and two faulty variants of it.  The 0
\* that stands for "nothing popped yet" is also the number of the stream's
\* first frame: once that was played the check still lets everything in.
TooOldNever(s) == FALSE
TooOldOffByOne(s) == audioSeqPopped # 0 /\ s < audioSeqPopped
TooOld(s) == audioSeqPopped # 0 /\ s <= audioSeqPopped

\* A packet arrives and is compared with the last one popped; a frame that
\* is too old is dropped, but the rest of push runs for it too.
PushBegin(s) ==
  /\ worker = "idle"
  /\ copies[s] > 0
  /\ copies' = [copies EXCEPT ![s] = @ - 1]
  /\ sourceKnown' = (sourceKnown \/ Q = <<>>)
  /\ IF TooOld(s)
     THEN /\ worker' = "conceal"
          /\ metrics' = [metrics EXCEPT !.discarded = @ + 1]
          /\ UNCHANGED pushing
     ELSE /\ worker' = "queue"
          /\ pushing' = s
          /\ UNCHANGED metrics
  /\ UNCHANGED <<Q, msPerPacket, idleClient, toPrune, generated>>
  /\ UNCHANGED appVars

\* queueAudioFrame under the lock.
PushInsert ==
  /\ worker = "queue" /\ QueueUnlocked
  /\ Q' = QueueAudioFrame(Q, pushing)
  /\ metrics' =
       IF IsRepeat(Q, pushing)
       THEN [metrics EXCEPT !.discardedRepeats = @ + 1]
       ELSE IF IsUpgrade(Q, pushing)
       THEN [metrics EXCEPT !.total = @ + 1, !.concealed = @ - 1]
       ELSE [metrics EXCEPT !.total = @ + 1]
  /\ worker' = "conceal" /\ pushing' = NoSeq
  /\ UNCHANGED <<sourceKnown, msPerPacket, idleClient, toPrune, copies,
                 generated>>
  /\ UNCHANGED appVars

\* insertAudioPLCs; no counter tells of the frames it adds.
Conceal ==
  /\ worker = "conceal" /\ QueueUnlocked
  /\ Q' = ConcealGaps(Q)
  /\ generated' = generated + Len(Q') - Len(Q)
  /\ worker' = "measure"
  /\ UNCHANGED <<sourceKnown, msPerPacket, idleClient, pushing, toPrune,
                 copies, metrics>>
  /\ UNCHANGED appVars

\* LeakyBucket::getRecommendedFillLevel.
RecommendedFill(jitterMs) ==
  Min({Max({TargetFillLevel, jitterMs}), MaxBucketSize})

\* How many frames pruneAudioQueue takes off, and a faulty variant that
\* takes the target in milliseconds for one in frames.
PruneCountInMs(n, jitterMs) ==
  IF n > RecommendedFill(jitterMs) THEN n - RecommendedFill(jitterMs) ELSE 0
PruneCount(n, jitterMs) ==
  LET target == RecommendedFill(jitterMs) \div MsPerPacket
  IN IF n > target THEN n - target ELSE 0

\* updateJitterValues and the look of idleClientPruneAudio at idle_client.
Measure ==
  /\ worker = "measure" /\ QueueUnlocked
  /\ msPerPacket' = MsPerPacket
  /\ worker' = IF idleClient THEN "size" ELSE "idle"
  /\ UNCHANGED <<Q, sourceKnown, idleClient, pushing, toPrune, copies, metrics,
                 generated>>
  /\ UNCHANGED appVars

\* pruneAudioQueue looks at the size of the queue, without the lock.
CountPrunes ==
  /\ worker = "size"
  /\ \E jitterMs \in JitterMs : toPrune' = PruneCount(Len(Q), jitterMs)
  /\ worker' = IF toPrune' > 0 THEN "prune" ELSE "idle"
  /\ UNCHANGED <<Q, sourceKnown, msPerPacket, idleClient, pushing, copies,
                 metrics, generated>>
  /\ UNCHANGED appVars

\* The queue and the metrics after one MetaQueue::pop; a pop of an empty
\* queue returns nothing (the counter of such pops is left out: it grows for
\* ever and nothing reads it).
Popped ==
  IF Q = <<>> THEN UNCHANGED <<Q, metrics>>
  ELSE /\ Q' = Drop(Q, 1)
       /\ metrics' = [metrics EXCEPT !.totalPopped = @ + 1]

\* One pop of pruneAudioQueue: without the lock, and without a trace in Sync.
Prune ==
  /\ worker = "prune"
  /\ Popped
  /\ toPrune' = toPrune - 1
  /\ worker' = IF toPrune' > 0 THEN "prune" ELSE "idle"
  /\ UNCHANGED <<sourceKnown, msPerPacket, idleClient, pushing, copies,
                 generated>>
  /\ UNCHANGED appVars

----------------------------------------------------------------------------
\* LeakyBucket::initialFill: nothing is played before the queue has reached
\* the recommended level once.
Filling(jitterMs) ==
  initialFill /\ Len(Q) * msPerPacket < RecommendedFill(jitterMs)

\* The drain speed tick chooses, and a faulty variant with the signs swapped.
\* The level it compares is in milliseconds already when it is multiplied
\* with the length of a frame once more.
DrainSpeedSwapped(jitterMs) ==
  LET change == Len(Q) * msPerPacket * msPerPacket - RecommendedFill(jitterMs)
  IN IF change > 10 THEN "decreased" ELSE IF change < -10 THEN "increased"
     ELSE "normal"
DrainSpeed(jitterMs) ==
  LET change == Len(Q) * msPerPacket * msPerPacket - RecommendedFill(jitterMs)
  IN IF change > 10 THEN "increased" ELSE IF change < -10 THEN "decreased"
     ELSE "normal"

\* popAudio up to its loop.  For a source not seen yet it returns nothing.
\* QueueMonitor takes the queue's lock, and getMsPerAudioPacket takes it
\* again as long as the length of a packet has not been measured.
PopBegin ==
  /\ app = "idle"
  /\ idleClient' = FALSE
  /\ \/ ~sourceKnown /\ UNCHANGED <<app, initialFill, drain, adjustments>>
     \/ /\ sourceKnown /\ msPerPacket = 0
        /\ app' = "stuck"
        /\ UNCHANGED <<initialFill, drain, adjustments>>
     \/ /\ sourceKnown /\ msPerPacket # 0
        /\ app' = "pop" /\ adjustments' = 1
        /\ \E jitterMs \in JitterMs :
             /\ initialFill' = Filling(jitterMs)
             /\ drain' = IF initialFill' THEN drain ELSE DrainSpeed(jitterMs)
  /\ UNCHANGED <<Q, buffered, audioSeqPopped, overtaken, metrics>>
  /\ UNCHANGED workerVars

\* popVideo, as far as the audio half sees it: the client is not idle any
\* more, although it may never ask for sound.
VideoPopped ==
  /\ idleClient /\ idleClient' = FALSE
  /\ UNCHANGED <<Q, metrics>>
  /\ UNCHANGED workerVars
  /\ UNCHANGED appVars

\* A round ends with one more frame in the playout buffer; the last round
\* hands Length of them to the application (fullFill::fill).
Produce ==
  IF buffered + 1 < Length
  THEN buffered' = buffered + 1 /\ app' = "pop"
  ELSE buffered' = 0 /\ app' = "idle"

\* Still filling: concealment, whatever the queue holds.
PlayFilling ==
  /\ app = "pop"
  /\ \E jitterMs \in JitterMs : Filling(jitterMs)
  /\ Produce
  /\ UNCHANGED <<Q, metrics, initialFill, drain, adjustments, audioSeqPopped,
                 overtaken, idleClient>>
  /\ UNCHANGED workerVars

\* A round of the loop once the queue has filled.
Playing ==
  /\ app = "pop"
  /\ \E jitterMs \in JitterMs : ~Filling(jitterMs)
  /\ initialFill' = FALSE
  /\ UNCHANGED <<drain, idleClient>>
  /\ UNCHANGED workerVars

\* The queue was too short and the signal is silent: stretch the silence.
InsertSilence ==
  /\ Playing
  /\ adjustments > 0 /\ drain = "decreased"
  /\ adjustments' = adjustments - 1
  /\ Produce
  /\ UNCHANGED <<Q, metrics, audioSeqPopped, overtaken>>

\* Nothing to pop: concealment; the faulty variant has none.
PopNothingUnconcealed ==
  /\ Playing
  /\ Q = <<>>
  /\ UNCHANGED <<Q, metrics, adjustments, audioSeqPopped, overtaken, app,
                 buffered>>
PopNothing ==
  /\ Playing
  /\ Q = <<>>
  /\ Produce
  /\ UNCHANGED <<Q, metrics, adjustments, audioSeqPopped, overtaken>>

\* The queue is too long and the signal is silent: throw the frame away and
\* go round again.  The faulty variant does it more than once.
PopDiscardAlways ==
  /\ Playing
  /\ Q # <<>> /\ Popped
  /\ drain = "increased" /\ Len(Q') > Length
  /\ adjustments' = adjustments - 1
  /\ UNCHANGED <<audioSeqPopped, overtaken, app, buffered>>
PopDiscard ==
  /\ Playing
  /\ Q # <<>> /\ Popped
  /\ adjustments > 0 /\ drain = "increased" /\ Len(Q') > Length
  /\ adjustments' = adjustments - 1
  /\ UNCHANGED <<audioSeqPopped, overtaken, app, buffered>>

\* The oldest frame, media or concealment, is played.
PopFrame ==
  /\ Playing
  /\ Q # <<>> /\ Popped
  /\ audioSeqPopped' = Q[1].seq
  /\ overtaken' = (overtaken \/ (pushing # NoSeq /\ pushing <= Q[1].seq))
  /\ Produce
  /\ UNCHANGED adjustments

PopRound ==
  PlayFilling \/ InsertSilence \/ PopNothing \/ PopDiscard \/ PopFrame

WorkerStep == PushInsert \/ Conceal \/ Measure \/ CountPrunes \/ Prune

Next ==
  \/ \E s \in Seqs : PushBegin(s)
  \/ WorkerStep
  \/ PopBegin
  \/ VideoPopped
  \/ PopRound

Spec == Init /\ [][Next]_vars

\* Both threads keep running, and the audio device asks for sound for as
\* long as it is open.
FairSpec ==
  Spec /\ WF_vars(WorkerStep) /\ WF_vars(PopRound) /\ WF_vars(PopBegin)

----------------------------------------------------------------------------
\* The types; a popAudio adjusts the depth of the queue at most once
\* (jitter.cc:214-274).
TypeOK ==
  /\ Q \in Seq(Frame)
  /\ audioSeqPopped \in Seqs
  /\ sourceKnown \in BOOLEAN /\ idleClient \in BOOLEAN
  /\ msPerPacket \in {0, MsPerPacket}
  /\ worker \in {"idle", "queue", "conceal", "measure", "size",
                "prune"}
  /\ pushing \in Seqs \cup {NoSeq}
  /\ toPrune \in Nat
  /\ copies \in [Seqs -> Nat]
  /\ app \in {"idle", "pop", "stuck"}
  /\ initialFill \in BOOLEAN
  /\ drain \in {"normal", "increased", "decreased"}
  /\ adjustments \in {0, 1}
  /\ buffered \in 0..(Length - 1)
  /\ metrics \in [total : Nat, totalPopped : Nat, discarded : Nat,
                  discardedRepeats : Nat, concealed : Int]
  /\ generated \in Nat
  /\ overtaken \in BOOLEAN

\* The queue is in order, and one unbroken run of numbers but between the
\* insertion of a packet and the concealment after it: what the worker fills
\* in stays filled in although pops and prunes go on around it
\* (jitter.cc:586-629, jitter_queues.cc:124-186).
GapsConcealed == Sorted(Q) /\ (worker # "conceal" => Contiguous(Q))

\* Every frame that came in, or was generated and not replaced by media that
\* arrived late, was popped or is still queued (jitter_queues.cc:105-206).
FramesAccounted ==
  metrics.total + generated + metrics.concealed
    = metrics.totalPopped + Len(Q)

\* What is queued is newer than what was played, unless a pop overtook a
\* push between its age check and its lock, or only frame 0 was played
\* (jitter_queues.cc:110-118).
QueueFresh ==
  ~overtaken /\ audioSeqPopped # 0
    => \A i \in 1..Len(Q) : Q[i].seq > audioSeqPopped

\* Without that race the sound never jumps back (jitter.cc:277-283).
NeverBack == [][~overtaken /\ audioSeqPopped' # audioSeqPopped
                  => audioSeqPopped' > audioSeqPopped]_vars

\* While no client pops, the worker leaves no more than the recommended
\* level in the queue (jitter.cc:519-532, 755-770).
IdleBounded ==
  idleClient /\ worker = "idle" => Len(Q) * MsPerPacket <= TargetFillLevel

\* The loop of popAudio ends: every round but one throw-away brings it closer
\* to the length it was asked for (jitter.cc:216-321).
LoopEnds == app = "pop" ~> app = "idle"

\* Once playing has begun, everything that was queued gets played: the fill
\* level control cannot starve the queue (jitter.cc:227-283,
\* playout_leakybucket.cc:93-117).
PlaysOut == ~initialFill ~> Q = <<>>

----------------------------------------------------------------------------
\* "loop to ensure clients asking for variable length data" (jitter.cc:216):
\* a popAudio that began returns.
PopAudioReturns == app # "idle" ~> app = "idle"
=============================================================================
