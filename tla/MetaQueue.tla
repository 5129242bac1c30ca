------------------------------ MODULE MetaQueue ------------------------------
(***************************************************************************)
(* The reorder buffer of the playout path (MetaQueue, jitter_queues.cc):   *)
(* a list of frames in sequence-number order, fed by the network worker    *)
(* and emptied from the front by the application.  The module holds the    *)
(* operations as operators on a sequence of frames; VideoJitter and        *)
(* AudioJitter own the queues and decide which step runs under the lock.   *)
(*                                                                         *)
(* A frame keeps what the playout logic reads: its sequence number and     *)
(* whether it is media or a generated concealment (MetaFrame::Type; the    *)
(* code never creates a plc_dual frame).                                   *)
(***************************************************************************)
EXTENDS Integers, SequencesExt

Frame == [seq : Nat, type : {"media", "plc_gen"}]

Media(s)   == [seq |-> s, type |-> "media"]
PlcGen(s)  == [seq |-> s, type |-> "plc_gen"]

----------------------------------------------------------------------------
\* The sequence q without its first n frames.
Drop(q, n) == SubSeq(q, n + 1, Len(q))

\* A faulty variant of GoesToBack that lets a repeat of the last frame in.
GoesToBackRepeats(q, s) == q = <<>> \/ s >= q[Len(q)].seq

\* The normal case of both queue operations: the frame goes to the back.
GoesToBack(q, s) == q = <<>> \/ s > q[Len(q)].seq

\* Where the front-to-back scan of an out-of-order frame stops.
FirstNotOlder(q, s) == Min({i \in 1..Len(q) : s <= q[i].seq})

\* The sequence numbers in the queue.
SeqsOf(q) == {q[i].seq : i \in 1..Len(q)}

HoldsSeq(q, s) == \E i \in 1..Len(q) : q[i].seq = s

\* Faulty variants of drainToMax: none at all, and one that drops the newest.
DrainToMaxNever(q, maxSize) == q
DrainToMaxNewest(q, maxSize) ==
  IF Len(q) > maxSize THEN SubSeq(q, 1, maxSize) ELSE q

\* drainToMax: give up the oldest frames of a queue that is too long.
DrainToMax(q, maxSize) ==
  IF Len(q) > maxSize THEN Drop(q, Len(q) - maxSize) ELSE q

\* The list operation of queueVideoFrame for a frame of sequence number s
\* that passed the age check; a frame already held is a discarded repeat.
QueueVideoFrame(q, s, maxSize) ==
  IF GoesToBack(q, s)
  THEN DrainToMax(Append(q, Media(s)), maxSize)
  ELSE LET i == FirstNotOlder(q, s)
       IN IF q[i].seq = s
          THEN q
          ELSE DrainToMax(InsertAt(q, i, Media(s)), maxSize)

\* The list operation of queueAudioFrame: like the video one, unbounded, and
\* media replaces a concealment frame of the same sequence number.
QueueAudioFrame(q, s) ==
  IF GoesToBack(q, s)
  THEN Append(q, Media(s))
  ELSE LET i == FirstNotOlder(q, s)
       IN IF q[i].seq = s
          THEN ReplaceAt(q, i, Media(s))
          ELSE InsertAt(q, i, Media(s))

\* Faulty variants of IsRepeat and IsUpgrade: every frame is taken for new.
IsRepeatNever(q, s) == FALSE
IsUpgradeNever(q, s) == FALSE

\* What happened to a frame handed to the queue, for the metrics.
IsRepeat(q, s)  == \E i \in 1..Len(q) : q[i] = Media(s)
IsUpgrade(q, s) == \E i \in 1..Len(q) : q[i] = PlcGen(s)

\* The number s in a run of frames: the frame of the queue or concealment.
Concealed(q, s) ==
  IF HoldsSeq(q, s) THEN q[FirstNotOlder(q, s)] ELSE PlcGen(s)

\* A faulty variant of ConcealGaps, one frame short at the end of each gap.
ConcealGapsShort(q) ==
  IF q = <<>> THEN q
  ELSE SelectSeq([k \in 1..(q[Len(q)].seq - q[1].seq + 1) |->
                    Concealed(q, q[1].seq + k - 1)],
                 LAMBDA f : HoldsSeq(q, f.seq) \/ ~HoldsSeq(q, f.seq + 1))

\* insertAudioPLCs: the queue (sorted) with every hole between its first and
\* its last frame filled by one concealment frame per missing number.
ConcealGaps(q) ==
  IF q = <<>> THEN q
  ELSE [k \in 1..(q[Len(q)].seq - q[1].seq + 1) |->
          Concealed(q, q[1].seq + k - 1)]

----------------------------------------------------------------------------
\* The order insertAudioPLCs and both pops rely on ("audioQ push ensures
\* sorted queue").
Sorted(q) == \A i, j \in 1..Len(q) : i < j => q[i].seq < q[j].seq

Contiguous(q) == \A i \in 1..(Len(q) - 1) : q[i + 1].seq = q[i].seq + 1
=============================================================================
