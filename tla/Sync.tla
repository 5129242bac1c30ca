--------------------------------- MODULE Sync --------------------------------
(***************************************************************************)
(* The lip-sync decision (Sync::getVideoAction, playout_sync.cc): what to  *)
(* do with the front of the video queue, given the last video frame and    *)
(* the last audio frame that were played.                                  *)
(*                                                                         *)
(* The code walks the queue with a loop that carries an action and a       *)
(* count.  Every pass that does not leave the loop adds one to the count,  *)
(* so the count at frame i is i - 1, and the action there is the verdict   *)
(* on frame i - 1: the decision is stated here without the loop, for an    *)
(* audio clock that stands still.  VideoJitter has the loop itself, beside *)
(* a clock that moves, and checks that both agree when it does not.        *)
(***************************************************************************)
EXTENDS MetaQueue

CONSTANTS
  MaxSeq,      \* sequence numbers are 0 .. MaxSeq
  IntraSeqs,   \* the sequence numbers of the intra (IDR) frames
  RecordTime   \* the capture time of each frame, from its sequence number

Seqs == 0..MaxSeq

ASSUME SyncAssumption ==
  /\ MaxSeq \in Nat
  /\ IntraSeqs \subseteq Nat
  /\ RecordTime \in [Seqs -> Nat]

\* The initial video_seq_popped (UINT64_MAX in the code), below every number.
NoSeq == -1

\* The frame s at position i continues the frames already shown; the faulty
\* variant overlooks a gap.
InOrderOverGaps(s, i, last) == last # NoSeq /\ s > last
InOrder(s, i, last) == last # NoSeq /\ s = last + i

\* What the walk makes of frame i of queue q.  "wait" and "late" are the two
\* exits of the in-order branch, "idr" is an intra frame that is the first
\* ever or comes out of order.
Verdict(q, i, last, audioTime, audioLate) ==
  LET s == q[i].seq
      inOrder == InOrder(s, i, last)
  IN CASE ~inOrder /\ s \in IntraSeqs                -> "idr"
       [] ~inOrder /\ s \notin IntraSeqs             -> "pop_discard"
       [] inOrder /\ audioTime = 0                   -> "pop_video_only"
       [] inOrder /\ audioTime # 0
                  /\ RecordTime[s] < audioTime       -> "pop"
       [] OTHER -> IF audioLate THEN "late" ELSE "wait"

\* The walk leaves the loop at frame i: by an exit of its branch, or because
\* in-order frames are already chosen and the order breaks.
Leaves(q, i, last, audioTime, audioLate) ==
  LET V(j) == Verdict(q, j, last, audioTime, audioLate)
  IN \/ V(i) \in {"idr", "late", "wait"}
     \/ V(i) = "pop_discard" /\ i > 1 /\ V(i - 1) = "pop"

GetVideoAction(q, last, audioTime, audioLate) ==
  LET V(j) == Verdict(q, j, last, audioTime, audioLate)
      exits == {i \in 1..Len(q) : Leaves(q, i, last, audioTime, audioLate)}
      stop == IF exits = {} THEN Len(q) + 1 ELSE Min(exits)
      \* the action chosen by the frames before the exit
      chosen == IF stop = 1 THEN "hold" ELSE V(stop - 1)
  IN IF exits # {} /\ V(stop) = "late"
     THEN [action |-> "pop_video_only", num |-> stop]
     ELSE IF exits # {} /\ V(stop) = "idr"
                        /\ chosen \notin {"pop", "pop_discard"}
     THEN [action |-> "pop", num |-> stop]
     ELSE [action |-> chosen, num |-> stop - 1]

\* How many frames the pop_video_only loop of popVideo takes from a queue of
\* n frames: its bound size() - 2 is unsigned and read again on every pass,
\* so it wraps around once fewer than two frames are left.
VideoOnlyPops(n) == IF n = 1 THEN 1 ELSE (n - 1) \div 2
=============================================================================
