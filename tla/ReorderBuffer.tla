---------------------------- MODULE ReorderBuffer ----------------------------
(***************************************************************************)
(* What a playout queue promises to the code around it, without saying how *)
(* it keeps its frames: it holds each sequence number at most once and no  *)
(* more than Capacity of them, new numbers come in one at a time in any    *)
(* order, and what leaves is always the oldest of what is held, whether it *)
(* is played, discarded by the sync logic or drained on overflow.          *)
(***************************************************************************)
EXTENDS Integers, FiniteSets

CONSTANTS
  Numbers,    \* the sequence numbers there are, a set of naturals
  Capacity    \* the most frames the buffer keeps, at least one

VARIABLE held       \* the sequence numbers in the buffer

\* What the oldest of S may be: the numbers below one of them, or all.
OldestParts(S) == {{r \in S : r < k} : k \in S} \cup {S}

Init == held = {}

\* A number comes in; on overflow the oldest go.
Put ==
  \E s \in Numbers \ held : \E R \in OldestParts(held \cup {s}) :
    /\ R # {} => Cardinality(held) >= Capacity
    /\ held' = (held \cup {s}) \ R

\* The oldest are taken out.
Take ==
  \E R \in OldestParts(held) : held' = held \ R

Next == Put \/ Take

Spec == Init /\ [][Next]_held
=============================================================================
