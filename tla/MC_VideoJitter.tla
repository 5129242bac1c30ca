--------------------------- MODULE MC_VideoJitter ----------------------------
EXTENDS VideoJitter

CONSTANTS
  Repeated,   \* the frames the network may deliver twice
  Lost,       \* the frames it does not deliver
  InTurn      \* those that arrive in the order of their numbers

\* Frame s is captured at time s + 1.
MCRecordTime == [s \in Seqs |-> s + 1]
MCDeliveries ==
  [s \in Seqs |-> IF s \in Repeated THEN 2 ELSE IF s \in Lost THEN 0 ELSE 1]

\* The frames InTurn make a long queue, which the others join at any time.
MCNext ==
  /\ Next
  /\ \A s, t \in InTurn : t < s /\ copies'[s] # copies[s] => copies[t] = 0

MCSpec == Init /\ [][MCNext]_vars /\ Fairness
=============================================================================
