--------------------------- MODULE MC_AudioJitter ----------------------------
EXTENDS AudioJitter

CONSTANT Repeated   \* the frames the network may deliver twice

MCDeliveries == [s \in Seqs |-> IF s \in Repeated THEN 2 ELSE 1]
=============================================================================
