--------------------------- MODULE MC_ReceivePath -----------------------------
(* One client that publishes sound and video.                              *)
EXTENDS ReceivePath

CONSTANTS c1, a1, v1

MCClientOf == [s \in {a1, v1} |-> c1]
=============================================================================
