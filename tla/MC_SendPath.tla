----------------------------- MODULE MC_SendPath ------------------------------
(* Two microphones, a camera and a stream that is only received.            *)
EXTENDS SendPath, TLC

CONSTANTS a1, a2, v1, r1

\* The microphones are alike.
Microphones == Permutations({a1, a2})
=============================================================================
