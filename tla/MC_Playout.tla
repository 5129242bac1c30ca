------------------------------ MODULE MC_Playout ------------------------------
(* Two streams of pictures and two of sound of one publisher. *)
EXTENDS Playout, TLC

CONSTANTS v1, v2, a1, a2

\* The streams of a kind are alike.
Alike == Permutations({v1, v2}) \cup Permutations({a1, a2})
=============================================================================
