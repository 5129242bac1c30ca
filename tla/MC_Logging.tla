------------------------------ MODULE MC_Logging ------------------------------
(* Two threads; one of them logs a second time. *)
EXTENDS Logging, TLC

CONSTANTS t1, t2

MCMessages == t1 :> 2 @@ t2 :> 1
=============================================================================
