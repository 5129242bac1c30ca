----------------------------- MODULE MC_Telemetry -----------------------------
(* Three jitters, two of them with a measurement of the same name. *)
EXTENDS Telemetry, TLC

CONSTANTS j1, j2, j3

MCNames == j1 :> 1 @@ j2 :> 1 @@ j3 :> 2
MCPoints == j1 :> 1 @@ j2 :> 0 @@ j3 :> 1
=============================================================================
