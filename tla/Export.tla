-------------------------------- MODULE Export --------------------------------
(***************************************************************************)
(* What both exporters of measured points (Metrics and metrics::Metrics)   *)
(* promise: a point that was recorded waits until it leaves, and it leaves *)
(* once - to the server or for nothing.  No point is posted twice, none    *)
(* comes back, and none is made up.                                        *)
(***************************************************************************)
CONSTANT Points

VARIABLES
  waiting, \* recorded, and not yet gone
  stored,  \* on the server
  lost     \* gone for nothing

vars == <<waiting, stored, lost>>

Init ==
  /\ waiting = {}
  /\ stored = {}
  /\ lost = {}

Record(p) ==
  /\ p \notin waiting \cup stored \cup lost
  /\ waiting' = waiting \cup {p}
  /\ UNCHANGED <<stored, lost>>

\* Points that are posted together arrive together or not at all.
Leave(S) ==
  /\ waiting' = waiting \ S
  /\ \/ stored' = stored \cup S /\ UNCHANGED lost
     \/ lost' = lost \cup S /\ UNCHANGED stored

Next ==
  \/ \E p \in Points : Record(p)
  \/ \E S \in SUBSET waiting : Leave(S)

Spec == Init /\ [][Next]_vars
=============================================================================
