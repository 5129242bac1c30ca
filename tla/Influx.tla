-------------------------------- MODULE Influx --------------------------------
(***************************************************************************)
(* The Influx server both exporters post to through libcurl, as far as the *)
(* code sees it (external).                                                *)
(***************************************************************************)
VARIABLES
  stored, \* the points the server has
  lost    \* history: the points that will never get there

serverVars == <<stored, lost>>

Accept(S) ==
  /\ stored' = stored \cup S
  /\ UNCHANGED lost

Lose(S) ==
  /\ lost' = lost \cup S
  /\ UNCHANGED stored

\* An answer the exporters take for success: 2xx.
Answered(S) == Accept(S)

\* Another answer: the server has refused the points.
Refused(S) == Lose(S)

\* curl_easy_perform fails, before or after the server had the points.
Failed(S) == Accept(S) \/ Lose(S)
=============================================================================
