------------------------------- MODULE Telemetry -------------------------------
(***************************************************************************)
(* Both exporters of a client beside each other: Metrics for the jitters,  *)
(* lib/metrics for the encode times, and the server they post to.          *)
(***************************************************************************)
EXTENDS Metrics, EncodeTimes

\* A jitter's points are not taken for encode times.
ASSUME TelemetryAssumption == "EncodeTimeInMs" \notin Recorders

vars == <<metricsVars, encodeTimesVars, serverVars>>

Init ==
  /\ stored = {}
  /\ lost = {}
  /\ MetricsInit
  /\ EncodeTimesInit

Running == encoding # "crashed"

Next ==
  \/ Running /\ MetricsNext /\ UNCHANGED encodeTimesVars
  \/ Running /\ EncodeTimesNext /\ UNCHANGED metricsVars

Spec == Init /\ [][Next]_vars

\* The pusher keeps running, posts end, and the application pushes again and
\* again: a notification that was lost is made up for by the next.
FairSpec ==
  /\ Spec
  /\ WF_vars(Running /\ Pusher /\ UNCHANGED <<made, measurements, recorded, encodeTimesVars>>)
  /\ WF_vars(Running /\ Push /\ UNCHANGED <<serverVars, encodeTimesVars>>)

-----------------------------------------------------------------------------
(* Properties *)

Waiting == MetricsWaiting \cup EncodeTimesWaiting

\* Each variable has its type.
TypeOK ==
  /\ made \subseteq Recorders
  /\ measurements \subseteq made
  /\ recorded \in [Recorders -> Nat]
  /\ series \in [Recorders -> SUBSET MetricsPoints]
  /\ pushSignals \in BOOLEAN
  /\ pusherAt \in {"test", "tested", "asleep", "awake", "walk", "post", "down"}
  /\ cursor \in Nat
  /\ printError \in BOOLEAN
  /\ payload \subseteq MetricsPoints
  /\ environment \in Environments
  /\ encoding \in {"idle", "report", "add", "crashed"}
  /\ encoded \in Nat
  /\ pictures \in Nat
  /\ sinceIntra \in Nat
  /\ failed \in BOOLEAN
  /\ provider \in BOOLEAN
  /\ fresh \subseteq EncodeTimesPoints
  /\ kept \subseteq EncodeTimesPoints
  /\ hasKept \in BOOLEAN
  /\ loopAt \in {"wait", "send"}
  /\ collected \subseteq EncodeTimesPoints
  /\ stored \subseteq MetricsPoints \cup EncodeTimesPoints
  /\ lost \subseteq MetricsPoints \cup EncodeTimesPoints

\* Both exporters keep the promise of Export: whatever fails and whenever the
\* series are emptied, a point goes out at most once, and none that was given
\* up or refused comes back (metrics.cc:97-132, lib/metrics metrics.cc:55-122).
Promise == INSTANCE Export WITH
  Points <- MetricsPoints \cup EncodeTimesPoints, waiting <- Waiting
IsExport == Promise!Spec

\* What a registered measurement holds leaves it, under pushes that may lose
\* their notification and posts that may fail, as long as the pusher is not
\* down (metrics.cc:84-141).
PointsLeave ==
  \A r \in Recorders :
    (r \in measurements /\ series[r] # {})
      ~> (series[r] = {} \/ pusherAt = "down" \/ ~Running)

\* A picture that is skipped does not use up the forced intra picture: of
\* the pictures encoded, those of all streams together, every IntraPeriod-th
\* is intra as long as the library does not fail (h264_encoder.cc:210-265).
IntraComes == ~failed => sinceIntra < IntraPeriod
=============================================================================
