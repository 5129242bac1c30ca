-------------------------------- MODULE Metrics --------------------------------
(***************************************************************************)
(* Metrics (src/metrics.cc): the jitters record points in measurements of  *)
(* theirs, the application calls push, and a detached thread (pusher)      *)
(* posts what the measurements hold.                                       *)
(*                                                                         *)
(* Measurements are registered by name, and a name is registered once.     *)
(* Names are numbers, in the order of std::map.  push sets its signal and  *)
(* notifies without push_mutex, so that the notification may fall between  *)
(* the pusher's test and its sleep.  The destructor is left out: the       *)
(* pusher is never joined and works on after it.                           *)
(***************************************************************************)
EXTENDS Integers, Influx

CONSTANTS
  Recorders,  \* the jitters, each with one measurement
  NameOf,     \* the name a jitter gives its measurement
  MaxPoints,  \* bound: how many points each jitter records
  HasUrl      \* the constructor was given a URL

ASSUME MetricsAssumption ==
  /\ NameOf \in [Recorders -> Nat \ {0}]
  /\ MaxPoints \in [Recorders -> Nat]
  /\ HasUrl \in BOOLEAN

VARIABLES
  made,         \* the jitters that have made their measurement
  measurements, \* measurements: of these jitters; the others' are not in the map
  recorded,     \* how many points each has recorded
  series,       \* time_series of each measurement
  pushSignals,  \* push_signals
  pusherAt,     \* where the pusher is
  cursor,       \* the name its walk has reached
  printError,   \* print_error
  payload       \* the points it is posting

metricsVars ==
  <<made, measurements, recorded, series, pushSignals, pusherAt, cursor, printError, payload>>

MetricsPoints == UNION {{r} \X (1..MaxPoints[r]) : r \in Recorders}

\* With no URL no thread is started.
MetricsInit ==
  /\ made = {}
  /\ measurements = {}
  /\ recorded = [r \in Recorders |-> 0]
  /\ series = [r \in Recorders |-> {}]
  /\ pushSignals = FALSE
  /\ pusherAt = IF HasUrl THEN "test" ELSE "down"
  /\ cursor = 0
  /\ printError = TRUE
  /\ payload = {}

-----------------------------------------------------------------------------
(* The jitters' and the application's threads *)

\* What is in the map once a jitter has put its measurement there: insert
\* leaves another of that name in its place.  The faulty variant replaces it.
SameName(r) == {q \in measurements : NameOf[q] = NameOf[r]}
InsertedReplaces(r) == (measurements \ SameName(r)) \cup {r}
Inserted(r) == IF SameName(r) = {} THEN measurements \cup {r} ELSE measurements

\* Jitter::recordMetrics makes the measurement at the first packet ...
CreateMeasurement(r) ==
  /\ r \notin made
  /\ made' = made \cup {r}
  /\ measurements' = Inserted(r)
  /\ UNCHANGED <<recorded, series, pushSignals, pusherAt, cursor, printError, payload>>

\* ... and records a point at every packet (Measurement::set).
Set(r) ==
  /\ r \in made
  /\ recorded[r] < MaxPoints[r]
  /\ recorded' = [recorded EXCEPT ![r] = @ + 1]
  /\ series' = [series EXCEPT ![r] = @ \cup {<<r, recorded[r] + 1>>}]
  /\ UNCHANGED <<made, measurements, pushSignals, pusherAt, cursor, printError, payload>>

Push ==
  /\ pushSignals' = TRUE
  /\ pusherAt' = IF pusherAt = "asleep" THEN "test" ELSE pusherAt
  /\ UNCHANGED <<made, measurements, recorded, series, cursor, printError, payload>>

-----------------------------------------------------------------------------
(* The pusher *)

\* The predicate of its wait, with push_mutex.
TestSignal ==
  /\ pusherAt = "test"
  /\ pusherAt' = IF pushSignals THEN "awake" ELSE "tested"
  /\ UNCHANGED <<made, measurements, recorded, series, pushSignals, cursor, printError, payload>>

FallAsleep ==
  /\ pusherAt = "tested"
  /\ pusherAt' = "asleep"
  /\ UNCHANGED <<made, measurements, recorded, series, pushSignals, cursor, printError, payload>>

StartWalk ==
  /\ pusherAt = "awake"
  /\ pusherAt' = "walk"
  /\ pushSignals' = FALSE
  /\ cursor' = 0
  /\ printError' = TRUE
  /\ UNCHANGED <<made, measurements, recorded, series, payload>>

Ahead == {r \in measurements : NameOf[r] > cursor}

\* What lineProtocol leaves of a measurement's points: nothing, under the lock
\* that Set takes too.  The faulty variant only copies them.
LeftNothingCleared(r) == series[r]
Left(r) == {}

\* The next measurement of the map.  One that has no points is passed over.
Collect ==
  /\ pusherAt = "walk"
  /\ \E r \in Ahead :
       /\ \A q \in Ahead : NameOf[r] <= NameOf[q]
       /\ cursor' = NameOf[r]
       /\ payload' = series[r]
       /\ series' = [series EXCEPT ![r] = Left(r)]
       /\ pusherAt' = IF series[r] = {} THEN "walk" ELSE "post"
  /\ UNCHANGED <<made, measurements, recorded, pushSignals, printError>>

EndWalk ==
  /\ pusherAt = "walk"
  /\ Ahead = {}
  /\ pusherAt' = "test"
  /\ UNCHANGED <<made, measurements, recorded, series, pushSignals, cursor, printError, payload>>

\* After a post the pusher walks on, or ends for good (shutdown).
AfterPost(next) ==
  /\ pusherAt = "post"
  /\ pusherAt' = next
  /\ payload' = {}
  /\ UNCHANGED <<made, measurements, recorded, series, pushSignals, cursor>>

PostAnswered ==
  /\ AfterPost("walk")
  /\ Answered(payload)
  /\ UNCHANGED printError

PostRefused ==
  /\ AfterPost("down")
  /\ Refused(payload)
  /\ UNCHANGED printError

\* The first failure of a walk is printed and forgiven.
PostFailed ==
  /\ printError
  /\ AfterPost("walk")
  /\ Failed(payload)
  /\ printError' = FALSE

\* A second one falls through to the response code: none is a bad one, and
\* one that came before the connection broke may be a good one.
PostFailedAgain ==
  /\ ~printError
  /\ AfterPost("walk") \/ AfterPost("down")
  /\ Failed(payload)
  /\ UNCHANGED printError

Pusher ==
  \/ (TestSignal \/ FallAsleep \/ StartWalk \/ Collect \/ EndWalk) /\ UNCHANGED serverVars
  \/ PostAnswered
  \/ PostRefused
  \/ PostFailed
  \/ PostFailedAgain

MetricsNext ==
  \/ \E r \in Recorders : (CreateMeasurement(r) \/ Set(r)) /\ UNCHANGED serverVars
  \/ Push /\ UNCHANGED serverVars
  \/ Pusher

\* The points of the jitters that have not left yet.
MetricsWaiting == payload \cup UNION {series[r] : r \in Recorders}
=============================================================================
