---------------------------- MODULE TelemetryProofs ----------------------------
(***************************************************************************)
(* What holds of both exporters for any jitters, names, numbers of points  *)
(* and pictures: the types, that they implement Export, and that the       *)
(* forced intra picture comes.                                             *)
(***************************************************************************)
EXTENDS Telemetry, TLAPS

\* Points are where they belong, and the next one of a jitter is a new one.
MetricsInv ==
  /\ \A r, q \in Recorders : r # q => series[r] \cap series[q] = {}
  /\ \A r \in Recorders : payload \cap series[r] = {}
  /\ pusherAt # "post" => payload = {}
  /\ \A r \in Recorders, i \in Nat :
       i > recorded[r] => <<r, i>> \notin MetricsWaiting \cup stored \cup lost

\* The number of the last picture whose time was reported, or could not be.
Reported == IF encoding \in {"report", "add"} THEN encoded - 1 ELSE encoded

\* The same of the encode times.
EncodeInv ==
  /\ encoded <= pictures
  /\ pictures <= MaxPictures
  /\ encoding \in {"report", "add"} => encoded > 0
  /\ encoding \in {"idle", "report"} => fresh = {}
  /\ encoding = "add" => fresh = {<<"EncodeTimeInMs", encoded>>}
  /\ kept \cap collected = {}
  /\ ~hasKept => kept = {} /\ collected = {}
  /\ loopAt = "wait" => collected = {}
  /\ \A i \in Nat :
       i > Reported => <<"EncodeTimeInMs", i>> \notin kept \cup collected \cup stored \cup lost

IInv == TypeOK /\ MetricsInv /\ EncodeInv

\* No point belongs to both exporters.
LEMMA PointsApart == MetricsPoints \cap EncodeTimesPoints = {}
  BY TelemetryAssumption DEF MetricsPoints, EncodeTimesPoints

\* A step of Export in which the points S leave, in terms of the models' state.
Leaves(S) ==
  /\ Waiting' = Waiting \ S
  /\ \/ stored' = stored \cup S /\ lost' = lost
     \/ lost' = lost \cup S /\ stored' = stored

\* Whatever becomes of a post, its points are on the server or lost.
LEMMA PostEnds ==
  ASSUME NEW S, Answered(S) \/ Refused(S) \/ Failed(S) \/ Lose(S)
  PROVE  \/ stored' = stored \cup S /\ lost' = lost
         \/ lost' = lost \cup S /\ stored' = stored
  BY DEF Answered, Refused, Failed, Accept, Lose

\* Initially nothing is recorded.
LEMMA InitInv == Init => IInv /\ Promise!Init
  <1> SUFFICES ASSUME Init PROVE IInv /\ Promise!Init
    OBVIOUS
  <1> USE MetricsAssumption, EncodeTimesAssumption DEF Init, MetricsInit, EncodeTimesInit
  <1>1. TypeOK
    <2>1. /\ series \in [Recorders -> SUBSET MetricsPoints]
          /\ recorded \in [Recorders -> Nat]
      OBVIOUS
    <2>2. pusherAt \in {"test", "tested", "asleep", "awake", "walk", "post", "down"}
      OBVIOUS
    <2>3. sinceIntra \in Nat
      OBVIOUS
    <2> QED
      BY <2>1, <2>2, <2>3 DEF TypeOK
  <1>2. MetricsInv
    BY DEF MetricsInv, MetricsWaiting
  <1>3. EncodeInv
    BY DEF EncodeInv, Reported
  <1>4. Promise!Init
    BY DEF Promise!Init, Waiting, MetricsWaiting, EncodeTimesWaiting
  <1> QED
    BY <1>1, <1>2, <1>3, <1>4 DEF IInv

-----------------------------------------------------------------------------
(* The jitters, the application and the pusher *)

\* What a step of Metrics leaves alone of the encode times.
LEMMA EncodeInvKept ==
  ASSUME TypeOK, EncodeInv, UNCHANGED encodeTimesVars,
         stored' \subseteq stored \cup MetricsPoints, lost' \subseteq lost \cup MetricsPoints
  PROVE  EncodeInv'
  <1>1. \A i \in Nat : <<"EncodeTimeInMs", i>> \notin MetricsPoints
    BY TelemetryAssumption DEF MetricsPoints
  <1>2. Reported' = Reported
    BY DEF encodeTimesVars, encodeVars, libraryVars, Reported
  <1>3. \A i \in Nat :
          i > Reported' => <<"EncodeTimeInMs", i>> \notin (kept \cup collected \cup stored \cup lost)'
    BY <1>1, <1>2 DEF EncodeInv, encodeTimesVars, encodeVars, libraryVars
  <1> QED
    BY <1>3 DEF EncodeInv, encodeTimesVars, encodeVars, libraryVars

\* The step is one that touches no point: nothing of the invariant is disturbed.
LEMMA QuietMetrics ==
  ASSUME MetricsInv, UNCHANGED <<series, payload, recorded, serverVars>>,
         pusherAt' = "post" <=> pusherAt = "post"
  PROVE  MetricsInv' /\ MetricsWaiting' = MetricsWaiting
  BY DEF MetricsInv, MetricsWaiting, serverVars

\* A new point of a jitter is one the exporters have not seen.
LEMMA SetStep ==
  ASSUME IInv, NEW r \in Recorders, Set(r), UNCHANGED encodeTimesVars, UNCHANGED serverVars
  PROVE  TypeOK' /\ MetricsInv' /\ \E p \in MetricsPoints : Promise!Record(p)
  <1> DEFINE p == <<r, recorded[r] + 1>>
  <1> USE DEF IInv
  <1>1. recorded[r] \in Nat /\ recorded[r] + 1 \in 1..MaxPoints[r]
    <2>1. recorded[r] \in Nat /\ MaxPoints[r] \in Nat /\ recorded[r] < MaxPoints[r]
      BY MetricsAssumption DEF TypeOK, Set
    <2> QED
      BY <2>1
  <1>2. p \in MetricsPoints
    BY <1>1 DEF MetricsPoints
  <1>3. p \notin MetricsWaiting \cup stored \cup lost
    BY <1>1 DEF MetricsInv
  <1>4. series' = [series EXCEPT ![r] = @ \cup {p}] /\ series \in [Recorders -> SUBSET MetricsPoints]
    BY DEF Set, TypeOK
  <1>5. \A q \in Recorders : series'[q] = IF q = r THEN series[r] \cup {p} ELSE series[q]
    BY <1>4
  <1>6. series' \in [Recorders -> SUBSET MetricsPoints]
    BY <1>2, <1>4
  <1>7. recorded' \in [Recorders -> Nat]
    BY <1>1 DEF Set, TypeOK
  <1>8. TypeOK'
    BY <1>6, <1>7 DEF TypeOK, Set, encodeTimesVars, encodeVars, libraryVars, serverVars
  <1>9. MetricsWaiting' = MetricsWaiting \cup {p}
    BY <1>5 DEF MetricsWaiting, Set
  <1>10. MetricsInv'
    <2>1. \A a, b \in Recorders : a # b => series'[a] \cap series'[b] = {}
      BY <1>3, <1>5 DEF MetricsInv, MetricsWaiting
    <2>2. \A q \in Recorders : payload' \cap series'[q] = {}
      BY <1>3, <1>5 DEF MetricsInv, MetricsWaiting, Set
    <2>3. \A q \in Recorders : recorded'[q] = IF q = r THEN recorded[r] + 1 ELSE recorded[q]
      BY DEF Set, TypeOK
    <2>4. ASSUME NEW q \in Recorders, NEW i \in Nat, i > recorded'[q]
          PROVE  <<q, i>> \notin (MetricsWaiting \cup stored \cup lost)'
      <3>1. i > recorded[q] /\ <<q, i>> # p
        BY <1>1, <2>3, <2>4 DEF TypeOK
      <3> QED
        BY <1>9, <3>1 DEF MetricsInv, serverVars
    <2> QED
      BY <2>1, <2>2, <2>4 DEF MetricsInv, Set
  <1>11. Promise!Record(p)
    <2>1. p \notin EncodeTimesWaiting
      BY <1>2, PointsApart DEF TypeOK, EncodeTimesWaiting
    <2>2. EncodeTimesWaiting' = EncodeTimesWaiting
      BY DEF EncodeTimesWaiting, encodeTimesVars, libraryVars
    <2> QED
      BY <1>3, <1>9, <2>1, <2>2 DEF Promise!Record, Waiting, serverVars
  <1> QED
    BY <1>2, <1>8, <1>10, <1>11

\* The points of a measurement pass from its series to the payload.
LEMMA CollectStep ==
  ASSUME IInv, Collect, UNCHANGED encodeTimesVars, UNCHANGED serverVars
  PROVE  TypeOK' /\ MetricsInv' /\ MetricsWaiting' = MetricsWaiting
  <1> USE DEF IInv
  <1>1. PICK r \in Ahead :
          /\ cursor' = NameOf[r]
          /\ payload' = series[r]
          /\ series' = [series EXCEPT ![r] = Left(r)]
          /\ pusherAt' = IF series[r] = {} THEN "walk" ELSE "post"
    BY DEF Collect
  <1>2. r \in Recorders /\ NameOf[r] \in Nat
    BY MetricsAssumption DEF Ahead, TypeOK
  <1>3. series' \in [Recorders -> SUBSET MetricsPoints] /\ payload' \subseteq MetricsPoints
    BY <1>1, <1>2 DEF TypeOK, Left
  <1>4. \A q \in Recorders : series'[q] = IF q = r THEN {} ELSE series[q]
    BY <1>1, <1>2 DEF TypeOK, Left
  <1>5. payload = {}
    BY DEF MetricsInv, Collect
  <1>6. TypeOK'
    BY <1>1, <1>2, <1>3 DEF TypeOK, Collect, encodeTimesVars, encodeVars, libraryVars, serverVars
  <1>7. MetricsWaiting' = MetricsWaiting
    BY <1>1, <1>2, <1>4, <1>5 DEF MetricsWaiting
  <1>8. MetricsInv'
    <2>1. \A a, b \in Recorders : a # b => series'[a] \cap series'[b] = {}
      BY <1>4 DEF MetricsInv
    <2>2. \A q \in Recorders : payload' \cap series'[q] = {}
      BY <1>1, <1>2, <1>4 DEF MetricsInv
    <2>3. pusherAt' # "post" => payload' = {}
      BY <1>1
    <2> QED
      BY <1>7, <2>1, <2>2, <2>3 DEF MetricsInv, Collect, serverVars
  <1> QED
    BY <1>6, <1>7, <1>8

\* A post takes its points with it, whatever comes of it.
LEMMA PostStep ==
  ASSUME IInv, UNCHANGED encodeTimesVars, printError' \in BOOLEAN,
         AfterPost("walk") \/ AfterPost("down"),
         Answered(payload) \/ Refused(payload) \/ Failed(payload)
  PROVE  /\ TypeOK' /\ MetricsInv'
         /\ stored' \subseteq stored \cup MetricsPoints
         /\ lost' \subseteq lost \cup MetricsPoints
         /\ \E S \in SUBSET Waiting : Promise!Leave(S)
  <1> USE DEF IInv
  <1>1. \/ stored' = stored \cup payload /\ lost' = lost
        \/ lost' = lost \cup payload /\ stored' = stored
    BY PostEnds
  <1>2. payload \subseteq MetricsPoints /\ payload' = {} /\ UNCHANGED <<series, recorded>>
    BY DEF TypeOK, AfterPost
  <1>3. TypeOK'
    BY <1>1, <1>2 DEF TypeOK, AfterPost, encodeTimesVars, encodeVars, libraryVars
  <1>4. MetricsWaiting' = MetricsWaiting \ payload
    BY <1>2 DEF MetricsWaiting, MetricsInv
  <1>5. MetricsInv'
    <2>1. payload \subseteq MetricsWaiting
      BY DEF MetricsWaiting
    <2>2. \A r \in Recorders, i \in Nat :
            i > recorded[r] => <<r, i>> \notin (MetricsWaiting \cup stored \cup lost)'
      BY <1>1, <1>4, <2>1 DEF MetricsInv
    <2> QED
      BY <1>2, <2>2 DEF MetricsInv
  <1>6. Promise!Leave(payload)
    <2>1. EncodeTimesWaiting' = EncodeTimesWaiting /\ payload \cap EncodeTimesWaiting = {}
      BY <1>2, PointsApart DEF EncodeTimesWaiting, encodeTimesVars, libraryVars, TypeOK
    <2> QED
      BY <1>1, <1>4, <2>1 DEF Promise!Leave, Waiting
  <1>7. payload \in SUBSET Waiting
    BY DEF Waiting, MetricsWaiting
  <1> QED
    BY <1>1, <1>2, <1>3, <1>5, <1>6, <1>7

\* Any step of a jitter, of the application's push and of the pusher.
LEMMA MetricsStep ==
  ASSUME IInv, MetricsNext, UNCHANGED encodeTimesVars
  PROVE  IInv' /\ [Promise!Next]_Promise!vars
  <1> USE DEF IInv
  <1> DEFINE Quiet == MetricsWaiting' = MetricsWaiting /\ UNCHANGED serverVars
  <1> DEFINE Goal == TypeOK' /\ MetricsInv' /\ Quiet
  <1>1. UNCHANGED serverVars => stored' \subseteq stored \cup MetricsPoints /\ lost' \subseteq lost \cup MetricsPoints
    BY DEF serverVars
  <1>2. Quiet => UNCHANGED Promise!vars
    BY DEF Promise!vars, Waiting, EncodeTimesWaiting, encodeTimesVars, libraryVars, serverVars
  <1>3. Goal => IInv' /\ [Promise!Next]_Promise!vars
    BY <1>1, <1>2, EncodeInvKept
  <1>4. ASSUME NEW r \in Recorders, CreateMeasurement(r), UNCHANGED serverVars
        PROVE  Goal
    <2>1. MetricsInv' /\ Quiet
      BY <1>4, QuietMetrics DEF CreateMeasurement
    <2>2. TypeOK'
      BY <1>4 DEF TypeOK, CreateMeasurement, Inserted, encodeTimesVars, encodeVars, libraryVars, serverVars
    <2> QED
      BY <1>4, <2>1, <2>2
  <1>5. ASSUME NEW r \in Recorders, Set(r), UNCHANGED serverVars
        PROVE  IInv' /\ [Promise!Next]_Promise!vars
    BY <1>1, <1>5, SetStep, EncodeInvKept DEF Promise!Next
  <1>6. ASSUME Push \/ TestSignal \/ FallAsleep \/ StartWalk \/ EndWalk, UNCHANGED serverVars
        PROVE  Goal
    <2>1. UNCHANGED <<series, payload, recorded, serverVars>> /\ (pusherAt' = "post" <=> pusherAt = "post")
      BY <1>6 DEF Push, TestSignal, FallAsleep, StartWalk, EndWalk
    <2>2. MetricsInv' /\ Quiet
      BY <1>6, <2>1, QuietMetrics
    <2>3. TypeOK'
      <3> DEFINE Others == UNCHANGED <<encodeVars, libraryVars, environment, stored, lost>>
      <3>0. Others
        BY <1>6 DEF encodeTimesVars, serverVars
      <3>1. CASE Push
        BY <3>0, <3>1 DEF Push, TypeOK, encodeVars, libraryVars
      <3>2. CASE TestSignal \/ FallAsleep
        BY <3>0, <3>2 DEF TestSignal, FallAsleep, TypeOK, encodeVars, libraryVars
      <3>3. CASE EndWalk
        BY <3>0, <3>3 DEF EndWalk, TypeOK, encodeVars, libraryVars
      <3>4. CASE StartWalk
        <4>1. /\ pushSignals' = FALSE /\ printError' = TRUE /\ cursor' = 0 /\ pusherAt' = "walk"
              /\ UNCHANGED <<made, measurements, recorded, series, payload>>
          BY <3>4 DEF StartWalk
        <4> QED
          BY <3>0, <4>1 DEF TypeOK, encodeVars, libraryVars
      <3> QED
        BY <1>6, <3>1, <3>2, <3>3, <3>4
    <2> QED
      BY <2>2, <2>3
  <1>7. ASSUME Collect, UNCHANGED serverVars
        PROVE  Goal
    BY <1>7, CollectStep
  <1>8. ASSUME PostAnswered \/ PostRefused \/ PostFailed \/ PostFailedAgain
        PROVE  IInv' /\ [Promise!Next]_Promise!vars
    <2>1. /\ AfterPost("walk") \/ AfterPost("down")
          /\ Answered(payload) \/ Refused(payload) \/ Failed(payload)
      BY <1>8 DEF PostAnswered, PostRefused, PostFailed, PostFailedAgain
    <2>2. printError' \in BOOLEAN
      BY <1>8 DEF PostAnswered, PostRefused, PostFailed, PostFailedAgain, TypeOK
    <2> QED
      BY <2>1, <2>2, PostStep, EncodeInvKept DEF Promise!Next
  <1> QED
    BY <1>3, <1>4, <1>5, <1>6, <1>7, <1>8 DEF MetricsNext, Pusher

-----------------------------------------------------------------------------
(* The encoders and the library *)

\* What a step of the encode times leaves alone of Metrics.
LEMMA MetricsInvKept ==
  ASSUME MetricsInv, UNCHANGED metricsVars,
         stored' \subseteq stored \cup EncodeTimesPoints, lost' \subseteq lost \cup EncodeTimesPoints
  PROVE  MetricsInv' /\ MetricsWaiting' = MetricsWaiting
  <1>1. MetricsWaiting' = MetricsWaiting
    BY DEF MetricsWaiting, metricsVars
  <1>2. \A r \in Recorders, i \in Nat : <<r, i>> \notin EncodeTimesPoints
    BY TelemetryAssumption DEF EncodeTimesPoints
  <1>3. \A r \in Recorders, i \in Nat :
          i > recorded'[r] => <<r, i>> \notin (MetricsWaiting \cup stored \cup lost)'
    BY <1>1, <1>2 DEF MetricsInv, metricsVars
  <1> QED
    BY <1>1, <1>3 DEF MetricsInv, metricsVars

\* The thread goes on with a picture and touches no point.
LEMMA PictureStep ==
  ASSUME IInv, UNCHANGED <<environment, serverVars>>,
         EncodeNothing \/ EncodePicture \/ EncodeFails \/ ProviderThrows
  PROVE  /\ encoded' \in Nat /\ pictures' \in Nat /\ sinceIntra' \in Nat /\ failed' \in BOOLEAN
         /\ encoding' \in {"idle", "report", "add", "crashed"}
         /\ UNCHANGED libraryVars
         /\ EncodeInv'
  <1> USE EncodeTimesAssumption DEF IInv
  <1>1. /\ encoded' \in Nat /\ pictures' \in Nat /\ failed' \in BOOLEAN
        /\ encoding' \in {"idle", "report"}
        /\ encoding \in {"idle", "report"}
        /\ UNCHANGED libraryVars
        /\ encoded' <= pictures' /\ pictures' <= MaxPictures
        /\ encoding' = "report" => encoded' > 0
        /\ Reported' >= Reported
    <2> USE DEF TypeOK, EncodeInv, Reported
    <2>1. CASE EncodeNothing
      BY <2>1 DEF EncodeNothing, AfterNothing
    <2>2. CASE EncodePicture
      BY <2>2 DEF EncodePicture
    <2>3. CASE EncodeFails
      BY <2>3 DEF EncodeFails
    <2>4. CASE ProviderThrows
      BY <2>4 DEF ProviderThrows
    <2> QED
      BY <2>1, <2>2, <2>3, <2>4
  <1>2. sinceIntra' \in Nat
    BY DEF TypeOK, EncodeNothing, EncodePicture, EncodeFails, ProviderThrows
  <1>3. Reported \in Int /\ Reported' \in Int
    BY <1>1 DEF Reported, TypeOK
  <1>4. \A i \in Nat :
          i > Reported' => <<"EncodeTimeInMs", i>> \notin (kept \cup collected \cup stored \cup lost)'
    BY <1>1, <1>3 DEF EncodeInv, libraryVars, serverVars
  <1>5. EncodeInv'
    BY <1>1, <1>4 DEF EncodeInv, libraryVars
  <1> QED
    BY <1>1, <1>2, <1>5

\* The point of a picture's encode time is a new one.
LEMMA ReportStep ==
  ASSUME IInv, Report, UNCHANGED <<environment, serverVars, metricsVars>>
  PROVE  TypeOK' /\ EncodeInv' /\ \E p \in EncodeTimesPoints : Promise!Record(p)
  <1> DEFINE p == <<"EncodeTimeInMs", encoded>>
  <1> USE DEF IInv
  <1>1. /\ encoding = "report" /\ encoding' = "add" /\ fresh = {} /\ fresh' = {p}
        /\ provider' \in BOOLEAN
        /\ UNCHANGED <<encoded, pictures, sinceIntra, failed, kept, hasKept, loopAt, collected>>
    BY DEF Report, NewSeries, EncodeInv
  <1>2. encoded \in 1..MaxPictures
    BY <1>1, EncodeTimesAssumption DEF EncodeInv, TypeOK
  <1>3. p \in EncodeTimesPoints
    BY <1>2 DEF EncodeTimesPoints
  <1>4. Reported' = Reported /\ Reported = encoded - 1
    BY <1>1 DEF Reported
  <1>5. p \notin EncodeTimesWaiting \cup stored \cup lost
    BY <1>1, <1>2, <1>4 DEF EncodeInv, EncodeTimesWaiting
  <1>6. TypeOK'
    BY <1>1, <1>3 DEF TypeOK, serverVars, metricsVars
  <1>7. EncodeInv'
    BY <1>1, <1>2, <1>4 DEF EncodeInv, serverVars
  <1>8. Promise!Record(p)
    <2>1. MetricsWaiting' = MetricsWaiting
      BY DEF MetricsWaiting, metricsVars
    <2>2. MetricsWaiting \subseteq MetricsPoints
      BY DEF MetricsWaiting, TypeOK
    <2>3. EncodeTimesWaiting' = EncodeTimesWaiting \cup {p}
      BY <1>1 DEF EncodeTimesWaiting
    <2>4. p \notin MetricsWaiting
      BY <1>3, <2>2, PointsApart
    <2> QED
      BY <1>5, <2>1, <2>3, <2>4 DEF Promise!Record, Waiting, serverVars
  <1> QED
    BY <1>3, <1>6, <1>7, <1>8

\* A reported point is kept, dropped with its measurement, or left where it
\* is by the end of the program.
LEMMA AddStep ==
  ASSUME IInv, AddFirst \/ AddAnother \/ AddNowhere, UNCHANGED <<environment, metricsVars>>
  PROVE  /\ TypeOK' /\ EncodeInv'
         /\ stored' = stored /\ lost' \subseteq lost \cup EncodeTimesPoints
         /\ \/ UNCHANGED serverVars /\ EncodeTimesWaiting' = EncodeTimesWaiting
            \/ Lose(fresh) /\ EncodeTimesWaiting' = EncodeTimesWaiting \ fresh
  <1> USE DEF IInv
  <1>1. encoding = "add" /\ fresh = {<<"EncodeTimeInMs", encoded>>} /\ Reported = encoded - 1 /\ encoded \in Nat
    BY DEF AddFirst, AddAnother, AddNowhere, EncodeInv, Reported, TypeOK
  <1>2. UNCHANGED <<encoded, pictures, sinceIntra, failed, provider, loopAt, collected>>
    BY DEF AddFirst, AddAnother, AddNowhere, libraryVars
  <1>3. encoding' \in {"idle", "crashed"} /\ Reported' = encoded
    BY <1>2 DEF AddFirst, AddAnother, AddNowhere, Reported
  <1>4. fresh \subseteq EncodeTimesPoints
    BY DEF TypeOK
  <1>5. CASE AddFirst
    <2>1. kept = {} /\ collected = {}
      BY <1>5 DEF AddFirst, EncodeInv
    <2>2. fresh' = {} /\ kept' = fresh /\ hasKept' = TRUE /\ UNCHANGED <<stored, lost>>
      BY <1>5 DEF AddFirst, serverVars
    <2>3. TypeOK'
      BY <1>2, <1>3, <1>4, <2>2 DEF TypeOK, metricsVars
    <2>4. EncodeInv'
      <3>1. \A i \in Nat : i > Reported' =>
              <<"EncodeTimeInMs", i>> \notin (kept \cup collected \cup stored \cup lost)'
        BY <1>1, <1>2, <1>3, <2>1, <2>2 DEF EncodeInv
      <3> QED
        BY <1>1, <1>2, <1>3, <2>1, <2>2, <3>1 DEF EncodeInv
    <2>5. EncodeTimesWaiting' = EncodeTimesWaiting
      BY <1>2, <2>1, <2>2 DEF EncodeTimesWaiting
    <2> QED
      BY <2>2, <2>3, <2>4, <2>5 DEF serverVars
  <1>6. CASE AddAnother
    <2>1. fresh' = {} /\ UNCHANGED <<kept, hasKept, stored>> /\ lost' = lost \cup fresh
      BY <1>6 DEF AddAnother, Lose
    <2>2. fresh \cap (kept \cup collected) = {}
      BY <1>1 DEF EncodeInv
    <2>3. TypeOK'
      BY <1>2, <1>3, <1>4, <2>1 DEF TypeOK, metricsVars
    <2>4. EncodeInv'
      <3>1. \A i \in Nat : i > Reported' =>
              <<"EncodeTimeInMs", i>> \notin (kept \cup collected \cup stored \cup lost)'
        BY <1>1, <1>2, <1>3, <2>1 DEF EncodeInv
      <3> QED
        BY <1>1, <1>2, <1>3, <2>1, <3>1 DEF EncodeInv
    <2>5. EncodeTimesWaiting' = EncodeTimesWaiting \ fresh
      BY <1>2, <2>1, <2>2 DEF EncodeTimesWaiting
    <2> QED
      BY <1>4, <1>6, <2>1, <2>3, <2>4, <2>5 DEF AddAnother
  <1>7. CASE AddNowhere
    <2>1. UNCHANGED <<fresh, kept, hasKept, stored, lost>> /\ encoding' = "crashed"
      BY <1>7 DEF AddNowhere, libraryVars, serverVars
    <2>2. TypeOK'
      BY <1>2, <2>1 DEF TypeOK, metricsVars
    <2>3. EncodeInv'
      <3>1. \A i \in Nat : i > Reported' =>
              <<"EncodeTimeInMs", i>> \notin (kept \cup collected \cup stored \cup lost)'
        BY <1>1, <1>2, <1>3, <2>1 DEF EncodeInv
      <3> QED
        BY <1>2, <2>1, <3>1 DEF EncodeInv
    <2> QED
      BY <1>2, <2>1, <2>2, <2>3 DEF EncodeTimesWaiting, serverVars
  <1> QED
    BY <1>5, <1>6, <1>7

\* The library's thread takes the kept points out, and they leave.
LEMMA PushLoopStep ==
  ASSUME IInv, encoding # "crashed", PushLoop, UNCHANGED <<environment, metricsVars>>
  PROVE  /\ TypeOK' /\ EncodeInv'
         /\ \/ UNCHANGED serverVars /\ EncodeTimesWaiting' = EncodeTimesWaiting
            \/ /\ EncodeTimesWaiting' = EncodeTimesWaiting \ collected
               /\ \/ stored' = stored \cup collected /\ lost' = lost
                  \/ lost' = lost \cup collected /\ stored' = stored
  <1> USE DEF IInv
  <1>1. UNCHANGED <<encoding, encoded, pictures, sinceIntra, failed, provider, fresh, hasKept>>
    BY DEF PushLoop, EmitMetrics, SendMetrics, encodeVars
  <1>2. Reported' = Reported
    BY <1>1 DEF Reported
  <1>3. CASE EmitMetrics
    <2>1. /\ collected = {} /\ collected' = kept /\ kept' = {} /\ loopAt' = "send"
          /\ UNCHANGED <<stored, lost>>
      BY <1>3 DEF EmitMetrics, EncodeInv, SeriesSerialized, serverVars
    <2>2. TypeOK'
      BY <1>1, <2>1 DEF TypeOK, metricsVars
    <2>3. EncodeInv'
      BY <1>1, <1>2, <2>1 DEF EncodeInv
    <2> QED
      BY <1>1, <2>1, <2>2, <2>3 DEF EncodeTimesWaiting, serverVars
  <1>4. CASE SendMetrics
    <2>1. collected' = {} /\ UNCHANGED kept /\ loopAt' = "wait"
      BY <1>4 DEF SendMetrics
    <2>2. \/ stored' = stored \cup collected /\ lost' = lost
          \/ lost' = lost \cup collected /\ stored' = stored
      BY <1>4, PostEnds DEF SendMetrics
    <2>3. collected \cap kept = {}
      BY DEF EncodeInv
    <2>4. collected \cap fresh = {}
      <3>1. CASE encoding = "add"
        BY <3>1 DEF EncodeInv, Reported, TypeOK
      <3>2. CASE encoding # "add"
        BY <3>2 DEF EncodeInv, TypeOK
      <3> QED
        BY <3>1, <3>2
    <2>5. TypeOK'
      BY <1>1, <2>1, <2>2 DEF TypeOK, metricsVars
    <2>6. EncodeInv'
      <3>1. \A i \in Nat : i > Reported' =>
              <<"EncodeTimeInMs", i>> \notin (kept \cup collected \cup stored \cup lost)'
        BY <1>2, <2>1, <2>2 DEF EncodeInv
      <3> QED
        BY <1>1, <2>1, <3>1 DEF EncodeInv
    <2>7. EncodeTimesWaiting' = EncodeTimesWaiting \ collected
      BY <1>1, <2>1, <2>3, <2>4 DEF EncodeTimesWaiting
    <2> QED
      BY <2>2, <2>5, <2>6, <2>7
  <1> QED
    BY <1>3, <1>4 DEF PushLoop

\* Any step of the application's encoding thread and of the library's.
LEMMA EncodeTimesStep ==
  ASSUME IInv, encoding # "crashed", EncodeTimesNext, UNCHANGED metricsVars
  PROVE  IInv' /\ [Promise!Next]_Promise!vars
  <1> USE DEF IInv
  <1> DEFINE Stutters == UNCHANGED serverVars /\ EncodeTimesWaiting' = EncodeTimesWaiting
  <1> DEFINE Loses(S) ==
        /\ EncodeTimesWaiting' = EncodeTimesWaiting \ S
        /\ \/ stored' = stored \cup S /\ lost' = lost
           \/ lost' = lost \cup S /\ stored' = stored
  <1>1. UNCHANGED environment
    BY DEF EncodeTimesNext
  <1>2. fresh \subseteq EncodeTimesPoints /\ collected \subseteq EncodeTimesPoints
    BY DEF TypeOK
  <1>3. MetricsWaiting' = MetricsWaiting
    BY DEF MetricsWaiting, metricsVars
  <1>4. ASSUME TypeOK', EncodeInv', Stutters
        PROVE  IInv' /\ [Promise!Next]_Promise!vars
    <2>1. MetricsInv'
      BY <1>4, MetricsInvKept DEF serverVars
    <2>2. UNCHANGED Promise!vars
      BY <1>3, <1>4 DEF Promise!vars, Waiting, serverVars
    <2> QED
      BY <1>4, <2>1, <2>2
  <1>5. ASSUME TypeOK', EncodeInv', NEW S \in SUBSET EncodeTimesWaiting, Loses(S)
        PROVE  IInv' /\ [Promise!Next]_Promise!vars
    <2>1. S \subseteq EncodeTimesPoints
      BY DEF EncodeTimesWaiting, TypeOK
    <2>2. MetricsInv'
      BY <1>5, <2>1, MetricsInvKept
    <2>3. S \cap MetricsWaiting = {}
      BY <2>1, PointsApart DEF MetricsWaiting, TypeOK
    <2>4. Promise!Leave(S)
      BY <1>3, <1>5, <2>3 DEF Promise!Leave, Waiting
    <2>5. S \in SUBSET Waiting
      BY DEF Waiting
    <2> QED
      BY <1>5, <2>2, <2>4, <2>5 DEF Promise!Next
  <1>6. ASSUME EncodeNothing \/ EncodePicture \/ EncodeFails \/ ProviderThrows, UNCHANGED serverVars
        PROVE  IInv' /\ [Promise!Next]_Promise!vars
    <2>1. /\ encoded' \in Nat /\ pictures' \in Nat /\ sinceIntra' \in Nat /\ failed' \in BOOLEAN
          /\ encoding' \in {"idle", "report", "add", "crashed"}
          /\ UNCHANGED libraryVars
          /\ EncodeInv'
      BY <1>1, <1>6, PictureStep
    <2>2. TypeOK'
      BY <1>1, <1>6, <2>1 DEF TypeOK, libraryVars, metricsVars, serverVars
    <2>3. EncodeTimesWaiting' = EncodeTimesWaiting
      BY <2>1 DEF EncodeTimesWaiting, libraryVars
    <2> QED
      BY <1>4, <1>6, <2>1, <2>2, <2>3
  <1>7. ASSUME Report, UNCHANGED serverVars
        PROVE  IInv' /\ [Promise!Next]_Promise!vars
    <2>1. TypeOK' /\ EncodeInv' /\ \E p \in EncodeTimesPoints : Promise!Record(p)
      BY <1>1, <1>7, ReportStep
    <2>2. MetricsInv'
      BY <1>7, MetricsInvKept DEF serverVars
    <2> QED
      BY <2>1, <2>2 DEF Promise!Next
  <1>8. ASSUME AddFirst \/ AddAnother \/ AddNowhere
        PROVE  IInv' /\ [Promise!Next]_Promise!vars
    <2>1. TypeOK' /\ EncodeInv' /\ (Stutters \/ Loses(fresh))
      BY <1>1, <1>8, AddStep DEF Lose
    <2>2. fresh \in SUBSET EncodeTimesWaiting
      BY DEF EncodeTimesWaiting
    <2> QED
      BY <1>4, <1>5, <2>1, <2>2
  <1>9. ASSUME PushLoop
        PROVE  IInv' /\ [Promise!Next]_Promise!vars
    <2>1. TypeOK' /\ EncodeInv' /\ (Stutters \/ Loses(collected))
      BY <1>1, <1>9, PushLoopStep
    <2>2. collected \in SUBSET EncodeTimesWaiting
      BY DEF EncodeTimesWaiting
    <2> QED
      BY <1>4, <1>5, <2>1, <2>2
  <1> QED
    BY <1>6, <1>7, <1>8, <1>9 DEF EncodeTimesNext, Encode

\* No step breaks the invariant, and each is one of Export or changes nothing
\* of it.
LEMMA StepInv == IInv /\ [Next]_vars => IInv' /\ [Promise!Next]_Promise!vars
  <1> SUFFICES ASSUME IInv, [Next]_vars
               PROVE  IInv' /\ [Promise!Next]_Promise!vars
    OBVIOUS
  <1>1. CASE Running /\ MetricsNext /\ UNCHANGED encodeTimesVars
    BY <1>1, MetricsStep
  <1>2. CASE Running /\ EncodeTimesNext /\ UNCHANGED metricsVars
    BY <1>2, EncodeTimesStep DEF Running
  <1>3. CASE UNCHANGED vars
    <2>1. UNCHANGED <<metricsVars, encodeTimesVars, serverVars>>
      BY <1>3 DEF vars
    <2>2. TypeOK'
      BY <2>1 DEF IInv, TypeOK, metricsVars, encodeTimesVars, encodeVars, libraryVars, serverVars
    <2>3. MetricsInv' /\ EncodeInv'
      BY <2>1, MetricsInvKept, EncodeInvKept DEF IInv, serverVars
    <2>4. UNCHANGED Promise!vars
      BY <2>1 DEF Promise!vars, Waiting, MetricsWaiting, EncodeTimesWaiting,
                  metricsVars, encodeTimesVars, libraryVars, serverVars
    <2> QED
      BY <2>2, <2>3, <2>4 DEF IInv
  <1> QED
    BY <1>1, <1>2, <1>3 DEF Next

\* Every variable has its type in every state.
THEOREM TypeCorrect == Spec => []TypeOK
  <1>1. IInv => TypeOK
    BY DEF IInv
  <1> QED
    BY <1>1, InitInv, StepInv, PTL DEF Spec

\* Metrics and lib/metrics, each with its own thread and a server that may
\* refuse or fail at any time, keep the promise of Export: a point leaves at
\* most once, and none comes back (metrics.cc:97-132, lib/metrics metrics.cc:55-122).
THEOREM ExportersKeepPromise == Spec => IsExport
  BY InitInv, StepInv, PTL DEF Spec, IsExport, Promise!Spec

-----------------------------------------------------------------------------
(* The forced intra picture *)

\* Products with an integer, as the division needs them.
LEMMA Product ==
  ASSUME NEW p \in Nat, p > 0, NEW k \in Int, NEW m \in Int
  PROVE  /\ p * k \in Int
         /\ p * (k + m) = p * k + p * m
         /\ k >= 1 => p * k >= p
         /\ k <= -1 => p * k <= -p
  OBVIOUS

\* Quotient and remainder.
LEMMA Division ==
  ASSUME NEW p \in Nat, p > 0, NEW x \in Int
  PROVE  /\ x \div p \in Int /\ x % p \in 0..(p - 1)
         /\ x = p * (x \div p) + (x % p)
  OBVIOUS

\* The remainder is what is left of a multiple.
LEMMA RemainderUnique ==
  ASSUME NEW p \in Nat, p > 0, NEW x \in Int, NEW k \in Int,
         NEW r \in 0..(p - 1), x = p * k + r
  PROVE  x % p = r
<1> DEFINE q == x \div p
           s == x % p
<1>1. q \in Int /\ s \in 0..(p - 1) /\ x = p * q + s
  BY Division
<1> HIDE DEF q, s
<1> DEFINE d == q + (0 - k)
<1>2. d \in Int /\ q = k + d
  BY <1>1
<1>3. p * q = p * k + p * d /\ p * k \in Int /\ p * d \in Int
  BY <1>2, Product
<1>4. p * d = r - s
  BY <1>1, <1>3
<1>5. /\ d >= 1 => p * d >= p
      /\ d <= -1 => p * d <= -p
  BY <1>2, Product
<1>6. d = 0
  BY <1>1, <1>2, <1>4, <1>5
<1>7. p * d = 0
  BY <1>6
<1>8. s = r
  BY <1>1, <1>4, <1>7
<1> QED
  BY <1>8 DEF s

\* The next count is one further in the period, or begins a new one.
LEMMA NextInPeriod ==
  ASSUME NEW p \in Nat, p > 0, NEW n \in Nat
  PROVE  /\ n % p \in 0..(p - 1) /\ (n + 1) % p \in 0..(p - 1)
         /\ (n + 1) % p # 0 => (n + 1) % p = (n % p) + 1
<1> DEFINE q == n \div p
           r == n % p
<1>1. q \in Int /\ r \in 0..(p - 1) /\ n = p * q + r
  BY Division
<1>2. (n + 1) % p \in 0..(p - 1)
  BY Division
<1> HIDE DEF q, r
<1>3. CASE r + 1 < p
  <2>1. r + 1 \in 0..(p - 1) /\ n + 1 \in Int
    BY <1>1, <1>3
  <2>2. n + 1 = p * q + (r + 1)
    <3>1. p * q \in Int
      BY <1>1, Product
    <3> QED
      BY <1>1, <3>1
  <2>3. (n + 1) % p = r + 1
    BY <1>1, <2>1, <2>2, RemainderUnique
  <2> QED
    BY <1>1, <1>2, <2>3 DEF r
<1>4. CASE ~ (r + 1 < p)
  <2>1. r + 1 = p /\ 0 \in 0..(p - 1) /\ n + 1 \in Int /\ q + 1 \in Int
    BY <1>1, <1>4
  <2>2. n + 1 = p * (q + 1) + 0
    <3>1. p * q \in Int /\ p * 1 = p /\ p * (q + 1) = p * q + p * 1
      BY <1>1, Product
    <3> QED
      BY <1>1, <2>1, <3>1
  <2>3. (n + 1) % p = 0
    BY <2>1, <2>2, RemainderUnique
  <2> QED
    BY <1>1, <1>2, <2>3 DEF r
<1> QED
  BY <1>3, <1>4

\* In a period that is not over there were fewer pictures since an intra one
\* than since its beginning.
IntraInv ==
  /\ encoded \in Nat
  /\ sinceIntra \in Nat
  /\ ~failed => /\ sinceIntra < IntraPeriod
                /\ encoded % IntraPeriod # 0 =>
                     sinceIntra < encoded % IntraPeriod

\* Only encode counts, and it forces an intra picture when a period begins.
LEMMA IntraStep == IntraInv /\ [Next]_vars => IntraInv'
  <1> SUFFICES ASSUME IntraInv, [Next]_vars
               PROVE  IntraInv'
    OBVIOUS
  <1>1. CASE UNCHANGED <<encoded, sinceIntra, failed>>
    BY <1>1 DEF IntraInv
  <1>2. CASE EncodePicture
    <2>1. encoded' = encoded + 1 /\ UNCHANGED failed
      BY <1>2 DEF EncodePicture
    <2>2. encoded % IntraPeriod = 0 => sinceIntra' = 0
      BY <1>2 DEF EncodePicture, Types, Forces
    <2>3. sinceIntra' \in {0, sinceIntra + 1}
      BY <1>2 DEF EncodePicture
    <2> DEFINE c == encoded % IntraPeriod
               d == encoded' % IntraPeriod
    <2>4. /\ IntraPeriod \in Nat /\ IntraPeriod > 0
          /\ c \in 0..(IntraPeriod - 1) /\ d \in 0..(IntraPeriod - 1)
          /\ d # 0 => d = c + 1
      <3>1. IntraPeriod \in Nat /\ IntraPeriod > 0 /\ encoded \in Nat
        BY EncodeTimesAssumption DEF IntraInv
      <3> QED
        BY <2>1, <3>1, NextInPeriod
    <2>5. /\ encoded \in Nat /\ sinceIntra \in Nat
          /\ ~failed => /\ sinceIntra < IntraPeriod
                        /\ c # 0 => sinceIntra < c
      BY DEF IntraInv
    <2>6. c = 0 => sinceIntra' = 0
      BY <2>2
    <2> HIDE DEF c, d
    <2>7. /\ encoded' \in Nat /\ sinceIntra' \in Nat
          /\ ~failed' => /\ sinceIntra' < IntraPeriod
                         /\ d # 0 => sinceIntra' < d
      BY <2>1, <2>3, <2>4, <2>5, <2>6
    <2> QED
      BY <2>7 DEF IntraInv, d
  <1>3. CASE EncodeFails
    BY <1>3 DEF EncodeFails, IntraInv
  <1> QED
    <2>1. Next => \/ UNCHANGED <<encoded, sinceIntra, failed>>
                 \/ EncodePicture
                 \/ EncodeFails
      BY DEF Next, EncodeTimesNext, Encode, PushLoop, encodeTimesVars, encodeVars,
             EncodeNothing, AfterNothing, Report, ProviderThrows, AddFirst, AddAnother,
             AddNowhere, EmitMetrics, SendMetrics
    <2>2. UNCHANGED vars => UNCHANGED <<encoded, sinceIntra, failed>>
      BY DEF vars, encodeTimesVars, encodeVars
    <2> QED
      BY <1>1, <1>2, <1>3, <2>1, <2>2

\* For any period, 64 in the code, and any number of pictures: skipped
\* pictures do not use up the forced intra picture (h264_encoder.cc:210-265).
THEOREM IntraPictureComes == Spec => []IntraComes
  <1>1. Init => IntraInv
    BY EncodeTimesAssumption DEF Init, EncodeTimesInit, IntraInv
  <1>2. IntraInv => IntraComes
    BY DEF IntraInv, IntraComes
  <1> QED
    BY <1>1, <1>2, IntraStep, PTL DEF Spec
================================================================================
