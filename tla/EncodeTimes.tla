------------------------------ MODULE EncodeTimes ------------------------------
(***************************************************************************)
(* H264Encoder::encode, and the encode time it reports for every picture:  *)
(* MetricsReporter::Report and the library lib/metrics, whose own thread   *)
(* (push_loop) posts the measurements once a second.                       *)
(*                                                                         *)
(* The application's thread encodes the pictures of all its video streams. *)
(* The count that forces an intra picture is static, one for them all.     *)
(* Every report makes a measurement of its own, and the library keeps the  *)
(* first of a name: the points of the others never get to the server.      *)
(***************************************************************************)
EXTENDS Integers, Influx

CONSTANTS
  IntraPeriod, \* 64
  MaxPictures  \* bound: pictures given to the encoders

ASSUME EncodeTimesAssumption ==
  /\ IntraPeriod \in Nat \ {0}
  /\ MaxPictures \in Nat

VARIABLES
  environment,  \* INFLUX_URL and INFLUX_AUTH_TOKEN
  encoding,     \* where the application's thread is in encode
  encoded,      \* total_frames_encoded
  pictures,     \* how many pictures were given to the encoders
  sinceIntra,   \* history: pictures encoded since the last intra one;
                \* in the beginning one is due
  failed,       \* history: the library failed on a picture
  provider,     \* the provider is in metric_providers, and its thread runs
  fresh,        \* the points of the measurement that is being reported
  kept,         \* measurements: the points of the one that is kept
  hasKept,      \* there is one
  loopAt,       \* where push_loop is
  collected     \* collected_metrics

encodeVars == <<encoding, encoded, pictures, sinceIntra, failed>>
libraryVars == <<provider, fresh, kept, hasKept, loopAt, collected>>
encodeTimesVars == <<environment, encodeVars, libraryVars>>

EncodeTimesPoints == {"EncodeTimeInMs"} \X (1..MaxPictures)

Environments == {"complete", "empty", "missing"}

EncodeTimesInit ==
  /\ environment \in Environments
  /\ encoding = "idle"
  /\ encoded = 0
  /\ pictures = 0
  /\ sinceIntra = IntraPeriod - 1
  /\ failed = FALSE
  /\ provider = FALSE
  /\ fresh = {}
  /\ kept = {}
  /\ hasKept = FALSE
  /\ loopAt = "wait"
  /\ collected = {}

-----------------------------------------------------------------------------
(* The application's thread *)

\* What the library makes of a picture (external): an intra one when it was
\* told to, and otherwise what it likes.
Types(forced) == IF forced THEN {"IDR", "Skip", "Invalid"} ELSE {"IDR", "I", "P", "Skip", "Invalid"}

Forces == encoded % IntraPeriod = 0

\* The count after a picture that was skipped or is none: it is returned
\* before it counts.  The faulty variant counts it.
AfterNothingCounted == encoded + 1
AfterNothing == encoded

EncodeNothing ==
  /\ encoding = "idle"
  /\ pictures < MaxPictures
  /\ Types(Forces) \cap {"Skip", "Invalid"} # {}
  /\ pictures' = pictures + 1
  /\ encoded' = AfterNothing
  /\ UNCHANGED <<encoding, sinceIntra, failed, libraryVars>>

EncodePicture ==
  /\ encoding = "idle"
  /\ pictures < MaxPictures
  /\ pictures' = pictures + 1
  /\ encoded' = encoded + 1
  /\ \E type \in Types(Forces) \ {"Skip", "Invalid"} :
       sinceIntra' = IF type = "IDR" THEN 0 ELSE sinceIntra + 1
  /\ encoding' = "report"
  /\ UNCHANGED <<failed, libraryVars>>

\* Where the library returns an error the picture counts and is timed, and
\* then returned as an invalid one.
EncodeFails ==
  /\ encoding = "idle"
  /\ pictures < MaxPictures
  /\ pictures' = pictures + 1
  /\ encoded' = encoded + 1
  /\ failed' = TRUE
  /\ encoding' = "report"
  /\ UNCHANGED <<sinceIntra, libraryVars>>

\* The point of a new measurement: InfluxMeasurement::create, set_time_entry.
NewSeries == {<<"EncodeTimeInMs", encoded>>}

\* GetInfluxProvider makes the provider the first time; where a variable is
\* empty there is none.
Report ==
  /\ encoding = "report"
  /\ environment # "missing"
  /\ encoding' = "add"
  /\ provider' = (environment = "complete")
  /\ fresh' = NewSeries
  /\ UNCHANGED <<encoded, pictures, sinceIntra, failed, kept, hasKept, loopAt, collected>>

\* A variable is not set: the string of a null pointer throws, out of encode,
\* and the picture is gone.
ProviderThrows ==
  /\ encoding = "report"
  /\ environment = "missing"
  /\ encoding' = "idle"
  /\ UNCHANGED <<encoded, pictures, sinceIntra, failed, libraryVars>>

\* add_measurement, without metrics_mutex: the first one is kept ...
AddFirst ==
  /\ encoding = "add"
  /\ provider
  /\ ~hasKept
  /\ encoding' = "idle"
  /\ fresh' = {}
  /\ kept' = fresh
  /\ hasKept' = TRUE
  /\ UNCHANGED <<encoded, pictures, sinceIntra, failed,
                 provider, loopAt, collected, serverVars>>

\* ... and every other one goes, with its point.
AddAnother ==
  /\ encoding = "add"
  /\ provider
  /\ hasKept
  /\ encoding' = "idle"
  /\ fresh' = {}
  /\ Lose(fresh)
  /\ UNCHANGED <<encoded, pictures, sinceIntra, failed,
                 provider, kept, hasKept, loopAt, collected>>

\* There is no provider to add it to: the program ends.
AddNowhere ==
  /\ encoding = "add"
  /\ ~provider
  /\ encoding' = "crashed"
  /\ UNCHANGED <<encoded, pictures, sinceIntra, failed, libraryVars, serverVars>>

-----------------------------------------------------------------------------
(* push_loop *)

\* What serialize leaves of a series it has copied, under the series' lock.
SeriesSerialized == {}

\* emitMetrics: a second has passed.
EmitMetrics ==
  /\ provider
  /\ loopAt = "wait"
  /\ loopAt' = "send"
  /\ collected' = kept
  /\ kept' = SeriesSerialized
  /\ UNCHANGED <<encodeVars, provider, fresh, hasKept, serverVars>>

\* sendMetrics, also with nothing to send.  What comes of it is only printed.
SendMetrics ==
  /\ loopAt = "send"
  /\ loopAt' = "wait"
  /\ collected' = {}
  /\ Answered(collected) \/ Refused(collected) \/ Failed(collected)
  /\ UNCHANGED <<encodeVars, provider, fresh, kept, hasKept>>

PushLoop == EmitMetrics \/ SendMetrics

Encode ==
  \/ (EncodeNothing \/ EncodePicture \/ EncodeFails \/ Report \/ ProviderThrows)
       /\ UNCHANGED serverVars
  \/ AddFirst
  \/ AddAnother
  \/ AddNowhere

EncodeTimesNext ==
  /\ UNCHANGED environment
  /\ Encode \/ PushLoop

\* The encode times that have not left yet.
EncodeTimesWaiting == fresh \cup kept \cup collected
=============================================================================
