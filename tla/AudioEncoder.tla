---------------------------- MODULE AudioEncoder -----------------------------
(***************************************************************************)
(* The sender's audio encoder (AudioEncoder, audio_encoder.cc) and the     *)
(* buffer that cuts what the microphone delivers into encoder frames       *)
(* (fullFill, full_Fill.cc).                                               *)
(*                                                                         *)
(* Two threads meet here.  The capture thread appends a buffer, sets       *)
(* immediate_encode and notifies, without the mutex the encoder thread     *)
(* waits with.  The encoder thread takes frames out as long as it finds    *)
(* enough samples, and only then resets immediate_encode.                  *)
(*                                                                         *)
(* Samples are numbered in the order they were captured, modulo Period,    *)
(* and the number is also the sample's capture time.  Lengths and offsets  *)
(* are in samples of all channels.                                         *)
(***************************************************************************)
EXTENDS Integers, SequencesExt

CONSTANTS
  Out,          \* output_samples: the length of an encoder frame
  Captures,     \* the lengths of the buffers the microphone delivers
  SampleBytes,  \* the size of a sample: 2 for PCMint16, 4 for Float32
  MaxBacklog,   \* bound: samples buffered before the capture thread is held
  Period        \* sample numbers are 0 .. Period - 1

ASSUME AudioEncoderAssumption ==
  /\ Out \in Nat \ {0}
  /\ Captures # {} /\ Captures \subseteq Nat \ {0}
  /\ SampleBytes \in {2, 4}
  /\ MaxBacklog \in Nat \ {0}
  /\ Period \in Nat /\ Period > Out
  /\ \A n \in Captures : Period > MaxBacklog + n

VARIABLES
  app,             \* where the capture thread is in encodeFrame
  captured,        \* the number of the next sample captured
  buffers,         \* buffers.buffers: samples and capture time
  readFront,       \* buffers.read_front: samples read of the first one
  immediateEncode, \* immediate_encode
  worker,          \* where the encoder thread is
  sent,            \* the packet the last callback got, <<>> before
  from             \* history: the sample that packet should begin with

encoderVars ==
  <<app, captured, buffers, readFront, immediateEncode, worker, sent, from>>

After(s, n) == (s + n) % Period

Run(s, n) == [i \in 1..n |-> After(s, i - 1)]

EncoderInit ==
  /\ app = "idle" /\ captured = 0
  /\ buffers = <<>> /\ readFront = 0
  /\ immediateEncode = FALSE /\ worker = "check"
  /\ sent = <<>> /\ from = Period - Out

----------------------------------------------------------------------------
\* What the first n buffers still hold.
Unread(n) ==
  FlattenSeq([i \in 1..n |->
                IF i = 1
                THEN SubSeq(buffers[1].data, readFront + 1,
                            Len(buffers[1].data))
                ELSE buffers[i].data])

\* getTotalInBuffers.  The encoder's look is not locked against addBuffer;
\* it finds a buffer being appended or does not.
Backlog == Len(Unread(Len(buffers)))

\* A faulty divisor: none, so that the offset is in bytes.
SampleDivisorNone == 1

\* sample_divisor, that of 16 bit samples in both branches of the constructor.
SampleDivisor == 2

\* calculate_timestamp for a frame that begins with the next unread sample
\* (a zero timestamp never gets this far: handle_media refuses it).
FrontTime ==
  After(buffers[1].time, (readFront * SampleBytes) \div SampleDivisor)

\* The first thing encodeFrame does: fullFill::addBuffer, under its lock.  The
\* bound never withholds a capture from a sleeping encoder.
AddBuffer(n) ==
  /\ app = "idle"
  /\ Backlog + n <= MaxBacklog \/ worker = "asleep"
  /\ buffers' = Append(buffers, [data |-> Run(captured, n),
                                 time |-> captured])
  /\ captured' = After(captured, n)
  /\ app' = "added"
  /\ UNCHANGED <<readFront, immediateEncode, worker, sent, from>>

SetFlag ==
  /\ app = "added"
  /\ immediateEncode' = TRUE
  /\ app' = "flagged"
  /\ UNCHANGED <<captured, buffers, readFront, worker, sent, from>>

\* notify_all wakes the encoder only if it already sleeps.
Notify ==
  /\ app = "flagged"
  /\ worker' = IF worker = "asleep" THEN "check" ELSE worker
  /\ app' = "idle"
  /\ UNCHANGED <<captured, buffers, readFront, immediateEncode, sent, from>>

----------------------------------------------------------------------------
\* The predicate of cv.wait.  The encoder holds enc_lock from here until it
\* sleeps, but encodeFrame does not ask for enc_lock.
Check ==
  /\ worker = "check"
  /\ worker' = IF immediateEncode THEN "encode" ELSE "going to sleep"
  /\ UNCHANGED <<app, captured, buffers, readFront, immediateEncode, sent,
                 from>>

FallAsleep ==
  /\ worker = "going to sleep"
  /\ worker' = "asleep"
  /\ UNCHANGED <<app, captured, buffers, readFront, immediateEncode, sent,
                 from>>

\* A condition variable may wake without a notification.
WakeSpuriously ==
  /\ worker = "asleep"
  /\ worker' = "check"
  /\ UNCHANGED <<app, captured, buffers, readFront, immediateEncode, sent,
                 from>>

\* How many buffers fullFill::fill uses up for a frame; the faulty variant
\* keeps one that ends with the frame.
UsedUpNotExactly == Max({i \in 0..Len(buffers) : Len(Unread(i)) < Out})
UsedUp == Max({i \in 0..Len(buffers) : Len(Unread(i)) <= Out})

\* What fill copies of the buffer it does not use up, from that buffer's
\* begin and not from read_front on.  The faulty variant copies from its end.
PartOfEnd(data, n) == SubSeq(data, Len(data) - n + 1, Len(data))
PartOf(data, n) == SubSeq(data, 1, n)

\* The buffers behind the first n; the faulty variant pops none.
BehindNone(n) == buffers
Behind(n) == SubSeq(buffers, n + 1, Len(buffers))

\* A round of pop_and_encode: fullFill::fill, the codec and the callback.
PopAndEncode ==
  /\ worker = "encode" /\ Backlog >= Out
  /\ LET whole == Unread(UsedUp)
         part == Out - Len(whole)
     IN /\ sent' = [samples |->
                      IF part = 0 THEN whole
                      ELSE whole \o PartOf(buffers[UsedUp + 1].data, part),
                    time |-> FrontTime]
        /\ readFront' = part
  /\ buffers' = Behind(UsedUp)
  /\ from' = After(from, Out)
  /\ UNCHANGED <<app, captured, immediateEncode, worker>>

EncodeDone ==
  /\ worker = "encode" /\ Backlog < Out
  /\ worker' = "reset"
  /\ UNCHANGED <<app, captured, buffers, readFront, immediateEncode, sent,
                 from>>

\* The flag goes down whatever came in since the last look at the buffers.
Reset ==
  /\ worker = "reset"
  /\ immediateEncode' = FALSE
  /\ worker' = "check"
  /\ UNCHANGED <<app, captured, buffers, readFront, sent, from>>

Capture == \E n \in Captures : AddBuffer(n)

FinishCall == SetFlag \/ Notify

EncoderWerk == Check \/ FallAsleep \/ PopAndEncode \/ EncodeDone \/ Reset

EncoderNext == Capture \/ FinishCall \/ EncoderWerk \/ WakeSpuriously

EncoderSpec == EncoderInit /\ [][EncoderNext]_encoderVars

\* Both threads keep running and the microphone goes on delivering; strong
\* fairness because only the bound in AddBuffer ever disables a delivery.
EncoderFairSpec ==
  EncoderSpec /\ SF_encoderVars(Capture) /\ WF_encoderVars(FinishCall)
       /\ WF_encoderVars(EncoderWerk)

----------------------------------------------------------------------------
Sample == 0..(Period - 1)

\* The types; what is left of the first buffer, the unsigned difference
\* available_length, is never 0 or wrapped around (full_Fill.cc:68).
EncoderTypeOK ==
  /\ app \in {"idle", "added", "flagged"}
  /\ captured \in Sample
  /\ buffers \in Seq([data : Seq(Sample), time : Sample])
  /\ readFront \in 0..Out
  /\ IF buffers = <<>> THEN readFront = 0
     ELSE readFront < Len(buffers[1].data)
  /\ immediateEncode \in BOOLEAN
  /\ worker \in {"check", "going to sleep", "asleep", "encode", "reset"}
  /\ sent = <<>> \/ sent \in [samples : [1..Out -> Sample], time : Sample]
  /\ from \in Sample

\* Each packet holds the samples that follow those of the packet before it,
\* whatever lengths the microphone mixes.  The run that checks it delivers at
\* most one sample more than a frame at a time; beyond, see MatchesRates
\* (full_Fill.cc:50-113, audio_encoder.cc:137-150).
EncodedInOrder == sent = <<>> \/ sent.samples = Run(from, Out)

\* The time of a packet is never before the capture of its first sample, also
\* when that lies inside a captured buffer.  It is exact for 16 bit samples,
\* and up to an encoder frame too late for Float32 ones, whose offset the 16
\* bit divisor counts double; the run that checks it has Float32
\* (audio_encoder.cc:29, 33; full_Fill.cc:35-48, 72-77).
MaxLate == IF SampleBytes = 2 THEN 0 ELSE Out

TimesBounded ==
  sent = <<>> \/ \E late \in 0..MaxLate : sent.time = After(from, late)

\* No frame is left behind for good: while the microphone delivers, every
\* sample gets encoded, although a wakeup is lost when it comes while the
\* encoder is going to sleep, and the flag when it goes up after the
\* encoder's last look at the buffers (audio_encoder.cc:72-91).  Numbers are
\* cyclic: the first sample behind the first packet stands for all.
EncodesAll ==
  LET Waiting == Contains(Unread(Len(buffers)), Out)
  IN Waiting ~> ~Waiting

----------------------------------------------------------------------------
\* "matches input rate to encoded rate" (audio_encoder.hh:63): whatever the
\* length of the captured buffers, what comes in gets encoded.
MatchesRates == EncodesAll

\* "set timestamp from first filled sample" (full_Fill.cc:56): a packet bears
\* the capture time of its first sample, of whatever type.
FromFirstSample == sent = <<>> \/ sent.time = from
=============================================================================
