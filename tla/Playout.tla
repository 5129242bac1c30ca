------------------------------- MODULE Playout -------------------------------
(***************************************************************************)
(* What an application gets of one publisher: the pictures and the sound   *)
(* that MediaClient::get_video and get_audio return, from the packets as   *)
(* they arrive (Packet::decode) through the decoders (H264Decoder,         *)
(* OpusAssembler) of the publisher's one jitter.                           *)
(*                                                                         *)
(* The codecs are external: any packet may yield nothing.  How many frames *)
(* a call takes is any number here; VideoJitter and AudioJitter say which. *)
(* The application calls from one thread; a call and the handling of an    *)
(* arrival exclude each other.  Asserts are on, as the Makefile builds it. *)
(***************************************************************************)
EXTENDS Integers, Sequences

CONSTANTS
  VideoStreams, \* the publisher's streams of pictures
  AudioStreams, \* and of sound
  SampleTypes,  \* how the application may want its sound: L16, F32
  NoStream,     \* a source id of 0
  Nothing,      \* no picture, no size or no type
  Gray,         \* the picture set_video_params paints, and its size
  MaxPictures,  \* bound: packets that arrive for the video streams
  MaxSounds     \* bound: packets that arrive for the audio streams

ASSUME PlayoutAssumption ==
  /\ NoStream \notin VideoStreams \cup AudioStreams
  /\ VideoStreams \cap AudioStreams = {}
  /\ {"Opus", Nothing} \cap SampleTypes = {}
  /\ MaxPictures \in Nat
  /\ MaxSounds \in Nat

VARIABLES
  active,      \* active_streams
  videoSource, \* video.sourceID
  videoQueue,  \* the packets in the video queue, oldest first
  shown,       \* lastDecodedFrame and its parameters
  fruitless,   \* history: the last packet decoded did not give both
  mixed,       \* history: packets of two sources have met in the queue
  view,        \* what get_video returned of each stream, and still points to
  repainted,   \* history: set_video_params was called since
  pictures,    \* history: how many packets have arrived
  wanted,      \* config.sample_type of each stream of sound
  decodeAs,    \* decode_audio_as
  assembler,   \* audio_decode_as of opus_assembler, when there is one
  audioSource, \* audio.sourceID
  audioQueue,  \* the types of the packets in the audio queue
  heard,       \* the types of what get_audio returned of each stream
  failed,      \* history: a decoder of sound has failed
  stopped,     \* an assertion has failed or a null pointer was followed
  sounds       \* history: how many packets have arrived

videoVars ==
  <<videoSource, videoQueue, shown, fruitless, mixed, view, repainted, pictures>>
audioVars ==
  <<wanted, decodeAs, assembler, audioSource, audioQueue, heard, failed, stopped, sounds>>
vars == <<active, videoVars, audioVars>>

-----------------------------------------------------------------------------
(* Packets *)

\* media.proto's types, and what Packet::decode makes of them: F32 and L16
\* are written but not read, and Jitter::push has no case for a bad type.
WireTypes == {"OPUS_40K_20MS", "H264", "L16", "F32", "RAW"}
MediaType(wire) ==
  CASE wire = "OPUS_40K_20MS" -> "Opus"
    [] wire = "H264" -> "H264"
    [] wire = "RAW" -> "Raw"
    [] OTHER -> "Bad"

VideoPacket == [source : VideoStreams, num : Nat, type : {"H264", "Raw"}]

-----------------------------------------------------------------------------
(* Pictures *)

\* set_video_params: a gray picture; the time stamp stays.
Painted == [shown EXCEPT !.picture = Gray, !.size = Gray]

AddVideo(s) ==
  /\ s \in VideoStreams \ active
  /\ active' = active \cup {s}
  /\ shown' = Painted
  /\ repainted' = TRUE
  /\ UNCHANGED <<videoSource, videoQueue, fruitless, mixed, view, pictures, audioVars>>

\* Jitter::push: the first packet tells the source of the client's pictures,
\* and the queue takes those of every other source too.
ArriveVideo(s, wire) ==
  /\ s \in VideoStreams \cap active
  /\ pictures < MaxPictures
  /\ MediaType(wire) \in {"H264", "Raw"}
  /\ pictures' = pictures + 1
  /\ videoSource' = IF videoSource = NoStream THEN s ELSE videoSource
  /\ videoQueue' = Append(videoQueue, [source |-> s, num |-> pictures, type |-> MediaType(wire)])
  /\ mixed' = (mixed \/ s # videoSource')
  /\ UNCHANGED <<active, shown, fruitless, view, repainted, audioVars>>

\* The packets that decodeVideoPacket makes a picture of when popVideo gives it
\* the first k of the queue: a raw one is only swapped in.
Decoded(k, yields) == {i \in 1..k : videoQueue[i].type = "H264" /\ yields[i]}
SwappedIn(k) == {i \in 1..k : videoQueue[i].type = "Raw"}

\* The packets whose size and time become those of the last picture: the
\* decoder always reports success.  The faulty variant keeps both.
TimedNone(k) == {}
Timed(k) == {i \in 1..k : videoQueue[i].type = "H264"}

LastOf(I, otherwise) ==
  IF I = {} THEN otherwise ELSE videoQueue[CHOOSE i \in I : \A j \in I : j <= i]

\* lastDecodedFrame and its parameters after them.  Where the decoder has no
\* picture it leaves the size it is given, and get_video gives it an empty
\* configuration, of size 0.
AfterDecoding(k, yields) ==
  [picture |-> LastOf(Decoded(k, yields) \cup SwappedIn(k), shown.picture),
   size |-> LastOf(Decoded(k, yields), IF Timed(k) = {} THEN shown.size ELSE Nothing),
   stamp |-> LastOf(Timed(k), shown.stamp)]

\* Jitter::popVideo serves the stream that sent the first picture; for
\* another it returns 0.  The faulty variant serves any.
ServesAny(s) == videoSource # NoStream
Serves(s) == videoSource = s

\* ... decodes k packets, and returns a pointer to lastDecodedFrame beside a
\* copy of its parameters.
GetVideo(s, k, yields) ==
  /\ s \in VideoStreams \cap active
  /\ Serves(s)
  /\ shown' = AfterDecoding(k, yields)
  /\ videoQueue' = SubSeq(videoQueue, k + 1, Len(videoQueue))
  /\ fruitless' = IF k = 0 THEN fruitless ELSE k \notin Decoded(k, yields)
  /\ view' = [view EXCEPT ![s] = shown']
  /\ repainted' = FALSE
  /\ UNCHANGED <<active, videoSource, mixed, pictures, audioVars>>

\* ... or throws k packets away (pop_discard).
DiscardVideo(s, k) ==
  /\ s \in VideoStreams \cap active
  /\ Serves(s)
  /\ videoQueue' = SubSeq(videoQueue, k + 1, Len(videoQueue))
  /\ view' = [view EXCEPT ![s] = shown]
  /\ repainted' = FALSE
  /\ UNCHANGED <<active, videoSource, shown, fruitless, mixed, pictures, audioVars>>

-----------------------------------------------------------------------------
(* Sound *)

\* AudioStream::configure: the type this stream wants, which the jitter takes
\* for the sound of all the publisher's streams that is to come.
AddAudio(a, type) ==
  /\ a \in AudioStreams \ active
  /\ active' = active \cup {a}
  /\ wanted' = [wanted EXCEPT ![a] = type]
  /\ decodeAs' = type
  /\ UNCHANGED <<assembler, audioSource, audioQueue, heard, failed, stopped, sounds, videoVars>>

\* What decodeMedia leaves in a packet.  A packet it cannot decode is still
\* Opus.  The faulty variant leaves the type to the caller.
TypeDecodedAsOpus(ok) == "Opus"
TypeDecoded(ok) == IF ok THEN assembler' ELSE "Opus"

\* Jitter::push of an Opus packet: the first makes the assembler.  Audio::push
\* takes decoded packets and asserts there are no others; a gap in front of
\* the packet is filled by the assembler, and when that fails its null
\* pointer is followed.  What comes too late or twice is not kept.
ArriveAudio(a, wire, decodes, kept, gap, conceals) ==
  /\ a \in AudioStreams \cap active
  /\ sounds < MaxSounds
  /\ MediaType(wire) = "Opus"
  /\ gap => kept
  /\ sounds' = sounds + 1
  /\ assembler' = IF assembler = Nothing THEN decodeAs ELSE assembler
  /\ LET type == TypeDecoded(decodes)
     IN IF type \notin SampleTypes
        THEN /\ stopped' = TRUE
             /\ UNCHANGED <<audioSource, audioQueue>>
        ELSE /\ audioSource' = IF audioQueue = <<>> THEN a ELSE audioSource
             /\ audioQueue' = audioQueue \o (IF gap THEN <<assembler'>> ELSE <<>>)
                                         \o (IF kept THEN <<type>> ELSE <<>>)
             /\ stopped' = (gap /\ ~conceals)
  /\ failed' = (failed \/ ~decodes \/ (gap /\ ~conceals))
  /\ UNCHANGED <<active, wanted, decodeAs, heard, videoVars>>

\* Jitter::popAudio serves the stream whose packet last met an empty queue:
\* with k packets, or with what the assembler makes up.
GetAudio(a, k) ==
  /\ a \in AudioStreams \cap active
  /\ audioSource = a
  /\ k > 0
  /\ heard' = [heard EXCEPT ![a] = {audioQueue[i] : i \in 1..k}]
  /\ audioQueue' = SubSeq(audioQueue, k + 1, Len(audioQueue))
  /\ UNCHANGED <<active, wanted, decodeAs, assembler, audioSource, failed, stopped,
                 sounds, videoVars>>

GetConcealed(a, conceals) ==
  /\ a \in AudioStreams \cap active
  /\ audioSource = a
  /\ heard' = [heard EXCEPT ![a] = IF conceals THEN {assembler} ELSE {}]
  /\ failed' = (failed \/ ~conceals)
  /\ stopped' = ~conceals
  /\ UNCHANGED <<active, wanted, decodeAs, assembler, audioSource, audioQueue,
                 sounds, videoVars>>

-----------------------------------------------------------------------------
Init ==
  /\ active = {}
  /\ videoSource = NoStream
  /\ videoQueue = <<>>
  /\ shown = [picture |-> Nothing, size |-> Nothing, stamp |-> Nothing]
  /\ fruitless = FALSE
  /\ mixed = FALSE
  /\ view = [s \in VideoStreams |-> Nothing]
  /\ repainted = FALSE
  /\ pictures = 0
  /\ wanted = [a \in AudioStreams |-> Nothing]
  /\ decodeAs = Nothing
  /\ assembler = Nothing
  /\ audioSource = NoStream
  /\ audioQueue = <<>>
  /\ heard = [a \in AudioStreams |-> {}]
  /\ failed = FALSE
  /\ stopped = FALSE
  /\ sounds = 0

VideoNext ==
  \E s \in VideoStreams :
    \/ AddVideo(s)
    \/ \E wire \in WireTypes : ArriveVideo(s, wire)
    \/ \E k \in 0..Len(videoQueue) : \E yields \in [1..k -> BOOLEAN] : GetVideo(s, k, yields)
    \/ \E k \in 1..Len(videoQueue) : DiscardVideo(s, k)

AudioNext ==
  \E a \in AudioStreams :
    \/ \E type \in SampleTypes : AddAudio(a, type)
    \/ \E wire \in WireTypes, decodes, kept, gap, conceals \in BOOLEAN :
         ArriveAudio(a, wire, decodes, kept, gap, conceals)
    \/ \E k \in 1..Len(audioQueue) : GetAudio(a, k)
    \/ \E conceals \in BOOLEAN : GetConcealed(a, conceals)

Next == ~stopped /\ (VideoNext \/ AudioNext)

Spec == Init /\ [][Next]_vars

-----------------------------------------------------------------------------
(* Properties *)

\* What get_video returned of a stream is a picture of that stream with its
\* own size and time, unless the decoder had no picture for the last packet
\* (its size is then the 0 the caller came with and its time the packet's) or
\* that was a raw one (the size and time are then those of the picture before),
\* or packets of another stream of the publisher are mixed in; and nothing
\* but the next call of get_video or the addition of a stream changes the
\* picture the application is looking at (jitter.cc:333-399, 52-66).
ViewFits ==
  \A s \in VideoStreams :
    view[s] # Nothing =>
      /\ view[s].picture \notin {Nothing, Gray} =>
           /\ ~fruitless => view[s].size = view[s].picture /\ view[s].stamp = view[s].picture
           /\ ~mixed => view[s].picture.source = s
      /\ ~repainted => shown = view[s]

\* The sound the application gets of a stream is decoded, of a type that some
\* stream of the publisher was configured with, and so of the type this
\* stream was configured with as long as they agree: where they do not, the
\* one that was configured last when the first packet came decides for all.
\* The program comes to a stop over sound only when the decoder fails
\* (jitter.cc:39-50, 149-174, 616-651, opus_assembler.cc:36-149).
Configured == active \cap AudioStreams
Agree == \A a, b \in Configured : wanted[a] = wanted[b]

SoundFits ==
  /\ \A a \in AudioStreams :
       /\ heard[a] \subseteq {wanted[b] : b \in Configured}
       /\ Agree => heard[a] \subseteq {wanted[a]}
  /\ stopped => failed
=============================================================================
