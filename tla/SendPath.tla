------------------------------- MODULE SendPath -------------------------------
(***************************************************************************)
(* How what was encoded gets its sequence number and its name.             *)
(*                                                                         *)
(* The transport publishes an object under the stream's id, a group and an *)
(* object number.  Sound comes from the encoder thread of its stream       *)
(* (AudioStream::audio_encoder_callback); the group is a static variable   *)
(* of that function, one for the threads of all streams, and has no lock.  *)
(* Pictures come from the application's thread (VideoStream::handle_media) *)
(* and every stream has counters of its own: an intra frame opens a group. *)
(***************************************************************************)
EXTENDS Integers, Sequences

CONSTANTS
  AudioStreams, \* streams of sound
  VideoStreams, \* streams of pictures
  RecvOnly,     \* those of them that the client does not send
  MaxFrames     \* bound: frames encoded for a stream

ASSUME SendPathAssumption ==
  /\ AudioStreams \cap VideoStreams = {}
  /\ RecvOnly \subseteq AudioStreams \cup VideoStreams
  /\ MaxFrames \in Nat

Streams == AudioStreams \cup VideoStreams

VARIABLES
  encodeSequenceNum, \* encode_sequence_num of each stream
  published,         \* history: what each stream published
  callback,          \* where each audio stream's thread is in its callback
  groupId,           \* the static group_id of audio_encoder_callback
  loaded,            \* the value of groupId a thread is about to add one to
  setBack,           \* history: a store has taken groupId back
  group,             \* group_id, object_id and got_first_idr
  gop,               \* history: intra frames encoded for a video stream
  lostIntra          \* history: those of them that were not published

audioVars == <<callback, groupId, loaded, setBack>>
videoVars == <<group, gop, lostIntra>>
vars == <<encodeSequenceNum, published, audioVars, videoVars>>

\* What is published: its name within the stream, the packet's number, and
\* for pictures whether it is intra and which intra frame it depends on.
Object == [group : Nat, object : Nat, num : Nat, intra : BOOLEAN, gop : Nat]

Init ==
  /\ encodeSequenceNum = [s \in Streams |-> 0]
  /\ published = [s \in Streams |-> <<>>]
  /\ callback = [s \in AudioStreams |-> "idle"]
  /\ groupId = 0 /\ setBack = FALSE
  /\ loaded = [s \in AudioStreams |-> 0]
  /\ group = [s \in VideoStreams |->
                [id |-> 0, object |-> 0, gotFirstIdr |-> FALSE]]
  /\ gop = [s \in VideoStreams |-> 0]
  /\ lostIntra = [s \in VideoStreams |-> {}]

\* send_data
SendData(s, object) ==
  published' = [published EXCEPT ![s] = Append(@, object)]

----------------------------------------------------------------------------
\* An encoder thread has a packet: it takes a number, and drops the packet if
\* that cannot be written to bytes.
AudioNumber(s) ==
  /\ s \notin RecvOnly /\ callback[s] = "idle"
  /\ encodeSequenceNum[s] < MaxFrames
  /\ encodeSequenceNum' = [encodeSequenceNum EXCEPT ![s] = @ + 1]
  /\ \E written \in BOOLEAN :
       callback' = [callback EXCEPT ![s] = IF written THEN "send" ELSE "idle"]
  /\ UNCHANGED <<published, groupId, loaded, setBack, videoVars>>

\* It publishes under the group it finds; the object is always 0 ...
AudioSend(s) ==
  /\ callback[s] = "send"
  /\ SendData(s, [group |-> groupId, object |-> 0,
                  num |-> encodeSequenceNum[s] - 1,
                  intra |-> FALSE, gop |-> 0])
  /\ callback' = [callback EXCEPT ![s] = "add"]
  /\ UNCHANGED <<encodeSequenceNum, groupId, loaded, setBack, videoVars>>

\* ... and adds one to the group: without a lock or an atomic that is a load
\* and a store.
AudioLoad(s) ==
  /\ callback[s] = "add"
  /\ loaded' = [loaded EXCEPT ![s] = groupId]
  /\ callback' = [callback EXCEPT ![s] = "store"]
  /\ UNCHANGED <<encodeSequenceNum, published, groupId, setBack, videoVars>>

\* What is stored.  The faulty variants forget to add, and count down.
NextGroupSame(g) == g
NextGroupDown(g) == g - 1
NextGroup(g) == g + 1

AudioStore(s) ==
  /\ callback[s] = "store"
  /\ groupId' = NextGroup(loaded[s])
  /\ setBack' = (setBack \/ groupId' < groupId)
  /\ callback' = [callback EXCEPT ![s] = "idle"]
  /\ UNCHANGED <<encodeSequenceNum, published, loaded, videoVars>>

----------------------------------------------------------------------------
\* What an intra frame does to the counters: all but the first open a group.
\* The faulty variant goes on counting objects.
OpenGroupKeepsObject(g) ==
  IF g.gotFirstIdr THEN [g EXCEPT !.id = @ + 1]
  ELSE [g EXCEPT !.gotFirstIdr = TRUE]

OpenGroup(g) ==
  IF g.gotFirstIdr THEN [id |-> g.id + 1, object |-> 0, gotFirstIdr |-> TRUE]
  ELSE [g EXCEPT !.gotFirstIdr = TRUE]

\* What the encoder may make of a picture; it skips one without a trace.
Encoded == {"intra", "dependent"}

\* handle_media: encode, take a number, write to bytes, and publish.
SendVideo(s, type, written) ==
  /\ s \notin RecvOnly /\ encodeSequenceNum[s] < MaxFrames
  /\ encodeSequenceNum' = [encodeSequenceNum EXCEPT ![s] = @ + 1]
  /\ gop' = [gop EXCEPT ![s] = IF type = "intra" THEN @ + 1 ELSE @]
  /\ IF written
     THEN LET g == IF type = "intra" THEN OpenGroup(group[s]) ELSE group[s]
          IN /\ SendData(s, [group |-> g.id, object |-> g.object,
                             num |-> encodeSequenceNum[s],
                             intra |-> type = "intra", gop |-> gop'[s]])
             /\ group' = [group EXCEPT ![s] = [g EXCEPT !.object = @ + 1]]
             /\ UNCHANGED lostIntra
     ELSE /\ lostIntra' = [lostIntra EXCEPT ![s] =
                             IF type = "intra" THEN @ \cup {gop'[s]} ELSE @]
          /\ UNCHANGED <<published, group>>
  /\ UNCHANGED audioVars

----------------------------------------------------------------------------
AudioCallback(s) == AudioNumber(s) \/ AudioSend(s) \/ AudioLoad(s) \/ AudioStore(s)

Next ==
  \/ \E s \in AudioStreams : AudioCallback(s)
  \/ \E s \in VideoStreams, type \in Encoded, written \in BOOLEAN :
       SendVideo(s, type, written)

Spec == Init /\ [][Next]_vars

----------------------------------------------------------------------------
TypeOK ==
  /\ encodeSequenceNum \in [Streams -> 0..MaxFrames]
  /\ published \in [Streams -> Seq(Object)]
  /\ callback \in [AudioStreams -> {"idle", "send", "add", "store"}]
  /\ groupId \in Nat /\ setBack \in BOOLEAN
  /\ loaded \in [AudioStreams -> Nat]
  /\ group \in [VideoStreams -> [id : Nat, object : Nat, gotFirstIdr : BOOLEAN]]
  /\ gop \in [VideoStreams -> Nat]
  /\ lostIntra \in [VideoStreams -> SUBSET Nat]

\* The order of names, as the relay and its subscribers see them.
Before(a, b) ==
  \/ a.group < b.group
  \/ a.group = b.group /\ a.object < b.object

\* A stream's names and its numbers rise together: no name is given twice and
\* what is newer has the later name, also for two streams of sound whose
\* threads share a counter, unless one took the counter back past the other
\* (media_stream.cc:208, 236-237; video_stream.cc:108-129).
NamesFollow ==
  \A s \in Streams : \A i, j \in 1..Len(published[s]) :
    i < j => /\ published[s][i].num < published[s][j].num
             /\ (s \in AudioStreams => ~setBack) =>
                  Before(published[s][i], published[s][j])

\* Pictures share a group exactly if they depend on the same intra frame, and
\* that is the first of its group if it opened one.  What depends on an intra
\* frame that was encoded and not published is left in an older group: those
\* are excepted, and so is what came before the first intra frame
\* (video_stream.cc:102-129).
GroupsAreGops ==
  \A s \in VideoStreams : \A i, j \in 1..Len(published[s]) :
    LET a == published[s][i]
        b == published[s][j]
    IN /\ {a.gop, b.gop} \cap (lostIntra[s] \cup {0}) = {} =>
            (a.group = b.group <=> a.gop = b.gop)
       /\ a.group > 0 /\ a.intra => a.object = 0
=============================================================================
