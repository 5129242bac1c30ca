----------------------------- MODULE ReceivePath ------------------------------
(***************************************************************************)
(* How what the network delivers gets to the jitter of its sender.         *)
(*                                                                         *)
(* Three threads meet here.  The application adds and removes streams      *)
(* (MediaClient, media_client.cc).  The transport's thread queues what     *)
(* arrives and notifies (Delegate, QuicRMediaTransport,                    *)
(* media_transport.cc).  The work thread sleeps until something is queued, *)
(* looks the stream up and hands the packet to the jitter of the client    *)
(* that sent it (MediaClient::do_work, MediaStream::handle_media).         *)
(*                                                                         *)
(* A std::map that one thread extends while another searches it is         *)
(* undefined behaviour: LookUps lists what a search may then do.           *)
(***************************************************************************)
EXTENDS Integers, Sequences

CONSTANTS
  Streams,      \* the streams the application may add
  Clients,      \* the clients that publish them
  ClientOf,     \* the publisher of each stream
  VideoStreams, \* the streams of video; the others carry audio
  NoStream,     \* no stream is being added
  MaxArrivals   \* bound: messages the network delivers

ASSUME ReceivePathAssumption ==
  /\ ClientOf \in [Streams -> Clients]
  /\ VideoStreams \subseteq Streams
  /\ NoStream \notin Streams
  /\ MaxArrivals \in Nat

VARIABLES
  step,         \* where the application is in add_audio/video_stream
  adding,       \* the stream it adds, or NoStream
  configured,   \* the jitters and media whose parameters are set
  subscribed,   \* the names the client library is subscribed to
  active,       \* the keys of active_streams
  arrived,      \* history: messages delivered so far
  receiveQueue, \* receive_queue
  notifying,    \* handle has queued a message and not yet notified
  worker,       \* where the work thread is
  message,      \* the message in its hand, or NoMessage
  heard,        \* video.sourceID, opus_assembler: the media a jitter has got
  pushed,       \* history: what was pushed into the jitters
  ignored,      \* history: what was dropped for want of a stream
  announced     \* history: the sources reported to the application

appVars == <<step, adding, configured, subscribed, active>>
netVars == <<arrived, receiveQueue, notifying>>
workVars == <<worker, message, heard, pushed, ignored, announced>>
vars == <<appVars, netVars, workVars>>

\* What a stream's packets are for: the jitter of its publisher, and which
\* half of it.  The faulty variant looks the jitter up by stream.
SourceByStream(s) == <<s, IF s \in VideoStreams THEN "video" ELSE "audio">>
Source(s) == <<ClientOf[s], IF s \in VideoStreams THEN "video" ELSE "audio">>

\* A message, with what its data is, whether its stream had an entry when it
\* arrived and whether another was being entered when it was looked up.
Message ==
  [stream : Streams, num : Nat, data : {"packet", "garbled", "empty"},
   early : BOOLEAN, raced : BOOLEAN]

NoMessage == <<>>

Init ==
  /\ step = "idle" /\ adding = NoStream
  /\ configured = {} /\ subscribed = {} /\ active = {}
  /\ arrived = 0 /\ receiveQueue = <<>> /\ notifying = FALSE
  /\ worker = "test" /\ message = NoMessage
  /\ heard = {} /\ pushed = <<>> /\ ignored = {} /\ announced = <<>>

----------------------------------------------------------------------------
\* The application: create and configure the stream, which creates the jitter
\* of its publisher and sets the parameters, ...  The faulty variant sets them
\* only for the jitter it creates.
AddConfigureNew(s) ==
  /\ step = "idle"
  /\ step' = "configured" /\ adding' = s
  /\ configured' = IF \E c \in configured : c[1] = ClientOf[s] THEN configured
                   ELSE configured \cup {Source(s)}
  /\ UNCHANGED <<subscribed, active, netVars, workVars>>

AddConfigure(s) ==
  /\ step = "idle"
  /\ step' = "configured" /\ adding' = s
  /\ configured' = configured \cup {Source(s)}
  /\ UNCHANGED <<subscribed, active, netVars, workVars>>

\* ... subscribe, ...
AddRegister ==
  /\ step = "configured"
  /\ step' = "registered"
  /\ subscribed' = subscribed \cup {adding}
  /\ UNCHANGED <<adding, configured, active, netVars, workVars>>

\* ... and only then make the entry, first the key and then the stream.
AddEnter ==
  /\ step = "registered"
  /\ step' = "entering"
  /\ UNCHANGED <<adding, configured, subscribed, active, netVars, workVars>>

AddDone ==
  /\ step = "entering"
  /\ step' = "idle" /\ adding' = NoStream
  /\ active' = active \cup {adding}
  /\ UNCHANGED <<configured, subscribed, netVars, workVars>>

\* remove_media_stream unsubscribes; the entry and the jitter stay.  The
\* faulty variant also erases the entry.
RemoveAndErase(s) ==
  /\ step = "idle" /\ s \in active
  /\ subscribed' = subscribed \ {s} /\ active' = active \ {s}
  /\ UNCHANGED <<step, adding, configured, netVars, workVars>>

Remove(s) ==
  /\ step = "idle" /\ s \in active
  /\ subscribed' = subscribed \ {s}
  /\ UNCHANGED <<step, adding, configured, active, netVars, workVars>>

----------------------------------------------------------------------------
\* The transport: a message for a subscribed name is queued under the lock ...
Arrive(s, data) ==
  /\ ~notifying /\ s \in subscribed /\ arrived < MaxArrivals
  /\ arrived' = arrived + 1
  /\ receiveQueue' = Append(receiveQueue,
                            [stream |-> s, num |-> arrived', data |-> data,
                             early |-> s \notin active, raced |-> FALSE])
  /\ notifying' = TRUE
  /\ UNCHANGED <<appVars, workVars>>

\* ... and notify_all, without it, wakes the work thread if it sleeps.
NotifyAll ==
  /\ notifying
  /\ notifying' = FALSE
  /\ worker' = IF worker = "asleep" THEN "test" ELSE worker
  /\ UNCHANGED <<appVars, arrived, receiveQueue, message, heard, pushed,
                 ignored, announced>>

----------------------------------------------------------------------------
\* The work thread: wait_for_messages tests and falls asleep in one step, it
\* holds recv_queue_mutex.  The faulty variant waits without a predicate.
TestNothing ==
  /\ worker = "test"
  /\ worker' = "asleep"
  /\ UNCHANGED <<appVars, netVars, message, heard, pushed, ignored, announced>>

Test ==
  /\ worker = "test"
  /\ worker' = IF receiveQueue = <<>> THEN "asleep" ELSE "recv"
  /\ UNCHANGED <<appVars, netVars, message, heard, pushed, ignored, announced>>

\* A condition variable may wake without a notification.
WakeSpuriously ==
  /\ worker = "asleep"
  /\ worker' = "test"
  /\ UNCHANGED <<appVars, netVars, message, heard, pushed, ignored, announced>>

\* recv, and the test for a message without data.  The faulty variant takes
\* the message that came last.
FrontLast(q) == [i \in 1..Len(q) |-> q[Len(q) + 1 - i]]
Front(q) == q

Recv ==
  /\ worker = "recv"
  /\ LET info == IF receiveQueue = <<>> THEN NoMessage
                 ELSE Head(Front(receiveQueue))
     IN IF receiveQueue = <<>> \/ info.data = "empty"
        THEN worker' = "test" /\ message' = NoMessage
        ELSE worker' = "lookup" /\ message' = info
  /\ receiveQueue' = IF receiveQueue = <<>> THEN <<>>
                     ELSE Tail(Front(receiveQueue))
  /\ UNCHANGED <<appVars, arrived, notifying, heard, pushed, ignored,
                 announced>>

\* What active_streams.count and active_streams[] do for a stream.  While a
\* new key is entered, a search may miss any other: count, and the stream is
\* unknown, or the operator, which makes an entry without a stream and
\* follows it.  The new key may be found before its stream is there, and a
\* stream that is added again may be replaced under the reader: here too the
\* process ends.
LookUps(s) ==
  {IF s \in active THEN "found" ELSE "missing"}
    \cup IF step = "entering" /\ adding \notin active
         THEN {"missing", "crash"} ELSE {}
    \cup IF step = "entering" /\ adding = s THEN {"crash"} ELSE {}

LookUp ==
  /\ worker = "lookup"
  /\ \E found \in LookUps(message.stream) :
       /\ worker' = CASE found = "found" -> "hand"
                      [] found = "missing" -> "test"
                      [] found = "crash" -> "crashed"
       /\ ignored' = IF found = "missing"
                     THEN ignored \cup
                            {[message EXCEPT !.raced = step = "entering"]}
                     ELSE ignored
       /\ message' = IF found = "found" THEN message ELSE NoMessage
  /\ UNCHANGED <<appVars, netVars, heard, pushed, announced>>

\* Whether Jitter::push calls a stream new: the first video with a source, the
\* first Opus packet.  The faulty variant does not remember.
IsNewAlways(s) == TRUE
IsNew(s) == Source(s) \notin heard

\* MediaStream::handle_media up to and including Jitter::push; GetJitter finds
\* the jitter that configure created or creates it.  Garbled data are no
\* packet, or one without the one payload that Packet::decode asserts.  A push
\* of sound needs the mutex that a popAudio before the first measured packet
\* never gives back (AudioJitter).
HandMedia ==
  /\ worker = "hand"
  /\ IF message.data = "garbled"
     THEN /\ worker' \in {"test", "crashed"}
          /\ message' = NoMessage
          /\ UNCHANGED <<heard, pushed>>
     ELSE /\ \/ IF IsNew(message.stream)
                THEN worker' = "report" /\ message' = message
                ELSE worker' = "test" /\ message' = NoMessage
             \/ /\ message.stream \notin VideoStreams
                /\ worker' = "stuck" /\ message' = message
          /\ heard' = heard \cup {Source(message.stream)}
          /\ pushed' = Append(pushed, message)
  /\ UNCHANGED <<appVars, netVars, ignored, announced>>

\* The NewSourceCallback, with the source of the packet just pushed.
Report ==
  /\ worker = "report"
  /\ worker' = "test"
  /\ announced' = Append(announced, message.stream)
  /\ message' = NoMessage
  /\ UNCHANGED <<appVars, netVars, heard, pushed, ignored>>

----------------------------------------------------------------------------
Application ==
  \/ \E s \in Streams : AddConfigure(s) \/ Remove(s)
  \/ AddRegister \/ AddEnter \/ AddDone

DoWork == Test \/ Recv \/ LookUp \/ HandMedia \/ Report

\* A crash ends all three threads.
Next ==
  /\ worker # "crashed"
  /\ \/ Application
     \/ \E s \in Streams, data \in {"packet", "garbled", "empty"} :
          Arrive(s, data)
     \/ NotifyAll
     \/ DoWork
     \/ WakeSpuriously

Spec == Init /\ [][Next]_vars

\* The threads keep running: the transport's finishes handle, the work
\* thread's loop has no other stop than its wait.
FairSpec == Spec /\ WF_vars(NotifyAll) /\ WF_vars(DoWork)

----------------------------------------------------------------------------
TypeOK ==
  /\ step \in {"idle", "configured", "registered", "entering"}
  /\ adding \in Streams \cup {NoStream} /\ (step = "idle" <=> adding = NoStream)
  /\ configured \subseteq Clients \X {"audio", "video"}
  /\ subscribed \subseteq Streams /\ active \subseteq Streams
  /\ arrived \in 0..MaxArrivals
  /\ receiveQueue \in Seq(Message) /\ notifying \in BOOLEAN
  /\ worker \in {"test", "asleep", "recv", "lookup", "hand", "report",
                 "stuck", "crashed"}
  /\ IF worker \in {"lookup", "hand", "report", "stuck"} THEN message \in Message
     ELSE message = NoMessage
  /\ heard \subseteq Clients \X {"audio", "video"}
  /\ pushed \in Seq(Message) /\ ignored \subseteq Message
  /\ announced \in Seq(Streams)

\* What is on its way to a jitter, the oldest first.
InHand == worker \in {"lookup", "hand"}
InFlight == (IF InHand THEN <<message>> ELSE <<>>) \o receiveQueue

\* Nothing overtakes on the way from the network to the jitters, although two
\* threads and a hand-over lie between: what was pushed, what is in hand and
\* what is queued follow each other as they arrived, and nothing is there
\* twice (media_transport.cc:126-164, media_client.cc:129-170).
InOrder ==
  LET way == pushed \o InFlight
  IN \A i, j \in 1..Len(way) : i < j => way[i].num < way[j].num

\* A packet is dropped for want of a stream only if it came between the
\* subscription and the entry, or if it was looked up while another entry was
\* made; also what is still queued when its stream is removed gets through
\* (media_client.cc:41-44, 149-154).
LostOnlyAtEntry == \A m \in ignored : m.early \/ m.raced

\* No packet enters a jitter whose parameters were not set: the decoder and
\* the sample rate come from the application, on another thread
\* (media_client.cc:35-44, video_stream.cc:50-59, media_stream.cc:96-118).
ConfiguredFirst == heard \subseteq configured

\* The application hears of each client's audio and video once, and of
\* nothing that is not in the jitter; the report is outstanding only while
\* the work thread is about to make it, or stuck in the push before it
\* (media_stream.cc:55-61).
AnnouncedOnce ==
  /\ \A i, j \in 1..Len(announced) :
       i # j => Source(announced[i]) # Source(announced[j])
  /\ heard = {Source(announced[i]) : i \in 1..Len(announced)}
               \cup IF worker \in {"report", "stuck"}
                    THEN {Source(message.stream)} ELSE {}

\* Whatever arrives is taken from the queue and handed on or dropped, as long
\* as the work thread is neither ended nor stuck in a push: no wakeup is lost
\* between handle and wait_for_messages (media_transport.cc:126-133, 156-164).
EveryMessageTaken ==
  \A n \in 1..MaxArrivals :
    arrived = n ~> \/ worker \in {"crashed", "stuck"}
                   \/ \A i \in 1..Len(InFlight) : InFlight[i].num # n

----------------------------------------------------------------------------
\* "since a subscribe should preceed before data arrive, we should find an
\* entry when there is data for a given stream" (media_client.cc:146-148).
EntryFound == ignored = {}
=============================================================================
