# qmedia in TLA+

This directory is a verification development of qmedia, the media client
library of this repository: models of its playout and capture paths in TLA+,
the TLC configurations that check them on small instances, and proofs of the
most important results for instances of every size. Paths below are relative
to the repository's root; `src/jitter.cc` is the file of that name.

The models are read beside the code: an action is one handler or one locked
section of one, its guard the handler's conditions and early returns, and the
variables bear the names of the fields they stand for. `PROJECT.json` lists,
for each definition, the lines it translates.

## 1. The system

A client sends the sound and the pictures of its user to a relay and plays
those of others. Publishing and subscribing is the business of the QUIC
transport library; qmedia encodes, numbers and packs on one side, and
reorders, conceals, synchronises and decodes on the other.

```
capture thread ──> AudioStream ──> AudioEncoder ══> encoder thread ──> transport
capture thread ──> VideoStream ──> H264Encoder ─────────────────────> transport

transport thread ──> Delegate ══> receive queue ══> work thread (MediaClient)
     work thread ──> MediaStream ──> Packet ──> JitterFactory ──> Jitter::push
                                                    audio.mq ══ video.mq
     audio thread ──> get_audio ──> Jitter::popAudio ──┘           │
     render thread ─> get_video ──> Jitter::popVideo ──────────────┘
```

(`══` is state that two threads share.) All of them log through one
`Logger`; `Metrics` and `lib/metrics` post what is measured, each from a
thread of its own.

| component | its state | its operations | what is hard | what makes it correct |
|---|---|---|---|---|
| MetaQueue, `src/jitter_queues.cc` | the list `Q`, counters | `queueAudioFrame`, `queueVideoFrame`, `pop`, `drainToMax` | frames late, twice, out of order; age check before the lock; pops that rely on the caller's lock | sorted, nothing twice, oldest leaves first, nothing lost uncounted |
| Jitter (video), `src/jitter.cc` | `video.mq`, last decoded picture, `sync` | `push`, `popVideo` | three threads; decode errors; unsigned loop bound | the picture never goes back; nothing is decoded without its reference; the queue drains |
| Sync, `src/playout_sync.cc` | last audio and video frames played | `getVideoAction`, `audio_popped`, `video_popped` | gaps, lost intra frames, audio that stops | decisions follow the order of the stream |
| Jitter (audio), `src/jitter.cc` | `audio.mq`, `playout`, `idle_client`, packet length | `push`, `insertAudioPLCs`, `popAudio`, `idleClientPruneAudio` | six differently locked steps per packet; a loop that must end | gaps concealed, sound in order, queue bounded while idle, popAudio returns |
| LeakyBucket, JitterCalc, `src/playout_*.cc` | fill latch, drain speed, jitter window | `tick`, `initialFill`, `getRecommendedFillLevel`, `updateJitterValues` | units; never re-armed latch | the queue neither starves nor floods |
| AudioEncoder, fullFill, `src/audio_encoder.cc`, `src/full_Fill.cc` | captured buffers, `read_front`, `immediate_encode` | `encodeFrame`, `encoderWerk`, `fill` | flag and wakeup without the mutex; two offsets | every sample encoded once, in order, with its time |
| transport and work thread, `src/media_transport.cc`, `src/media_client.cc` | receive queue, `active_streams` | `handle`, `recv`, `do_work`, `add_*_stream` | subscription before registration; unlocked map | what arrives for a stream reaches its jitter, in order |
| streams, `src/media_stream.cc`, `src/video_stream.cc` | sequence, group and object numbers | `handle_media`, encoder callback | one static counter for all audio streams | no two objects under one name |
| JitterFactory, `src/jitter.cc` | map of jitters | `GetJitter` | two threads, no lock | one jitter per client |
| Logger, `src/logger.cc`, `include/qmedia/logger.hh` | a stream buffer shared by threads, its owner, facility and level | `thread_sync`, `xsputn`, `sync`, `Log`, `SetLogFacility` | take-over after one second; a facility read again and again; a callback that throws | messages do not mix; each goes where it is due; nothing stays locked |
| Metrics, `src/metrics.cc` | measurements by name, push flag, what is being posted | `createMeasurement`, `set`, `push`, `pusher` | notification without the mutex; a name used twice; failed posts | what is recorded is posted at most once, and leaves |
| lib/metrics, reporter, `lib/metrics`, `src/metrics_reporter` | provider, collected measurements | `Report`, `add_measurement`, `push_loop`, `emitMetrics` | environment that is missing or half there; every report a new measurement | likewise |
| codecs and Packet, `src/h264_*.cc`, `src/opus_assembler.cc`, `src/packet.cc` | last decoded picture, frame count, decoder of the jitter | `Packet::encode`, `decode`, `H264Encoder::encode`, `H264Decoder::decode`, `push` | the decoder reports success whatever it did; a failed packet keeps its type; a static frame count; several streams in one jitter | the picture belongs to the size and time it comes with; sound is of the type asked for; an intra picture comes in time |
| silence detection, resampler | — | conversions | — | — |
| C interface, command line tools, Swift client | — | calls of the above | devices, user interface | — |

`PROJECT.json` lists the hazards of this code under "hazards", each at its
line, with the properties that would catch it going wrong.

## 2. The modules

| module | what it models |
|---|---|
| `MetaQueue` | the queue operations as operators on a sequence of frames, and concealment |
| `ReorderBuffer` | abstract: what a playout queue promises, as a set of numbers |
| `Sync` | the decision of `getVideoAction` and the length of the video-only loop, without loops, as a reference |
| `VideoJitter` | `push` and `popVideo` with both loops as in the code, the worker, the renderer and the audio clock |
| `AudioJitter` | composes queue, concealment, pruning and level control with the worker and the audio thread |
| `AudioEncoder` | encoder thread, capture thread and the buffer between them |
| `ReceivePath` | composes the application, the transport's thread and the work thread: streams, receive queue, jitter registry |
| `SendPath` | the encoder threads and the video call that number and publish, with the group counter that threads share |
| `Playout` | what the application gets: packets, decoders, `get_audio` and `get_video` of one publisher, whose streams share a jitter |
| `Logging` | the threads of a logger on its shared buffer, and the way of a text to console, file, callback or system log |
| `Export` | abstract: what an exporter of measured points promises |
| `Influx` | external: the database that points are posted to |
| `Metrics` | `src/metrics.cc`: recorders, `push` and the pusher |
| `EncodeTimes` | `H264Encoder::encode` and its report through `lib/metrics` |
| `Telemetry` | composes both exporters and the database |
| `MC_*` | values for the constants that a `.cfg` cannot write |
| `MetaQueueProofs`, `VideoJitterProofs`, `AudioJitterProofs`, `ReceivePathProofs`, `SendPathProofs`, `TelemetryProofs`, `PlayoutProofs`, `LoggingProofs` | the theorems and their lemmas; `SendPathProofs` also holds those about `AudioEncoder`, whose definitions therefore have names of their own (`EncoderInit`) |

**What a step is.** A section that runs under one lock is one step if all that
it reads and writes is under that lock. A value read before the lock and used
under it makes two steps (the age check of `queueVideoFrame` and of
`queueAudioFrame`); a handler that takes several locks makes several; and
where a section reads what another thread writes under another lock, each
reading and each store is a step (`popVideo` and the audio clock). Unlocked calls on a `std::list` that another thread may
be changing are undefined behaviour in C++; they are modelled as atomic, one
step per call.

**VideoJitter.** `PushBegin` is `Jitter::push` up to the lock, `PushInsert`
`queueVideoFrame` under it. `popVideo` holds the video queue's lock from
`PopVideo` to `Return`, so no push gets in between; but the audio clock it
reads (`source_audio_time_popped`, `local_audio_time_popped`) is stored by the
audio thread under the audio queue's lock, and `getVideoAction` reads it anew
for each frame. So the walk is modelled frame by frame: `OutOfOrder` is the
branch of a gap, `ReadAudioTime`, `CompareTimes` and `ReadLocalTime` are the
three readings in the branch of a frame in order, `EndOfQueue` leaves the
loop. `PopFrame` is one pass of the loop of pops, with `pop_video_only`'s
unsigned bound as it is then. Which frames decode is free: a frame the decoder
rejects is popped and leaves no entry in `Sync` (`popVideo` provides for that,
although the decoder of this repository never says so, see Playout). The audio
thread is an environment: `StoreAudioTime` and `StoreLocalTime` are the two
stores of `audio_popped` for media or concealment (time 0), and `AudioStalls`
is 400 ms without a pop. A sequence number stands for a frame; whether it is
intra (`IntraSeqs`) and when it was captured (`RecordTime`) are functions of
it. `UINT64_MAX` for "no frame yet" is the number -1, which is what adding one
to it makes of it. Four history variables serve the properties: `shown` (what
this call handed to the decoder), `clockMoved`, `leftEarly` and `overtaken`.

**Sync.** In `getVideoAction` a pass that does not leave the loop adds one to
the count, so beside a clock that stands still the count at a frame is known
from the frame's place and the loop can be stated as a first exit. That is
`GetVideoAction`, the reference that `VideoJitter`'s walk is compared with;
`VideoOnlyPops` is the same for the `pop_video_only` loop and its wrapping
bound. Nothing in `VideoJitter`'s steps uses the two.

**AudioJitter.** The worker's variable `worker` walks through the steps of
`push`: age check (`PushBegin`), insertion, concealment, measuring, and the
prune of an idle client in two more. The audio thread's `PopBegin` is
`popAudio` with `QueueMonitor` up to the loop, and each disjunct of `PopRound`
is a path through one round. All frames have one length (the encoder makes
nothing else), the length asked for is a multiple of it, and `buffered` counts
frames in `audio.playout`; the bytes within frames are `fullFill`'s, modelled
in `AudioEncoder`. Silence is a free choice at each question, more than the
detector allows. `lostInQueue` is left out: `tick` takes its result and does
not read it; so are the trackers, which nothing reads, and the count of pops of
an empty queue.

**AudioEncoder.** Lengths are in samples. A sample is its number, modulo
`Period`, and the number is also its capture time, so order, loss, repetition
and timestamps are all visible in a packet. The condition variable is modelled
as it is: testing the predicate, falling asleep and being notified are steps
of their own, and it may wake spuriously. `SampleBytes` is the size of a
sample: the divisor that turns the offset inside a captured buffer into time
is that of 16 bit samples for Float32 too, and every caller in the repository
(the Swift client, `cmd/sound.cc`, the default of `AudioConfig`) uses Float32,
so the runs have 4. A call of the Opus encoder that fails is left out: the
frames are of a length it takes, and a failure would end the program
(`encode` reserves a negative length).

**ReceivePath.** Three threads. The application's `add_audio_stream` and
`add_video_stream` are four steps: `AddConfigure` (create the stream, get the
jitter of its publisher and set its parameters), `AddRegister` (subscribe),
and `AddEnter` and `AddDone`, between which `active_streams` has the key and
not yet the stream. A stream may be removed and added again; as in the code
its entry and its jitter stay. `Streams` are those it receives: a stream it
only sends is never subscribed. The transport's thread appends a message under
the lock (`Arrive`) and notifies without it (`NotifyAll`); what is delivered
is free, also data that is empty or that no packet can be read from. The work
thread's steps are those of `do_work`: the wait, `recv`, the lookup, the
hand-over up to `Jitter::push`, and the report of a new source. The wait needs
one step less than in `AudioEncoder`: its predicate is only changed under the
mutex that it holds between testing and falling asleep.

`active_streams` is a `std::map` that the application extends while the work
thread searches it, which is undefined behaviour. `LookUps` lists what a
search may do: miss any other stream while a key is entered, find a key whose
stream is not there yet or is being replaced, miss it only the second time,
in `operator[]`, which makes an entry without a stream - these three end the
process - or work. What no packet can be made of (`garbled`) is dropped, or
trips the assertion of `Packet::decode` on the number of payloads. A push of
sound may find its mutex locked for ever by a `popAudio` that came before the
first measured packet (the run `AudioJitter_lock`): the work thread is then
`stuck`, while the other two go on. `JitterFactory::GetJitter` has the same
flaw and is taken as atomic; the jitters themselves are in `VideoJitter` and
`AudioJitter`, and `heard` is all that `ReceivePath` keeps of them. The packet's client is that of the stream it
came on, as the publishers of this repository send it.

A message has a number in the order of arrival, and two marks for the
properties: whether it came before the entry (`early`), and whether another
entry was being made when it was looked up (`raced`).

**SendPath.** An audio stream's encoder thread runs `audio_encoder_callback`:
it takes a sequence number (`AudioNumber`, where a packet that cannot be
written to bytes is dropped and its number with it), publishes under the group
it finds (`AudioSend`), and adds one to the group. The group is a static
variable of the function, shared by the threads of all streams without a lock,
so the addition is a load and a store (`AudioLoad`, `AudioStore`). A video
stream is called by one thread and shares nothing: `SendVideo` is the whole of
`handle_media`; a picture that the encoder skips leaves no trace and is no
step. For video `RecvOnly` are the streams without an encoder, which are all
but the `sendonly` ones. Which pictures are intra, and what can be written, is
free. What is published is kept per stream, for a name includes the stream's
id. In `send_data` a null pointer is followed before anything is published
(`*a++`, media_transport.cc:121-122). What is read is not used and compilers
load nothing, so the step has only the outcome that the program goes on.

**Playout.** A publisher may send several streams of a kind, and all of them
end in one jitter: the map of jitters has one entry per client. `ArriveVideo`
and `ArriveAudio` are `Packet::decode` and `Jitter::push`; L16 and F32 are
types that packets are written with and not read, and leave no trace. Packets
are those that `Packet::encode` writes, with one payload each; the assertion
on that is in `ReceivePath`. What each stream of sound was configured with is
`wanted`, what the jitter decodes all of them to is `decodeAs`, the last one's
type, and from the first packet on `assembler`.
`GetVideo` and `DiscardVideo` are `get_video`: each popped packet goes to the
decoder, or is thrown away, and the last one's size and time to the caller.
`H264Decoder::decode` returns 0 whatever the library says, so a packet without
a picture (`fruitless`) gives the caller the size 0 and the packet's time with
the picture of before, and a raw packet gives the picture with the size and
time of before (`fruitless` too); both are in the model, and `ViewFits` names
them. The
pointer that the caller keeps is `view`, and what it points at is `shown`: only
the next call, or `set_video_params`, which paints it gray, may change it.
Sound is decoded when it arrives: a failed decode keeps the type Opus, and the
assertion in `Audio::push` is on in the build of the `Makefile` (Debug), so
that it ends the program (`stopped`). `GetAudio` and `GetConcealed` are
`get_audio`. The codecs are external: any packet may yield nothing. How many
frames a call takes is free here, and what `VideoJitter` and `AudioJitter`
decide; in turn those leave to chance what decodes. One thread of the
application makes the calls.

**Logging.** `logger->info << a << b << std::flush` is a call on a shared
`LoggingBuf` for each part. `thread_sync` is modelled as it is: a thread finds
the buffer free or its own, or sleeps until it is notified or a second has
passed, and then logs a complaint and takes the buffer from its owner, with
what is in it. `sync` passes the text from the child logger to the root and
through `Log`, a step for each time the facility is read and each lock taken,
beside an application that changes facility and level without any lock
(`SetLogFacility` in two steps: the file is opened, then the field stored). A
log callback may throw: the standard library's ostream catches it and goes bad,
and says no more. The history variables are `logged` (the texts put out),
`stable` (no setting changed since a thread's `Log` began), `misplaced` and
`tookOver`. The three readings of the facility that decide about filtering and
syslog (logger.cc:80 in the child and in the root, 105) are one step
(`PassFilter`): only a change of settings between them could tell, and that is
what `stable` excepts.

**Metrics, EncodeTimes, Telemetry.** `push` sets its flag and notifies without
`push_mutex`, so the pusher tests, falls asleep and wakes in steps of their own
and a notification may fall between. The pusher's walk goes through the
measurements in the order of their names, taking each series in a step of its
own, while jitters are created and record. A second measurement of a name is
not put in the map, and nobody posts what it holds. A post that the server does
not take throws its points away; a refusal ends the thread, and a second
failure of a walk may (`down`). `EncodeTimes` is the encoder of the
application's thread, with the count of pictures that is static in `encode` and
therefore one for all encoders, and its report: the first one reads the
environment, every one makes a measurement and `add_measurement`s it, and the
library keeps the first of a name. `push_loop` collects and posts each second.
`Influx` is what both see of the server: it takes a post or it does not.
`Export` is what both promise: recorded, then gone once, to the server or for
nothing.

## 3. The runs

| run | instance | shows |
|---|---|---|
| `VideoJitter` | 9 frames, two intra, one delivered twice and one lost; queue of 7 | all properties of the video half, both loops against `Sync`, refinement and draining |
| `AudioJitter` | 5 frames, one delivered twice | all properties of the audio half |
| `AudioEncoder` | encoder frame of 3 samples, captures of 2 and 4 | Float32 samples in order, once, at most a frame late in time; none left behind |
| `ReceivePath` | two streams of one client, two messages of any kind | order, losses, parameters before packets, announcements, no lost wakeup |
| `SendPath` | two microphones, a camera, a stream only received; three frames each | names and numbers, groups of pictures |
| `Playout` | two streams of pictures and two of sound of one publisher, three packets of each kind | pictures and sound fit what is said of them |
| `Logging` | two threads, one of them logging twice, messages of two pieces, one change of the settings | texts whole, where they are due, nothing left locked, statements end |
| `Telemetry` | three jitters, two of them under one name; two pictures, with every second one intra | nothing posted twice or back, what is registered leaves, intra pictures come |
| `AudioJitter_lock` | violation of `PopAudioReturns` | `popAudio` before the first packet is measured locks its mutex twice and never returns |
| `AudioEncoder_rates` | violation of `MatchesRates` | a capture of more than two encoder frames is encoded for ever |
| `AudioEncoder_times` | violation of `FromFirstSample` | a packet of Float32 samples that begins inside a captured buffer bears a later time than that of its first sample |
| `ReceivePath_entry` | violation of `EntryFound` | a packet that comes between subscription and entry is dropped as unknown |

The runs that expect a violation state what a comment of the code says; the
findings in `PROJECT.json` quote it.

**What the main properties say.** `QueueSorted`/`GapsConcealed`: the order
every reader relies on holds whatever arrives when. `FramesAccounted`: no frame
disappears uncounted. `QueueFresh` and `NeverBack`: apart from one race - the
age of a packet is checked before the lock is taken, and a pop in between makes
it old (the history variable `overtaken` remembers that this happened) -
nothing old is queued and neither picture nor sound jumps back.
`ReferencesDecoded`: the decoder never gets a frame whose reference it did not
get, wherever in the walk the audio thread moves its clock. There are two
exceptions: the race, and a walk that left early with `pop_video_only`
(`leftEarly`). That action has no count, and its loop pops half of what is
queued, past the frames the walk has seen: after 400 ms without audio, and also
when the walk began without audio, audio came back meanwhile, and a later frame
is then too new for it. The second case needs the clock to move during the
walk: with frame 0 shown and 1, 2 and 4 to 8 queued, TLC finds frame 4 decoded
after 2 when only the 400 ms are excepted. `WalkDecides` and `VideoOnlyTakes` compare the
two loops with `Sync`, the first as long as the clock stands still.
`IsReorderBuffer`: the video queue implements the abstract
`ReorderBuffer`. `IdleBounded`: the prune keeps the recommended level.
`InOrder`: between network and jitter nothing overtakes, so what the jitters
see out of order came out of order. `LostOnlyAtEntry`: what is queued when its
stream is removed still gets through, and a packet is dropped as unknown in two
windows only. `ConfiguredFirst` and `AnnouncedOnce` relate the application's
thread to the work thread through the jitter both find in the registry.
`NamesFollow`: no object is published under a name used before, although
threads share the counter of groups - except after a store that takes the
counter back (`setBack`): a thread that loads it, waits while another stream
publishes and counts on, and then stores, makes that stream repeat a group.
Without the exception TLC finds the repeated name with three frames of one
stream. `GroupsAreGops`: pictures share a group exactly if they depend on the
same intra frame; an intra frame that was encoded and could not be written is
the exception, as it opens no group. `ViewFits` and `SoundFits`: a picture is
shown with its own size and time and under the stream it came from, with the
exceptions that the code has, each a history variable: a packet that did not
give both, streams of one publisher mixed in its jitter. Sound has the type its
stream was configured with (`wanted`) as long as the publisher's streams agree
on one. Where they do not, one decoder serves all of them and is made with the
type configured last before the first packet: a stream that asked for L16 may
hear F32, and all that holds is that some stream asked for it. `Unmixed`: as
long as nobody is slower than a second, each text in the log is one message,
whole and alone; `WrittenWhereDue`: it is written to every place the settings
name and to no other; `QuietIsClean`: whatever was taken over, mixed or thrown
before, once no thread is within a statement both mutexes are free, and so is
the buffer, which is empty, unless the stream went bad. `IsExport`: both
exporters implement `Export`. `TimesBounded`: a packet's time is never before
that of its first sample. It is exact for 16 bit samples and up to a frame late for
Float32, which the run has. `IntraComes`: skipped pictures do not use up the
intra picture that is due. `LoopEnds`, `PlaysOut`, `DrainsToReserve`,
`EncodesAll`, `EveryMessageTaken`, `PointsLeave`, `StatementsEnd`: what must go
on.

**Bounds, and why they are enough.** The queue operations compare a frame with
its neighbours and the last one played. What the `pop_video_only` loop takes
grows with the queue: to get past a gap that the walk has not seen, while the
clock moves, the queue needs seven frames. So `VideoJitter` has nine frames and `MaxSize` 7; frame 3 is lost
(`Lost`), 1 may come twice (`Repeated`), and 0 and 6 are intra, so that one
lies on either side of the gap. To keep this in reach the frames 4 to 8 arrive
in turn (`InTurn`, a conjunct of the run's next-state relation), and 0 to 2 at
any time and in any order between and after them: early, late, played already,
or into a full queue, whose overflow has frames in front of and behind the new
one. One capture time of audio (`AudioTimes` 3) divides the frames into older
and newer ones; with concealment and stalls the clock goes back and forth.
`UIntMax` 8 stands for 2^32 - 1: any value above the queue's length makes the
wrapped bound larger than what is queued. The proofs have none of these
bounds. In `AudioJitter` the fill target is two
frames, so five frames fill it, exceed it, and leave a gap. In `AudioEncoder`
captures of 2 and 4 around a frame of 3 give every case of `fill` (less, equal,
more), buffers that end inside and at the end of a frame, and a backlog of two
frames; `MaxBacklog` bounds the captures not yet encoded but never holds one
back from a sleeping encoder, and `Period` only keeps numbers finite (it
exceeds a frame and a backlog, so that two samples under way never share a
number). In
`ReceivePath` two messages are enough for one to overtake, and two streams of
one client, one of sound and one of pictures, for a jitter that is there
already, for a lookup beside the entry of another stream and for a stream that
is added again; the proofs are for any number of either, and of clients. In
`SendPath` three frames are the least with which a counter taken back repeats a
name. In `Logging` two pieces make a message that another may enter, and a
second message of one thread one that meets the buffer after a take-over; one
change of the settings may fall on any two readings of them. In `Telemetry` two
of three jitters have one name, so that one is not in the map while another is
before and behind the walk; one point each shows loss and repetition. Its
period of intra pictures is two and there are two pictures, so the run sees the
first forced intra picture only; the theorem is for any period and any number
of pictures. In `Playout` three
packets let one be shown, one decoded for nothing and one queued; streams of a
kind are alike (symmetry). The operators hold for any size in the proofs, see
section 4.

**Fairness.** `VideoJitter`: the Swift client asks for a picture every 30 ms
as long as it renders, and finishes the call it is in (WF of `Renderer`, the
steps of `popVideo`). Nothing makes the network deliver, the worker complete a
push, or the audio play. `AudioJitter`: both threads keep
running, and the audio device asks for sound as long as it is open.
`AudioEncoder`: both threads keep running, and the microphone goes on
delivering; this is strong fairness because the bound, which the code does not
have, may disable a delivery again and again. `ReceivePath`: the transport's
thread, once it has queued a message, goes on to notify, and the work thread
keeps running; its loop has no other stop than the wait, a push that is stuck
and the end of the process, which `EveryMessageTaken` names. Nothing makes the
network deliver or the application add a stream. `Logging`: each thread that
is within a statement keeps running, and a second passes. `Telemetry`: the
pusher keeps running and its posts end, and the application goes on calling
`push`, without which a lost notification is never made up for. That is an
assumption about a user of the library: nothing in this repository calls
`push`, nor makes a `Metrics` with a URL.

**Deadlock** is checked where the threads go on for ever (`VideoJitter`,
`AudioEncoder`). `SendPath` has no more to do
when nothing is captured. `ReceivePath` stops when the process ends, in a
search of the map or in an assertion. `Logging`, `Telemetry` and `Playout` end when everything is
logged, recorded or played within the bounds, or when the program ends: an
uncaught error in a report, a decoder of sound that fails. In `AudioJitter` the
program itself stops: the audio thread on its own mutex and the worker behind
it.

## 4. The proofs

`VideoJitterProofs` proves, for every number of frames, every queue bound,
every choice of intra frames, capture times and deliveries, that `VideoJitter`
satisfies all its safety properties: `TypeCorrect`, `QueueStaysSorted`,
`AllFramesAccounted`, `QueueStaysFresh`, `PictureNeverBack`,
`DecoderHasReferences`, `WalkComputesDecision`, `LoopTakesVideoOnlyPops`, and
that it implements `ReorderBuffer` (`VideoQueueIsReorderBuffer`). They assume `VideoJitterAssumption` (the
types of the constants) and `SyncAssumption`.

The inductive invariant is `IInv`: `TypeOK`, `QueueSorted`, `FramesAccounted`
and `QueueFresh` with three strengthenings. `QueueFresh` alone is not
inductive: a push that passed its age check must still be known to be fresh
when it gets the lock (`PushFresh`), which the history variable `overtaken`
tells. The counters tell a repeat from a new frame only because everything in
the video queue is media (`MediaOnly`). And `CallPlaces` says what the
variables of a call are at each place of the renderer: that the walk is within
the queue, and that the action and the count are those of the place.

The argument rests on lemmas about the queue operators (`MetaQueueProofs`):
inserting where the scan stops keeps a sorted sequence sorted, dropping from
the front keeps it sorted and drops the oldest, and a sorted queue of `n`
frames holds `n` numbers, which is what the refinement's capacity needs. A
pass of the loop of pops is reduced to one lemma, `PopFrameEffect`: nothing
leaves, or the first frame does and is discarded or handed over.

`DecoderHasReferences` needs two more invariants, one for each loop. In a
sorted queue newer than the last frame, a frame in its own place has all its
predecessors in theirs (`InOrderBefore`), because the first frame out of place
would push the rest along. So whatever the clock said on the way, a walk that
carries "pop" or "pop_video_only" has only frames in order behind it
(`WalkedInOrder`); and the frames that the loop of pops is going to hand over
continue what it has handed over, the last of a "pop" perhaps as an intra
frame (`ShowsInOrder`). Where "pop_video_only" comes from the end of the
queue, everything queued is in order; where the walk left early with it,
nothing is known of the frames it did not see, and that is the exception
`leftEarly`.

`WalkComputesDecision` needs `SteadyWalk`: beside a clock that stands still no
frame behind the walk was an exit and the action is the verdict on the last of
them, so the exit it comes to is the first (`FirstExit`, `NoExit`).
`LoopTakesVideoOnlyPops` needs `TakenSoFar`: of two frames or more the loop
never takes the last ones, and pops and size are related to the length it
began with, so that the unsigned bound wraps around for a queue of one frame
only.

`AudioJitterProofs` proves all safety properties of `AudioJitter`, from
`AudioJitterAssumption`, for any number of frames, sizes of requests and
deliveries: `TypeCorrect`, `GapsStayConcealed`, `AllFramesAccounted`,
`QueueStaysFresh`, `IdleQueueBounded` and `SoundNeverBack`. The queue operations
are reduced to lemmas in `MetaQueueProofs`: what an insertion adds, what the
concealment pass adds between two neighbours, and what a drop keeps. The
inductive invariant adds four facts. What is queued is a frame that there is
(`SeqsKnown`). Between insertion and concealment the queue may have gaps, so
`GapsConcealed` asks for none only when the worker is not about to conceal;
the audio thread may pop in between, which drops from the front and makes no
gap. A push has a frame exactly while it waits for the lock (`PushingWaits`),
and that frame is fresh unless `overtaken` (`PushFresh`); a number that
concealment makes up lies between two queued ones and is as fresh as they are.
And the bound on an idle client's queue counts the prunes that are still to
come (`IdlePruned`).

`ReceivePathProofs` proves the safety properties of `ReceivePath`, for all
streams, clients and numbers of messages, from `ReceivePathAssumption`:
`TypeCorrect`, `NothingOvertakes`, `NothingElseLost`, `ParametersFirst` and
`ReportedOnce`. Its `IInv` adds three facts to them. `InOrder` becomes
`Ordered`, which also says that no message on its way is numbered higher than
what has arrived, or the next arrival would not be the last. For
`LostOnlyAtEntry`, whatever is on its way and not `early` has an entry
(`EarlyKnown`): entries are never erased, so the mark stays true until the
lookup. For `ConfiguredFirst`, a stream that is subscribed, entered or on its
way has its source configured (`SetBefore`). `AnnouncedOnce` needs that what
is about to be reported has not been (`ReportIsNew`).

`SendPathProofs` proves `TypeOK`, `NamesFollow` and `GroupsAreGops` of `SendPath` from
`SendPathAssumption`, for any number of threads on the counter. The invariant
says for each place of a thread how far the counter is ahead of what its
stream published (`GroupsTaken`): behind the counter at first, no later than
the counter once it has published, no later than the loaded value before it
stores. A store that does not take the counter back preserves this for every
other stream, because the counter only grows. `GroupsAreGops` compares
published pictures with one another; `GopInv` adds how they compare with the
intra frame and the group under way: what is published belongs to the intra
frames so far, and has the open group exactly if it depends on the last of them
(`GopFollows`); before the first one that is group 0.

The second half of that module is about `AudioEncoder`, from
`AudioEncoderAssumption`. `EncoderTypeCorrect` holds for captures of any
lengths. `SoundEncodedInOrder` says that all samples are encoded once and in
the order of capture, and needs that no capture exceeds a frame by more than
one sample. This is not a convenience: from a longer
capture `fill` copies from the beginning each time, not from `read_front`, which the run
`AudioEncoder_rates` shows as a violation of `MatchesRates`.
`PacketTimesBounded` says, for the same captures, how far a packet's time is
from that of its first sample. For 16 bit samples it is exact. `AudioEncoder`
gives `fullFill` the divisor of 16 bit samples for Float32 too, so that the
offset inside a captured buffer counts double and the time is late, by what of
the buffer was read before, which is a frame at most; the run
`AudioEncoder_times` shows it as a violation of `FromFirstSample`.
`EncodedInOrder` speaks of the last packet; its invariant `RunsOn` says that the buffers continue one another up to what was
captured last, and that what is unread of the first begins where the last
packet ended. No fact about flag, wakeup or mutex is in it: safety does not
depend on them, only `EncodesAll` does. Two kinds of lemmas stand under it.
Samples are numbered modulo `Period`, and the prover knows the remainder of a
division by a literal only, so quotient and remainder for a divisor that is a
constant are derived first (`Division`, `RemainderUnique`, `RemainderOfSum`).
And a packet is put together with `FlattenSeq`, a recursive function of the
community modules: that there is one such function and only one is shown by
the least length on which it would fail.

`TelemetryProofs` proves, from the assumptions of the three modules and for any
jitters, names and numbers of points, that both exporters implement `Export`
(`ExportersKeepPromise`). The invariant says that the points of series,
payload, measurement and collection are of different moments (`MetricsInv`,
`EncodeInv`): what is recorded next is numbered higher than all that waits, is
stored or is lost, and nothing that waits has gone already. `IntraPictureComes`
is proved for every period - the code's is 64 - and every number of pictures:
within a period of the count there are fewer pictures since the last intra one
than since its beginning, and the next count begins a new period or has a
remainder one higher (`NextInPeriod`, from division with a remainder).

`PlayoutProofs` proves `SoundFits` and `ViewFits` from `PlayoutAssumption`.
`SoundInv` relates the types of what is queued and was heard to the one decoder
of the jitter, and that to what the streams were configured with. `VideoInv`
says that all packets in the queue are of the jitter's one source unless `mixed`, and that what is shown is what the last packet decoded
gave unless `fruitless`; a call that pops any number of packets is reduced to
its last one that decodes.

`LoggingProofs` proves the three safety properties of `Logging` from
`LoggingAssumption`, for any threads, lengths of messages and changes of the
settings. For `WrittenWhereDue`, `Placed` says for each place in `Log` what
has been written and what is still due. For `QuietIsClean`, somebody holds each
mutex just where the code does (`MutexInv`), and a buffer that is lent or not
empty has a thread that will clear it or release it (`LentInv`): an owner whose
buffer is taken over need not be that thread. For `Unmixed`, as long as
nothing was taken over, the buffer holds the first pieces of its owner's
message and no others (`HolderInv`), and what is on its way to the log or in
it is a whole message (`LoggedInv`).

Every invariant, refinement and other safety property that a passing run
checks is the statement of a theorem. Only model-checked are the liveness
properties `LoopEnds`, `PlaysOut`, `DrainsToReserve`, `EncodesAll`,
`EveryMessageTaken`, `PointsLeave` and `StatementsEnd`, as liveness under
fairness is beyond the proof system, and the violations, which are statements
about one behaviour.

## 5. Not modelled, and the plan

- Silence detection and the resampler convert samples; no state of theirs is
  read by a property.
- The C interface, the command line tools and the Swift client call the rest
  from devices and user interfaces.
- Teardown. `MediaClient_Destroy` deletes the client
  (`extern/neo_media_client.cc:42-45`) while its work thread and the encoders'
  detached threads go on, and adding a stream id once more destroys the stream
  that had it (`media_client.cc:44`), with its encoder, its counters and so its
  names. What threads do with deleted objects is undefined. `ReceivePath` has
  the second addition of a stream (a search that meets it may end the process);
  `SendPath` and `AudioEncoder` model one life of a stream. The destructors of
  `Logger` and `Metrics` run at the end of the process, when their threads are
  still there.
- What ends the program and is not the subject of a model: an Opus encoder that
  fails (`audio_encoder.cc:123-133`), and, in `Playout`, a packet without its
  one payload (`packet.cc:119`), which `ReceivePath` has.
- Time spent: a single frame in video-only mode makes `popVideo` pop nothing
  some 2^32 times with the lock held (`jitter.cc:490-508`). `VideoJitter` has
  these passes, and fairness lets them end. The comment "only single pop for
  video only" (`playout_sync.cc:82`) is about the decision and not about that
  loop, which takes half of a longer queue; the model follows the loop.
- Values torn within their 64 bits: each store and each reading of the audio
  clock is whole.
- Of the logger, `SetLogLevel` by name and the setter of the callback, which
  is called before threads log.
- The jitters' calls of `Metrics`: `JitterFactory` makes its jitters without
  metrics in this repository, so `Metrics` is modelled with any recorders.
- Inside the codecs: which packet yields a picture or sound is free.

Next, in this order:

1. An abstract channel, "what was published for a stream reaches its jitter in
   order", that `SendPath` and `ReceivePath` implement.
2. An abstract specification of the audio queue. `ReorderBuffer` takes one
   number at a time, and concealment adds several in one step, so it does not
   fit as it is.
