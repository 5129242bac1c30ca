----------------------------- MODULE PlayoutProofs -----------------------------
(***************************************************************************)
(* What get_video and get_audio return, for any streams, any number of     *)
(* packets and any choices of the decoders and of the jitter.              *)
(***************************************************************************)
EXTENDS Playout, SequenceTheorems, WellFoundedInduction, TLAPS

-----------------------------------------------------------------------------
(* Sound *)

\* What is in the queue and what was heard has the type of the assembler,
\* which has one that a stream of the publisher wants, and only such a stream
\* was heard.
SoundInv ==
  /\ assembler \in {Nothing} \cup {wanted[b] : b \in Configured}
  /\ audioQueue \in Seq(SampleTypes \cap {assembler})
  /\ audioSource \in AudioStreams => assembler \in SampleTypes
  /\ Configured # {} => decodeAs \in {wanted[b] : b \in Configured}
  /\ wanted \in [AudioStreams -> SampleTypes \cup {Nothing}]
  /\ \A b \in Configured : wanted[b] \in SampleTypes
  /\ heard \in [AudioStreams -> SUBSET (SampleTypes \cap {assembler})]
  /\ \A a \in AudioStreams : heard[a] # {} => a \in Configured
  /\ stopped => failed

\* The types an application hears follow from it.
LEMMA SoundInvFits == SoundInv => SoundFits
  <1> SUFFICES ASSUME SoundInv PROVE SoundFits
    OBVIOUS
  <1>1. ASSUME NEW a \in AudioStreams, NEW type \in heard[a]
        PROVE  /\ type \in {wanted[b] : b \in Configured}
               /\ a \in Configured
    <2>1. type \in SampleTypes /\ type = assembler /\ a \in Configured
      BY <1>1 DEF SoundInv
    <2>2. type # Nothing
      BY <2>1, PlayoutAssumption
    <2> QED
      BY <2>1, <2>2 DEF SoundInv
  <1>2. ASSUME NEW a \in AudioStreams, NEW type \in heard[a], Agree
        PROVE  type = wanted[a]
    BY <1>1, <1>2 DEF Agree
  <1> QED
    BY <1>1, <1>2 DEF SoundInv, SoundFits

\* Playing takes packets off the queue's head.
LEMMA RestOfQueue ==
  ASSUME NEW S, NEW q \in Seq(S), NEW k \in 0..Len(q)
  PROVE  /\ SubSeq(q, k + 1, Len(q)) \in Seq(S)
         /\ Len(SubSeq(q, k + 1, Len(q))) = Len(q) - k
         /\ \A i \in 1..(Len(q) - k) : SubSeq(q, k + 1, Len(q))[i] = q[k + i]
  <1>1. Len(q) \in Nat /\ \A i \in k + 1 .. Len(q) : q[i] \in S
    BY ElementOfSeq, LenProperties
  <1>2. k + 1 \in Int /\ Len(q) \in Int /\ k \in Int
    BY <1>1
  <1> DEFINE d == SubSeq(q, k + 1, Len(q))
  <1>3. /\ d \in Seq(S)
        /\ Len(d) = IF k + 1 <= Len(q) THEN Len(q) - (k + 1) + 1 ELSE 0
        /\ \A i \in 1..(Len(q) - (k + 1) + 1) : d[i] = q[k + 1 + i - 1]
    BY <1>1, <1>2, SubSeqProperties
  <1>4. \A i \in 1..(Len(q) - k) : k + 1 + i - 1 = k + i
    BY <1>2
  <1>5. Len(q) - (k + 1) + 1 = Len(q) - k
    BY <1>2
  <1> HIDE DEF d
  <1>6. Len(d) = Len(q) - k
    BY <1>1, <1>3
  <1>7. \A i \in 1..(Len(q) - k) : d[i] = q[k + i]
    BY <1>3, <1>4, <1>5
  <1> QED
    BY <1>3, <1>6, <1>7 DEF d

\* An Opus packet that arrives.
LEMMA ArriveAudioStep ==
  ASSUME SoundInv, NEW a \in AudioStreams, NEW wire, NEW decodes \in BOOLEAN,
         NEW kept \in BOOLEAN, NEW gap \in BOOLEAN, NEW conceals \in BOOLEAN,
         ArriveAudio(a, wire, decodes, kept, gap, conceals)
  PROVE  SoundInv'
  <1> DEFINE T == SampleTypes \cap {assembler'}
  <1>1. /\ a \in active
        /\ assembler' = IF assembler = Nothing THEN decodeAs ELSE assembler
        /\ UNCHANGED <<active, wanted, decodeAs, heard>> /\ Configured' = Configured
        /\ failed' = (failed \/ ~decodes \/ (gap /\ ~conceals))
    BY DEF ArriveAudio, Configured
  <1>2. /\ decodeAs \in SampleTypes
        /\ decodeAs \in {wanted[b] : b \in Configured}
    BY <1>1 DEF SoundInv, Configured
  <1>3. assembler' \in SampleTypes
    BY <1>1, <1>2 DEF SoundInv
  <1>4. SampleTypes \cap {assembler} \subseteq T
    BY <1>1, PlayoutAssumption
  <1>5. audioQueue \in Seq(T)
    BY <1>4 DEF SoundInv
  <1>6. heard' \in [AudioStreams -> SUBSET T]
    BY <1>1, <1>4 DEF SoundInv
  <1>7. /\ assembler' \in {Nothing} \cup {wanted'[b] : b \in Configured'}
        /\ Configured' # {} => decodeAs' \in {wanted'[b] : b \in Configured'}
        /\ \A b \in Configured' : wanted'[b] \in SampleTypes
        /\ \A b \in AudioStreams : heard'[b] # {} => b \in Configured'
    BY <1>1, <1>2 DEF SoundInv
  <1>8. CASE TypeDecoded(decodes) \notin SampleTypes
    <2>1. stopped' = TRUE /\ UNCHANGED <<audioSource, audioQueue>>
      BY <1>8 DEF ArriveAudio
    <2>2. ~decodes
      BY <1>3, <1>8 DEF TypeDecoded
    <2>3. failed'
      BY <1>1, <2>2
    <2> QED
      BY <1>1, <1>2, <1>3, <1>5, <1>6, <1>7, <2>1, <2>3 DEF SoundInv
  <1>9. CASE TypeDecoded(decodes) \in SampleTypes
    <2> DEFINE filled == IF gap THEN <<assembler'>> ELSE <<>>
    <2> DEFINE added == IF kept THEN <<TypeDecoded(decodes)>> ELSE <<>>
    <2>1. audioQueue' = audioQueue \o filled \o added /\ stopped' = (gap /\ ~conceals)
      BY <1>9 DEF ArriveAudio
    <2>2. TypeDecoded(decodes) = assembler'
      BY <1>9, PlayoutAssumption DEF TypeDecoded
    <2>3. filled \in Seq(T) /\ added \in Seq(T)
      <3>1. assembler' \in T
        BY <1>3
      <3> HIDE DEF T
      <3>2. <<assembler'>> \in Seq(T) /\ << >> \in Seq(T)
        BY <3>1
      <3> QED
        BY <2>2, <3>2
    <2> HIDE DEF filled, added
    <2>4. audioQueue \o filled \in Seq(T)
      BY <1>5, <2>3
    <2>5. audioQueue' \in Seq(T)
      BY <2>1, <2>3, <2>4
    <2>6. stopped' => failed'
      BY <1>1, <2>1
    <2> QED
      BY <1>1, <1>2, <1>3, <1>6, <1>7, <2>5, <2>6 DEF SoundInv
  <1> QED
    BY <1>8, <1>9

\* No step breaks the invariant.
LEMMA SoundStep == SoundInv /\ [Next]_vars => SoundInv'
  <1> SUFFICES ASSUME SoundInv, [Next]_vars PROVE SoundInv'
    OBVIOUS
  <1>1. ASSUME NEW a \in AudioStreams, NEW type \in SampleTypes, AddAudio(a, type)
        PROVE  SoundInv'
    <2>1. /\ wanted' = [wanted EXCEPT ![a] = type] /\ decodeAs' = type
          /\ a \notin Configured /\ Configured' = Configured \cup {a}
          /\ UNCHANGED <<assembler, audioSource, audioQueue, heard, failed, stopped>>
      BY <1>1 DEF AddAudio, Configured
    <2>2. /\ wanted'[a] = type
          /\ \A b \in Configured : b \in AudioStreams /\ wanted'[b] = wanted[b]
      BY <2>1 DEF SoundInv, Configured
    <2>3. {wanted[b] : b \in Configured} \subseteq {wanted'[b] : b \in Configured'}
      BY <2>1, <2>2
    <2> QED
      BY <2>1, <2>2, <2>3 DEF SoundInv
  <1>2. ASSUME NEW a \in AudioStreams, NEW k \in 1..Len(audioQueue), GetAudio(a, k)
        PROVE  SoundInv'
    <2> DEFINE T == SampleTypes \cap {assembler}
    <2>1. UNCHANGED <<active, wanted, decodeAs, assembler, audioSource, failed, stopped>>
          /\ a \in Configured /\ Configured' = Configured
      BY <1>2 DEF GetAudio, Configured
    <2>2. audioQueue \in Seq(T) /\ Len(audioQueue) \in Nat
      BY LenProperties DEF SoundInv
    <2>3. audioQueue' \in Seq(T)
      <3>1. audioQueue' = SubSeq(audioQueue, k + 1, Len(audioQueue))
        BY <1>2 DEF GetAudio
      <3>2. k \in 0..Len(audioQueue)
        BY <2>2
      <3> QED
        BY <2>2, <3>1, <3>2, RestOfQueue
    <2>4. {audioQueue[i] : i \in 1..k} \subseteq T
      BY <2>2, ElementOfSeq
    <2>5. /\ heard' \in [AudioStreams -> SUBSET T]
          /\ \A b \in AudioStreams : b # a => heard'[b] = heard[b]
      BY <1>2, <2>4 DEF GetAudio, SoundInv
    <2> QED
      BY <2>1, <2>3, <2>5 DEF SoundInv
  <1>3. ASSUME NEW a \in AudioStreams, NEW conceals \in BOOLEAN, GetConcealed(a, conceals)
        PROVE  SoundInv'
    BY <1>3 DEF GetConcealed, SoundInv, Configured
  <1>4. ASSUME NEW s \in VideoStreams, AddVideo(s)
        PROVE  SoundInv'
    <2>1. Configured' = Configured /\ UNCHANGED audioVars
      BY <1>4, PlayoutAssumption DEF AddVideo, Configured
    <2> QED
      BY <2>1 DEF audioVars, SoundInv
  <1>5. UNCHANGED <<active, audioVars>> => SoundInv'
    BY DEF audioVars, SoundInv, Configured
  <1>6. ASSUME VideoNext
        PROVE  SoundInv'
    BY <1>4, <1>5, <1>6 DEF VideoNext, ArriveVideo, GetVideo, DiscardVideo
  <1>7. UNCHANGED vars => SoundInv'
    BY <1>5 DEF vars
  <1>8. ASSUME AudioNext
        PROVE  SoundInv'
    BY <1>1, <1>2, <1>3, <1>8, ArriveAudioStep DEF AudioNext
  <1> QED
    BY <1>6, <1>7, <1>8 DEF Next

\* Before anything has come there is no assembler and nothing to hear.
LEMMA SoundInit == Init => SoundInv
  <1> SUFFICES ASSUME Init PROVE SoundInv
    OBVIOUS
  <1>1. audioQueue = << >> /\ audioQueue \in Seq(SampleTypes \cap {assembler})
    BY DEF Init
  <1>2. audioSource \notin AudioStreams /\ Configured = {}
    BY PlayoutAssumption DEF Init, Configured
  <1>3. heard \in [AudioStreams -> SUBSET (SampleTypes \cap {assembler})]
    BY DEF Init
  <1> QED
    BY <1>1, <1>2, <1>3 DEF Init, SoundInv

\* The sound an application gets of a stream is decoded, and of the type that
\* stream was configured with where all of its publisher's agree, else of one
\* another was; only a failing decoder stops the program (jitter.cc:39-50,
\* 149-174, 616-651).
THEOREM SoundAlwaysFits == Spec => []SoundFits
  BY SoundInit, SoundStep, SoundInvFits, PTL DEF Spec

-----------------------------------------------------------------------------
(* Pictures *)

Picture == VideoPacket \cup {Nothing, Gray}
Screen == [picture : Picture, size : Picture, stamp : Picture]

\* A real picture has its own size and time, and comes from the stream that
\* is served, with the exceptions of ViewFits.
Fits(v) ==
  v.picture \notin {Nothing, Gray} =>
    /\ ~fruitless => v.size = v.picture /\ v.stamp = v.picture
    /\ ~mixed => v.picture.source = videoSource

\* What is shown fits, and so does what the served stream was given; no other
\* stream was given anything.
VideoInv ==
  /\ pictures \in Nat
  /\ videoQueue \in Seq(VideoPacket)
  /\ videoSource \in VideoStreams \cup {NoStream}
  /\ shown \in Screen
  /\ view \in [VideoStreams -> Screen \cup {Nothing}]
  /\ ~mixed => \A i \in 1..Len(videoQueue) : videoQueue[i].source = videoSource
  /\ Fits(shown)
  /\ \A s \in VideoStreams :
       view[s] # Nothing =>
         /\ s = videoSource
         /\ Fits(view[s])
         /\ ~repainted => shown = view[s]

\* What get_video returned is thereby a picture of its stream.
LEMMA VideoInvFits == VideoInv => ViewFits
  BY DEF VideoInv, ViewFits, Fits

\* Where the last of the decoded packets is among those of a kind, it is the
\* last of them.
LEMMA LastIsThis ==
  ASSUME NEW k \in Nat, NEW I \in SUBSET (1..k), k \in I, NEW otherwise
  PROVE  LastOf(I, otherwise) = videoQueue[k]
  <1>1. \A j \in I : j <= k /\ j \in Nat
    OBVIOUS
  <1>2. \A i \in I : (\A j \in I : j <= i) => i = k
    BY <1>1
  <1>3. (CHOOSE i \in I : \A j \in I : j <= i) = k
    BY <1>1, <1>2
  <1> QED
    BY <1>3 DEF LastOf

\* The last packet of a kind is one of them.
LEMMA LastIsOne ==
  ASSUME NEW k \in Nat, NEW I \in SUBSET (1..k), I # {}, NEW otherwise
  PROVE  \E i \in I : LastOf(I, otherwise) = videoQueue[i]
  <1> DEFINE D == {k - i : i \in I}
  <1>1. D \in SUBSET Nat /\ D # {}
    <2>1. \A i \in I : k - i \in Nat
      OBVIOUS
    <2>2. PICK i \in I : TRUE
      OBVIOUS
    <2> QED
      BY <2>1, <2>2
  <1> DEFINE R == OpToRel(<, Nat)
  <1>2. IsWellFoundedOn(R, Nat)
    BY NatLessThanWellFounded, Zenon
  <1>3. \A x, y \in Nat : x < y => <<x, y>> \in R
    BY DEF OpToRel
  <1> HIDE DEF R
  <1>4. PICK m \in D : \A y \in D : ~ (<<y, m>> \in R)
    BY <1>1, <1>2, WFMin
  <1>5. \A y \in D : ~ (y < m)
    BY <1>1, <1>3, <1>4, Zenon
  <1>6. PICK i \in I : m = k - i
    BY <1>4
  <1>7. \A j \in I : k - j \in D /\ j \in Nat /\ k - j \in Nat
    BY DEF D
  <1>8. \A j \in I : j <= i
    BY <1>5, <1>6, <1>7
  <1>9. (CHOOSE n \in I : \A j \in I : j <= n) \in I
    BY <1>8
  <1> QED
    BY <1>9 DEF LastOf

\* What the decoder makes of k packets fits as soon as it took any, and shows
\* the picture of one of them or the old one.
LEMMA DecodingFits ==
  ASSUME VideoInv, NEW k \in 0..Len(videoQueue), NEW yields \in [1..k -> BOOLEAN]
  PROVE  LET new == AfterDecoding(k, yields)
         IN /\ new \in Screen
            /\ \/ new.picture = shown.picture
               \/ \E i \in 1..k : new.picture = videoQueue[i]
            /\ k = 0 => new = shown
            /\ k # 0 /\ k \in Decoded(k, yields) => new.size = new.picture /\ new.stamp = new.picture
  <1> DEFINE new == AfterDecoding(k, yields)
  <1> DEFINE D == Decoded(k, yields)
  <1> DEFINE W == SwappedIn(k)
  <1> DEFINE T == Timed(k)
  <1> DEFINE otherwise == IF T = {} THEN shown.size ELSE Nothing
  <1>1. k \in Nat /\ 1..k \subseteq 1..Len(videoQueue)
    BY LenProperties DEF VideoInv
  <1>2. D \subseteq 1..k /\ W \subseteq 1..k /\ T \subseteq 1..k /\ D \subseteq T
    BY DEF Decoded, SwappedIn, Timed
  <1>3. \A i \in 1..k : videoQueue[i] \in VideoPacket
    BY <1>1, ElementOfSeq DEF VideoInv
  <1>4. /\ new.picture = LastOf(D \cup W, shown.picture)
        /\ new.size = LastOf(D, otherwise)
        /\ new.stamp = LastOf(T, shown.stamp)
        /\ new = [picture |-> new.picture, size |-> new.size, stamp |-> new.stamp]
    BY DEF AfterDecoding
  <1> HIDE DEF new, D, W, T
  <1>5. \A I \in SUBSET (1..k) : \A o :
          LastOf(I, o) = o \/ \E i \in 1..k : LastOf(I, o) = videoQueue[i]
    <2> SUFFICES ASSUME NEW I \in SUBSET (1..k), NEW o
                 PROVE  LastOf(I, o) = o \/ \E i \in 1..k : LastOf(I, o) = videoQueue[i]
      OBVIOUS
    <2>1. CASE I = {}
      BY <2>1 DEF LastOf
    <2>2. CASE I # {}
      BY <1>1, <2>2, LastIsOne
    <2> QED
      BY <2>1, <2>2
  <1>6. new.picture = shown.picture \/ \E i \in 1..k : new.picture = videoQueue[i]
    <2>1. D \cup W \in SUBSET (1..k)
      BY <1>2
    <2>2. \/ LastOf(D \cup W, shown.picture) = shown.picture
          \/ \E i \in 1..k : LastOf(D \cup W, shown.picture) = videoQueue[i]
      BY <1>5, <2>1, Zenon
    <2> QED
      BY <1>4, <2>2, Zenon
  <1>7. new \in Screen
    <2>1. shown.picture \in Picture /\ otherwise \in Picture /\ shown.stamp \in Picture
      BY DEF VideoInv, Screen, Picture
    <2>2. new.picture \in Picture
      BY <1>3, <1>6, <2>1 DEF Picture
    <2>3. new.size \in Picture
      BY <1>2, <1>3, <1>4, <1>5, <2>1 DEF Picture
    <2>4. new.stamp \in Picture
      BY <1>2, <1>3, <1>4, <1>5, <2>1 DEF Picture
    <2> QED
      BY <1>4, <2>2, <2>3, <2>4 DEF Screen
  <1>8. ASSUME k = 0 PROVE new = shown
    <2>1. 1..k = {}
      BY <1>8
    <2>2. D = {} /\ W = {} /\ T = {}
      BY <1>2, <2>1
    <2>3. new.picture = shown.picture /\ new.size = shown.size /\ new.stamp = shown.stamp
      BY <1>4, <2>2 DEF LastOf
    <2> QED
      BY <1>4, <2>3 DEF VideoInv, Screen
  <1>9. ASSUME k # 0, k \in D
        PROVE  new.size = new.picture /\ new.stamp = new.picture
    <2>1. D \cup W \in SUBSET (1..k) /\ D \in SUBSET (1..k) /\ T \in SUBSET (1..k)
      BY <1>2
    <2>2. k \in D \cup W /\ k \in T
      BY <1>2, <1>9
    <2>3. new.picture = videoQueue[k]
      BY <1>1, <1>4, <2>1, <2>2, LastIsThis
    <2>4. new.size = videoQueue[k]
      BY <1>1, <1>4, <1>9, <2>1, LastIsThis
    <2>5. new.stamp = videoQueue[k]
      BY <1>1, <1>4, <2>1, <2>2, LastIsThis
    <2> QED
      BY <2>3, <2>4, <2>5
  <1> QED
    BY <1>6, <1>7, <1>8, <1>9 DEF new, D

\* A packet arrives.  When it is the first, nothing was ever shown of another
\* source.
LEMMA ArriveVideoStep ==
  ASSUME VideoInv, NEW s \in VideoStreams, NEW wire, ArriveVideo(s, wire)
  PROVE  VideoInv'
  <1> DEFINE packet == [source |-> s, num |-> pictures, type |-> MediaType(wire)]
  <1>1. /\ pictures' = pictures + 1
        /\ videoSource' = IF videoSource = NoStream THEN s ELSE videoSource
        /\ videoQueue' = Append(videoQueue, packet)
        /\ mixed' = (mixed \/ s # videoSource')
        /\ UNCHANGED <<shown, fruitless, view, repainted>>
    BY DEF ArriveVideo
  <1>2. packet \in VideoPacket
    BY DEF ArriveVideo, VideoPacket, VideoInv
  <1> HIDE DEF packet
  <1>3. videoQueue' \in Seq(VideoPacket)
    BY <1>1, <1>2 DEF VideoInv
  <1>4. /\ Len(videoQueue') = Len(videoQueue) + 1 /\ Len(videoQueue) \in Nat
        /\ \A i \in 1..Len(videoQueue) : videoQueue'[i] = videoQueue[i] /\ videoQueue[i] \in VideoPacket
        /\ videoQueue'[Len(videoQueue) + 1] = packet
    BY <1>1, <1>2 DEF VideoInv
  <1>5. NoStream \notin VideoStreams
    BY PlayoutAssumption
  <1>6. \A p \in VideoPacket : p.source \in VideoStreams
    BY DEF VideoPacket
  <1>7. ASSUME ~mixed', NEW i \in 1..Len(videoQueue')
        PROVE  videoQueue'[i].source = videoSource'
    <2>1. CASE i \in 1..Len(videoQueue)
      <3>1. videoQueue[i].source = videoSource /\ videoQueue[i].source \in VideoStreams
        BY <1>1, <1>4, <1>6, <1>7, <2>1 DEF VideoInv
      <3> QED
        BY <1>1, <1>4, <1>5, <2>1, <3>1
    <2>2. CASE i = Len(videoQueue) + 1
      <3>1. packet.source = s
        BY DEF packet
      <3> QED
        BY <1>1, <1>4, <1>7, <2>2, <3>1
    <2> QED
      BY <1>4, <2>1, <2>2
  <1>8. ASSUME NEW v \in Screen, Fits(v)
        PROVE  Fits(v)'
    <2>1. ASSUME v.picture \notin {Nothing, Gray}, ~mixed'
          PROVE  v.picture.source = videoSource'
      <3>1. v.picture \in VideoPacket
        BY <2>1 DEF Screen, Picture
      <3>2. v.picture.source = videoSource /\ v.picture.source \in VideoStreams
        BY <1>1, <1>6, <1>8, <2>1, <3>1 DEF Fits
      <3> QED
        BY <1>1, <1>5, <3>2
    <2> QED
      BY <1>1, <1>8, <2>1 DEF Fits
  <1>9. Fits(shown)'
    BY <1>1, <1>8 DEF VideoInv, Fits
  <1>10. ASSUME NEW q \in VideoStreams, view'[q] # Nothing
         PROVE  q = videoSource' /\ Fits(view[q])' /\ (~repainted' => shown' = view'[q])
    <2>1. view[q] # Nothing /\ view[q] \in Screen
      BY <1>1, <1>10 DEF VideoInv
    <2>2. q = videoSource /\ Fits(view[q]) /\ (~repainted => shown = view[q])
      BY <2>1 DEF VideoInv
    <2>3. Fits(view[q])'
      BY <1>1, <1>8, <2>1, <2>2 DEF Fits
    <2> QED
      BY <1>1, <1>5, <2>2, <2>3
  <1> QED
    BY <1>1, <1>3, <1>7, <1>9, <1>10 DEF VideoInv

\* A call of get_video that finds pictures.
LEMMA GetVideoStep ==
  ASSUME VideoInv, NEW s \in VideoStreams, NEW k \in 0..Len(videoQueue),
         NEW yields \in [1..k -> BOOLEAN], GetVideo(s, k, yields)
  PROVE  VideoInv'
  <1>1. /\ videoSource = s /\ shown' = AfterDecoding(k, yields)
        /\ videoQueue' = SubSeq(videoQueue, k + 1, Len(videoQueue))
        /\ fruitless' = IF k = 0 THEN fruitless ELSE k \notin Decoded(k, yields)
        /\ view' = [view EXCEPT ![s] = shown']
        /\ UNCHANGED <<videoSource, mixed, pictures>>
    BY DEF GetVideo, Serves
  <1>2. /\ shown' \in Screen
        /\ shown'.picture = shown.picture \/ \E i \in 1..k : shown'.picture = videoQueue[i]
        /\ k = 0 => shown' = shown
        /\ k # 0 /\ k \in Decoded(k, yields) => shown'.size = shown'.picture /\ shown'.stamp = shown'.picture
    BY <1>1, DecodingFits
  <1>3. Len(videoQueue) \in Nat
    BY LenProperties DEF VideoInv
  <1>4. /\ videoQueue' \in Seq(VideoPacket)
        /\ Len(videoQueue') = Len(videoQueue) - k
        /\ \A i \in 1..(Len(videoQueue) - k) : videoQueue'[i] = videoQueue[k + i]
    BY <1>1, RestOfQueue DEF VideoInv
  <1>5. ~mixed' => \A i \in 1..Len(videoQueue') : videoQueue'[i].source = videoSource'
    BY <1>1, <1>3, <1>4 DEF VideoInv
  <1>6. Fits(shown)'
    <2>1. ASSUME shown'.picture \notin {Nothing, Gray}, ~mixed'
          PROVE  shown'.picture.source = videoSource'
      <3>1. \A i \in 1..k : i \in 1..Len(videoQueue)
        BY <1>3
      <3> QED
        BY <1>1, <1>2, <2>1, <3>1 DEF VideoInv, Fits
    <2>2. ASSUME shown'.picture \notin {Nothing, Gray}, ~fruitless'
          PROVE  shown'.size = shown'.picture /\ shown'.stamp = shown'.picture
      BY <1>1, <1>2, <2>2 DEF VideoInv, Fits
    <2> QED
      BY <2>1, <2>2 DEF Fits
  <1>7. view' \in [VideoStreams -> Screen \cup {Nothing}]
    BY <1>1, <1>2 DEF VideoInv
  <1>8. ASSUME NEW q \in VideoStreams, view'[q] # Nothing
        PROVE  q = videoSource' /\ view'[q] = shown'
    BY <1>1, <1>8 DEF VideoInv
  <1>9. \A q \in VideoStreams : view'[q] # Nothing => Fits(view[q])'
    BY <1>6, <1>8 DEF Fits
  <1> QED
    BY <1>1, <1>2, <1>4, <1>5, <1>6, <1>7, <1>8, <1>9 DEF VideoInv

\* A call of get_video that throws pictures away.
LEMMA DiscardVideoStep ==
  ASSUME VideoInv, NEW s \in VideoStreams, NEW k \in 1..Len(videoQueue), DiscardVideo(s, k)
  PROVE  VideoInv'
  <1>1. /\ videoSource = s
        /\ videoQueue' = SubSeq(videoQueue, k + 1, Len(videoQueue))
        /\ view' = [view EXCEPT ![s] = shown]
        /\ UNCHANGED <<videoSource, shown, fruitless, mixed, pictures>>
    BY DEF DiscardVideo, Serves
  <1>2. Len(videoQueue) \in Nat /\ k \in 0..Len(videoQueue)
    BY LenProperties DEF VideoInv
  <1>3. /\ videoQueue' \in Seq(VideoPacket)
        /\ Len(videoQueue') = Len(videoQueue) - k
        /\ \A i \in 1..(Len(videoQueue) - k) : videoQueue'[i] = videoQueue[k + i]
    BY <1>1, <1>2, RestOfQueue DEF VideoInv
  <1>4. ~mixed' => \A i \in 1..Len(videoQueue') : videoQueue'[i].source = videoSource'
    BY <1>1, <1>2, <1>3 DEF VideoInv
  <1>5. Fits(shown)'
    BY <1>1 DEF VideoInv, Fits
  <1>6. view' \in [VideoStreams -> Screen \cup {Nothing}]
    BY <1>1 DEF VideoInv
  <1>7. ASSUME NEW q \in VideoStreams, view'[q] # Nothing
        PROVE  q = videoSource' /\ view'[q] = shown'
    BY <1>1, <1>7 DEF VideoInv
  <1>8. \A q \in VideoStreams : view'[q] # Nothing => Fits(view[q])'
    BY <1>5, <1>7 DEF Fits
  <1> QED
    BY <1>1, <1>3, <1>4, <1>5, <1>6, <1>7, <1>8 DEF VideoInv

\* No step breaks the invariant.
LEMMA VideoStep == VideoInv /\ [Next]_vars => VideoInv'
  <1> SUFFICES ASSUME VideoInv, [Next]_vars PROVE VideoInv'
    OBVIOUS
  <1>1. UNCHANGED videoVars => VideoInv'
    BY DEF videoVars, VideoInv, Fits
  <1>2. ASSUME NEW s \in VideoStreams, AddVideo(s)
        PROVE  VideoInv'
    <2>1. /\ shown' = [shown EXCEPT !.picture = Gray, !.size = Gray] /\ repainted'
          /\ UNCHANGED <<videoSource, videoQueue, fruitless, mixed, view, pictures>>
      BY <1>2 DEF AddVideo, Painted
    <2>2. shown' \in Screen /\ shown'.picture = Gray
      BY <2>1 DEF VideoInv, Screen, Picture
    <2> QED
      BY <2>1, <2>2 DEF VideoInv, Fits
  <1>3. ASSUME VideoNext
        PROVE  VideoInv'
    BY <1>2, <1>3, ArriveVideoStep, GetVideoStep, DiscardVideoStep DEF VideoNext
  <1>4. ASSUME AudioNext
        PROVE  VideoInv'
    <2>1. \A a, type : AddAudio(a, type) => UNCHANGED videoVars
      BY DEF AddAudio
    <2>2. \A a, wire, decodes, kept, gap, conceals :
            ArriveAudio(a, wire, decodes, kept, gap, conceals) => UNCHANGED videoVars
      BY DEF ArriveAudio
    <2>3. \A a, k : GetAudio(a, k) => UNCHANGED videoVars
      BY DEF GetAudio
    <2>4. \A a, conceals : GetConcealed(a, conceals) => UNCHANGED videoVars
      BY DEF GetConcealed
    <2> QED
      BY <1>1, <1>4, <2>1, <2>2, <2>3, <2>4, Zenon DEF AudioNext
  <1>5. UNCHANGED vars => VideoInv'
    BY <1>1 DEF vars
  <1> QED
    BY <1>3, <1>4, <1>5 DEF Next

\* Before anything has come nothing is shown.
LEMMA VideoInit == Init => VideoInv
  <1> SUFFICES ASSUME Init PROVE VideoInv
    OBVIOUS
  <1>1. shown \in Screen /\ shown.picture = Nothing
    BY DEF Init, Screen, Picture
  <1>2. videoQueue = << >> /\ videoQueue \in Seq(VideoPacket) /\ Len(videoQueue) = 0
    BY DEF Init
  <1> QED
    BY <1>1, <1>2 DEF Init, VideoInv, Fits

\* What get_video returned of a stream is a picture of it with its own size and
\* time, but for the two exceptions, and stays what the application looks at
\* (jitter.cc:333-399, 52-66).
THEOREM ViewAlwaysFits == Spec => []ViewFits
  BY VideoInit, VideoStep, VideoInvFits, PTL DEF Spec
================================================================================
