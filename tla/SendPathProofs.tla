---------------------------- MODULE SendPathProofs ----------------------------
(***************************************************************************)
(* What holds of SendPath for any streams and any number of frames: its    *)
(* types, that names and numbers rise together, and that pictures are      *)
(* published in the group of the intra frame they depend on.  And what     *)
(* holds of AudioEncoder, which feeds it with sound, for any lengths of    *)
(* captured buffers and encoder frames: no sample is lost or moved.        *)
(***************************************************************************)
EXTENDS SendPath, AudioEncoder, SequenceTheorems, WellFoundedInduction, TLAPS

\* A stream's numbers are below the next one, and below the one in the hand of
\* its encoder thread.
NumbersTaken ==
  \A s \in Streams : \A i \in 1..Len(published[s]) :
    /\ published[s][i].num < encodeSequenceNum[s]
    /\ s \in AudioStreams /\ callback[s] = "send" =>
         published[s][i].num < encodeSequenceNum[s] - 1

\* What is about to be published has taken a number.
SendsNumber ==
  \A s \in AudioStreams : callback[s] = "send" => encodeSequenceNum[s] > 0

\* As long as no thread took the counter back, what a stream published is
\* behind the counter, and behind what its thread will store.
GroupsTaken ==
  ~setBack =>
    \A s \in AudioStreams : \A i \in 1..Len(published[s]) :
      /\ callback[s] \in {"idle", "send"} => published[s][i].group < groupId
      /\ callback[s] = "add" => published[s][i].group <= groupId
      /\ callback[s] = "store" => published[s][i].group <= loaded[s]

\* A video stream's counters are ahead of what it published.
ObjectsTaken ==
  \A s \in VideoStreams : \A i \in 1..Len(published[s]) :
    \/ published[s][i].group < group[s].id
    \/ published[s][i].group = group[s].id /\ published[s][i].object < group[s].object

\* NamesFollow compares what was published; its induction needs where the
\* counters are, in each place of a thread.
IInv ==
  /\ TypeOK
  /\ SendsNumber
  /\ NumbersTaken
  /\ GroupsTaken
  /\ ObjectsTaken
  /\ NamesFollow

\* What SendData does to the published objects of each stream.
LEMMA SendDataEffect ==
  ASSUME TypeOK, NEW s \in Streams, NEW o \in Object, SendData(s, o)
  PROVE  /\ published' \in [Streams -> Seq(Object)]
         /\ \A t \in Streams \ {s} : published'[t] = published[t]
         /\ Len(published[s]) \in Nat
         /\ Len(published'[s]) = Len(published[s]) + 1
         /\ \A i \in 1..Len(published[s]) : published'[s][i] = published[s][i]
         /\ published'[s][Len(published[s]) + 1] = o
<1>1. published[s] \in Seq(Object)
  BY DEF TypeOK
<1>2. /\ published'[s] = Append(published[s], o)
      /\ \A t \in Streams \ {s} : published'[t] = published[t]
  BY DEF TypeOK, SendData
<1>3. Append(published[s], o) \in Seq(Object)
  BY <1>1, AppendProperties
<1>4. published' \in [Streams -> Seq(Object)]
  BY <1>1, <1>3 DEF TypeOK, SendData
<1> QED
  BY <1>1, <1>2, <1>4, AppendProperties, LenProperties

\* The length of what a stream published, and that its entries are objects.
LEMMA PublishedType ==
  ASSUME TypeOK, NEW s \in Streams
  PROVE  /\ Len(published[s]) \in Nat
         /\ \A i \in 1..Len(published[s]) :
              /\ published[s][i] \in Object
              /\ published[s][i].num \in Nat
              /\ published[s][i].group \in Nat
              /\ published[s][i].object \in Nat
<1>1. published[s] \in Seq(Object)
  BY DEF TypeOK
<1>2. \A i \in 1..Len(published[s]) : published[s][i] \in Object
  BY <1>1, ElementOfSeq
<1> QED
  BY <1>1, <1>2, LenProperties DEF Object

\* What SendVideo does to the counters of its stream, and what it publishes.
LEMMA SendVideoEffect ==
  ASSUME TypeOK, NEW s \in VideoStreams, NEW type \in Encoded,
         NEW written \in BOOLEAN, SendVideo(s, type, written)
  PROVE  /\ gop' \in [VideoStreams -> Nat]
         /\ lostIntra' \in [VideoStreams -> SUBSET Nat]
         /\ group' \in [VideoStreams ->
                          [id : Nat, object : Nat, gotFirstIdr : BOOLEAN]]
         /\ \A t \in VideoStreams \ {s} : group'[t] = group[t]
         /\ \/ UNCHANGED <<published, group>>
            \/ \E o \in Object :
                 /\ SendData(s, o)
                 /\ o.num = encodeSequenceNum[s]
                 /\ o.group = group'[s].id
                 /\ group'[s].object = o.object + 1
                 /\ \/ o.group = group[s].id /\ o.object = group[s].object
                    \/ o.group = group[s].id + 1
<1> DEFINE Counters == [id : Nat, object : Nat, gotFirstIdr : BOOLEAN]
           g == IF type = "intra" THEN OpenGroup(group[s]) ELSE group[s]
           n == IF type = "intra" THEN gop[s] + 1 ELSE gop[s]
           o == [group |-> g.id, object |-> g.object,
                 num |-> encodeSequenceNum[s], intra |-> type = "intra",
                 gop |-> n]
<1>1. /\ encodeSequenceNum[s] \in Nat
      /\ group[s] \in Counters /\ gop[s] \in Nat
  BY SendPathAssumption DEF TypeOK, Streams
<1>2. /\ g \in Counters
      /\ \/ g.id = group[s].id /\ g.object = group[s].object
         \/ g.id = group[s].id + 1
  <2>1. CASE type = "intra" /\ group[s].gotFirstIdr
    <3>1. g = [id |-> group[s].id + 1, object |-> 0, gotFirstIdr |-> TRUE]
      BY <2>1 DEF OpenGroup
    <3>2. group[s].id + 1 \in Nat /\ 0 \in Nat
      BY <1>1
    <3> HIDE DEF g
    <3>3. g.id = group[s].id + 1
      BY <3>1
    <3>4. g \in Counters
      BY <3>1, <3>2, Zenon
    <3> QED
      BY <3>3, <3>4
  <2>2. CASE type = "intra" /\ ~group[s].gotFirstIdr
    <3>1. g = [group[s] EXCEPT !.gotFirstIdr = TRUE]
      BY <2>2 DEF OpenGroup
    <3> QED
      BY <1>1, <3>1
  <2>3. CASE type # "intra"
    BY <1>1, <2>3
  <2> QED
    BY <2>1, <2>2, <2>3
<1>3. n \in Nat /\ gop' = [gop EXCEPT ![s] = n] /\ gop'[s] = n
  BY <1>1 DEF SendVideo, TypeOK
<1>4. gop' \in [VideoStreams -> Nat]
  BY <1>3 DEF TypeOK
<1>5. o \in Object
  BY <1>1, <1>2, <1>3 DEF Object
<1>6. CASE written
  <2>1. /\ SendData(s, o)
        /\ group' = [group EXCEPT ![s] = [g EXCEPT !.object = @ + 1]]
        /\ UNCHANGED lostIntra
    BY <1>3, <1>6 DEF SendVideo
  <2>2. /\ [g EXCEPT !.object = @ + 1] \in Counters
        /\ [g EXCEPT !.object = @ + 1].id = g.id
        /\ [g EXCEPT !.object = @ + 1].object = g.object + 1
    BY <1>2
  <2>3. /\ group' \in [VideoStreams -> Counters]
        /\ group'[s] = [g EXCEPT !.object = @ + 1]
        /\ \A t \in VideoStreams \ {s} : group'[t] = group[t]
    BY <2>1, <2>2 DEF TypeOK
  <2>4. /\ o.num = encodeSequenceNum[s]
        /\ o.group = g.id /\ o.object = g.object
    OBVIOUS
  <2>5. \E x \in Object :
                 /\ SendData(s, x)
                 /\ x.num = encodeSequenceNum[s]
                 /\ x.group = group'[s].id
                 /\ group'[s].object = x.object + 1
                 /\ \/ x.group = group[s].id /\ x.object = group[s].object
                    \/ x.group = group[s].id + 1
    <3> HIDE DEF o
    <3>1. /\ o.group = group'[s].id
          /\ group'[s].object = o.object + 1
          /\ \/ o.group = group[s].id /\ o.object = group[s].object
             \/ o.group = group[s].id + 1
      BY <1>2, <2>2, <2>3, <2>4
    <3> QED
      BY <1>5, <2>1, <2>4, <3>1
  <2> QED
    BY <1>4, <2>1, <2>3, <2>5 DEF TypeOK
<1>7. CASE ~written
  <2>1. /\ UNCHANGED <<published, group>>
        /\ lostIntra' = [lostIntra EXCEPT ![s] =
                           IF type = "intra" THEN @ \cup {n} ELSE @]
    BY <1>3, <1>7 DEF SendVideo
  <2>2. lostIntra' \in [VideoStreams -> SUBSET Nat]
    BY <1>3, <2>1 DEF TypeOK
  <2> QED
    BY <1>4, <2>1, <2>2 DEF TypeOK
<1> QED
  BY <1>6, <1>7

-----------------------------------------------------------------------------
LEMMA TypeInit == Init => TypeOK
<1>1. \A S : <<>> \in Seq(S)
  BY EmptySeq
<1>2. 0 \in 0..MaxFrames /\ 0 \in Nat
  BY SendPathAssumption
<1>3. ASSUME Init
      PROVE  /\ published \in [Streams -> Seq(Object)]
             /\ group \in [VideoStreams ->
                             [id : Nat, object : Nat, gotFirstIdr : BOOLEAN]]
             /\ lostIntra \in [VideoStreams -> SUBSET Nat]
  BY <1>1, <1>3 DEF Init
<1> QED
  BY <1>2, <1>3, Zenon DEF Init, TypeOK

LEMMA TypeStep == TypeOK /\ SendsNumber /\ [Next]_vars => TypeOK'
<1> SUFFICES ASSUME TypeOK, SendsNumber, [Next]_vars
             PROVE  TypeOK'
  OBVIOUS
<1> USE SendPathAssumption
<1>1. ASSUME NEW s \in AudioStreams, AudioNumber(s)
      PROVE  TypeOK'
  BY <1>1 DEF TypeOK, AudioNumber, videoVars, Streams
<1>2. ASSUME NEW s \in AudioStreams, AudioSend(s)
      PROVE  TypeOK'
  <2> DEFINE o == [group |-> groupId, object |-> 0,
                   num |-> encodeSequenceNum[s] - 1,
                   intra |-> FALSE, gop |-> 0]
  <2>1. s \in Streams /\ SendData(s, o)
    BY <1>2 DEF AudioSend, Streams
  <2>2. o \in Object
    BY <1>2, <2>1 DEF AudioSend, SendsNumber, TypeOK, Object
  <2>3. published' \in [Streams -> Seq(Object)]
    BY <2>1, <2>2, SendDataEffect
  <2> QED
    BY <1>2, <2>3 DEF TypeOK, AudioSend, videoVars
<1>3. ASSUME NEW s \in AudioStreams, AudioLoad(s)
      PROVE  TypeOK'
  BY <1>3 DEF TypeOK, AudioLoad, videoVars
<1>4. ASSUME NEW s \in AudioStreams, AudioStore(s)
      PROVE  TypeOK'
  BY <1>4 DEF TypeOK, AudioStore, NextGroup, videoVars
<1>5. ASSUME NEW s \in VideoStreams, NEW type \in Encoded,
             NEW written \in BOOLEAN, SendVideo(s, type, written)
      PROVE  TypeOK'
  <2>1. s \in Streams
    BY DEF Streams
  <2>2. published' \in [Streams -> Seq(Object)]
    <3>1. CASE UNCHANGED <<published, group>>
      BY <3>1 DEF TypeOK
    <3>2. ASSUME NEW o \in Object, SendData(s, o)
          PROVE  published' \in [Streams -> Seq(Object)]
      BY <2>1, <3>2, SendDataEffect
    <3> QED
      BY <1>5, <3>1, <3>2, SendVideoEffect
  <2>3. encodeSequenceNum' \in [Streams -> 0..MaxFrames]
    BY <1>5, <2>1 DEF TypeOK, SendVideo
  <2> QED
    BY <1>5, <2>2, <2>3, SendVideoEffect DEF TypeOK, SendVideo, audioVars
<1>6. CASE UNCHANGED vars
  BY <1>6 DEF TypeOK, vars, audioVars, videoVars
<1> QED
  BY <1>1, <1>2, <1>3, <1>4, <1>5, <1>6 DEF Next, AudioCallback

-----------------------------------------------------------------------------
\* The threads' steps by name.
LEMMA Steps ==
  ASSUME [Next]_vars
  PROVE  \/ \E s \in AudioStreams : AudioNumber(s)
         \/ \E s \in AudioStreams : AudioSend(s)
         \/ \E s \in AudioStreams : AudioLoad(s)
         \/ \E s \in AudioStreams : AudioStore(s)
         \/ \E s \in VideoStreams, type \in Encoded, written \in BOOLEAN :
              SendVideo(s, type, written)
         \/ UNCHANGED vars
<1>1. CASE Next
  BY <1>1, Zenon DEF Next, AudioCallback
<1> QED
  BY <1>1

\* Publishing what has a later name and number keeps names and numbers rising.
LEMMA NamesAppend ==
  ASSUME TypeOK, NamesFollow, NEW s \in Streams, NEW o \in Object,
         SendData(s, o), UNCHANGED setBack,
         \A i \in 1..Len(published[s]) :
           /\ published[s][i].num < o.num
           /\ (s \in AudioStreams => ~setBack) => Before(published[s][i], o)
  PROVE  NamesFollow'
<1> SUFFICES ASSUME NEW t \in Streams,
                    NEW i \in 1..Len(published'[t]),
                    NEW j \in 1..Len(published'[t]), i < j
             PROVE  /\ published'[t][i].num < published'[t][j].num
                    /\ (t \in AudioStreams => ~setBack) =>
                         Before(published'[t][i], published'[t][j])
  BY DEF NamesFollow, Before
<1>1. CASE t # s
  <2>1. published'[t] = published[t]
    BY <1>1, SendDataEffect
  <2> QED
    BY <2>1 DEF NamesFollow
<1>2. CASE t = s
  <2> DEFINE n == Len(published[s])
  <2>1. n \in Nat /\ Len(published'[s]) = n + 1
    BY SendDataEffect
  <2>2. i \in 1..n /\ published'[s][i] = published[s][i]
    BY <1>2, <2>1, SendDataEffect
  <2>3. CASE j \in 1..n
    <3>1. published'[s][j] = published[s][j]
      BY <2>3, SendDataEffect
    <3> QED
      BY <1>2, <2>2, <2>3, <3>1 DEF NamesFollow
  <2>4. CASE j = n + 1
    <3>1. published'[s][j] = o
      BY <2>4, SendDataEffect
    <3> QED
      BY <1>2, <2>2, <3>1
  <2> QED
    BY <1>2, <2>1, <2>3, <2>4
<1> QED
  BY <1>1, <1>2

\* A thread that takes a number disturbs nothing that is published.
LEMMA NumberStep ==
  ASSUME IInv, NEW s \in AudioStreams, AudioNumber(s)
  PROVE  SendsNumber' /\ NumbersTaken' /\ GroupsTaken' /\ ObjectsTaken'
         /\ NamesFollow'
<1>1. /\ UNCHANGED <<published, groupId, loaded, setBack, group>>
      /\ callback[s] = "idle" /\ callback'[s] \in {"idle", "send"}
      /\ \A t \in AudioStreams \ {s} : callback'[t] = callback[t]
      /\ s \in Streams
      /\ encodeSequenceNum[s] \in Nat
      /\ encodeSequenceNum'[s] = encodeSequenceNum[s] + 1
      /\ \A t \in Streams \ {s} : encodeSequenceNum'[t] = encodeSequenceNum[t]
  BY SendPathAssumption DEF IInv, TypeOK, AudioNumber, videoVars, Streams
<1>2. SendsNumber'
  BY <1>1 DEF IInv, SendsNumber, Streams
<1>3. NumbersTaken'
  <2> SUFFICES ASSUME NEW t \in Streams, NEW i \in 1..Len(published[t])
               PROVE  /\ published[t][i].num < encodeSequenceNum'[t]
                      /\ t \in AudioStreams /\ callback'[t] = "send" =>
                           published[t][i].num < encodeSequenceNum'[t] - 1
    BY <1>1 DEF NumbersTaken
  <2>1. CASE t # s
    BY <1>1, <2>1 DEF IInv, NumbersTaken
  <2>2. CASE t = s
    <3>1. published[s][i].num < encodeSequenceNum[s]
      BY <2>2 DEF IInv, NumbersTaken
    <3>2. published[s][i].num \in Nat
      BY <2>2, PublishedType DEF IInv
    <3> QED
      BY <1>1, <2>2, <3>1, <3>2
  <2> QED
    BY <2>1, <2>2
<1>4. GroupsTaken'
  BY <1>1 DEF IInv, GroupsTaken
<1>5. ObjectsTaken'
  BY <1>1 DEF IInv, ObjectsTaken
<1>6. NamesFollow'
  BY <1>1 DEF IInv, NamesFollow, Before
<1> QED
  BY <1>2, <1>3, <1>4, <1>5, <1>6

\* A thread publishes under the group it finds: the counter is ahead of what
\* its stream published.
LEMMA SendStep ==
  ASSUME IInv, NEW s \in AudioStreams, AudioSend(s)
  PROVE  SendsNumber' /\ NumbersTaken' /\ GroupsTaken' /\ ObjectsTaken'
         /\ NamesFollow'
<1> DEFINE o == [group |-> groupId, object |-> 0,
                 num |-> encodeSequenceNum[s] - 1, intra |-> FALSE, gop |-> 0]
           n == Len(published[s])
<1>1. /\ UNCHANGED <<encodeSequenceNum, groupId, loaded, setBack, group>>
      /\ callback[s] = "send" /\ callback'[s] = "add"
      /\ \A t \in AudioStreams \ {s} : callback'[t] = callback[t]
      /\ s \in Streams /\ s \notin VideoStreams
      /\ encodeSequenceNum[s] \in Nat /\ encodeSequenceNum[s] > 0
      /\ groupId \in Nat
      /\ SendData(s, o)
  BY SendPathAssumption
     DEF IInv, TypeOK, SendsNumber, AudioSend, videoVars, Streams
<1>2. o \in Object
  BY <1>1 DEF Object
<1>3. /\ \A t \in Streams \ {s} : published'[t] = published[t]
      /\ n \in Nat /\ Len(published'[s]) = n + 1
      /\ \A i \in 1..n : published'[s][i] = published[s][i]
      /\ published'[s][n + 1] = o
  BY <1>1, <1>2, SendDataEffect DEF IInv
<1>4. /\ o.num = encodeSequenceNum[s] - 1 /\ o.group = groupId
      /\ o.num < encodeSequenceNum[s]
  BY <1>1
<1> HIDE DEF o, n
<1>5. SendsNumber'
  BY <1>1 DEF IInv, SendsNumber
<1>6. NumbersTaken'
  <2> SUFFICES ASSUME NEW t \in Streams, NEW i \in 1..Len(published'[t])
               PROVE  /\ published'[t][i].num < encodeSequenceNum[t]
                      /\ t \in AudioStreams /\ callback'[t] = "send" =>
                           published'[t][i].num < encodeSequenceNum[t] - 1
    BY <1>1 DEF NumbersTaken
  <2>1. CASE t # s
    BY <1>1, <1>3, <2>1 DEF IInv, NumbersTaken
  <2>2. CASE t = s /\ i = n + 1
    BY <1>1, <1>3, <1>4, <2>2
  <2>3. CASE t = s /\ i \in 1..n
    BY <1>1, <1>3, <2>3 DEF IInv, NumbersTaken, n
  <2> QED
    BY <1>3, <2>1, <2>2, <2>3
<1>7. GroupsTaken'
  <2> SUFFICES ASSUME ~setBack, NEW t \in AudioStreams,
                      NEW i \in 1..Len(published'[t])
               PROVE  /\ callback'[t] \in {"idle", "send"} =>
                           published'[t][i].group < groupId
                      /\ callback'[t] = "add" => published'[t][i].group <= groupId
                      /\ callback'[t] = "store" =>
                           published'[t][i].group <= loaded[t]
    BY <1>1 DEF GroupsTaken
  <2>1. CASE t # s
    BY <1>1, <1>3, <2>1 DEF IInv, GroupsTaken, Streams
  <2>2. CASE t = s /\ i = n + 1
    BY <1>1, <1>3, <1>4, <2>2
  <2>3. CASE t = s /\ i \in 1..n
    BY <1>1, <1>3, <2>3, PublishedType DEF IInv, GroupsTaken, n
  <2> QED
    BY <1>3, <2>1, <2>2, <2>3
<1>8. ObjectsTaken'
  BY <1>1, <1>3 DEF IInv, ObjectsTaken, Streams
<1>9. NamesFollow'
  <2>1. \A i \in 1..Len(published[s]) :
          /\ published[s][i].num < o.num
          /\ ~setBack => Before(published[s][i], o)
    BY <1>1, <1>4 DEF IInv, NumbersTaken, GroupsTaken, Before
  <2> QED
    BY <1>1, <1>2, <2>1, NamesAppend DEF IInv
<1> QED
  BY <1>5, <1>6, <1>7, <1>8, <1>9

\* A load finds the counter no lower than what its stream published.
LEMMA LoadStep ==
  ASSUME IInv, NEW s \in AudioStreams, AudioLoad(s)
  PROVE  SendsNumber' /\ NumbersTaken' /\ GroupsTaken' /\ ObjectsTaken'
         /\ NamesFollow'
<1>1. /\ UNCHANGED <<encodeSequenceNum, published, groupId, setBack, group>>
      /\ callback[s] = "add" /\ callback'[s] = "store"
      /\ loaded'[s] = groupId
      /\ \A t \in AudioStreams \ {s} :
           callback'[t] = callback[t] /\ loaded'[t] = loaded[t]
  BY DEF IInv, TypeOK, AudioLoad, videoVars
<1>2. SendsNumber'
  BY <1>1 DEF IInv, SendsNumber
<1>3. NumbersTaken'
  BY <1>1 DEF IInv, NumbersTaken
<1>4. GroupsTaken'
  BY <1>1 DEF IInv, GroupsTaken
<1>5. ObjectsTaken'
  BY <1>1 DEF IInv, ObjectsTaken
<1>6. NamesFollow'
  BY <1>1 DEF IInv, NamesFollow, Before
<1> QED
  BY <1>2, <1>3, <1>4, <1>5, <1>6

\* A store that does not take the counter back leaves it ahead of every
\* stream, and of its own.
LEMMA StoreStep ==
  ASSUME IInv, NEW s \in AudioStreams, AudioStore(s)
  PROVE  SendsNumber' /\ NumbersTaken' /\ GroupsTaken' /\ ObjectsTaken'
         /\ NamesFollow'
<1>1. /\ UNCHANGED <<encodeSequenceNum, published, loaded, group>>
      /\ callback[s] = "store" /\ callback'[s] = "idle"
      /\ \A t \in AudioStreams \ {s} : callback'[t] = callback[t]
      /\ loaded[s] \in Nat /\ groupId \in Nat
      /\ groupId' = loaded[s] + 1
  BY DEF IInv, TypeOK, AudioStore, NextGroup, videoVars
<1>2. ~setBack' => ~setBack /\ groupId <= groupId'
  <2>1. ~setBack' => ~setBack /\ ~(groupId' < groupId)
    BY Zenon DEF AudioStore
  <2>2. ~(groupId' < groupId) => groupId <= groupId'
    BY <1>1
  <2> QED
    BY <2>1, <2>2
<1>3. SendsNumber'
  BY <1>1 DEF IInv, SendsNumber
<1>4. NumbersTaken'
  BY <1>1 DEF IInv, NumbersTaken
<1>5. GroupsTaken'
  <2> SUFFICES ASSUME ~setBack', NEW t \in AudioStreams,
                      NEW i \in 1..Len(published[t])
               PROVE  /\ callback'[t] \in {"idle", "send"} =>
                           published[t][i].group < groupId'
                      /\ callback'[t] = "add" => published[t][i].group <= groupId'
                      /\ callback'[t] = "store" =>
                           published[t][i].group <= loaded[t]
    BY <1>1 DEF GroupsTaken
  <2>1. published[t][i].group \in Nat
    BY PublishedType DEF IInv, Streams
  <2>2. CASE t # s
    <3>1. /\ callback[t] \in {"idle", "send"} => published[t][i].group < groupId
          /\ callback[t] = "add" => published[t][i].group <= groupId
          /\ callback[t] = "store" => published[t][i].group <= loaded[t]
      BY <1>2 DEF IInv, GroupsTaken
    <3>2. callback'[t] = callback[t]
      BY <1>1, <2>2
    <3>3. groupId <= groupId' /\ groupId \in Nat /\ groupId' \in Nat
      BY <1>1, <1>2
    <3> QED
      BY <2>1, <3>1, <3>2, <3>3
  <2>3. CASE t = s
    <3>1. published[s][i].group <= loaded[s]
      BY <1>1, <1>2, <2>3 DEF IInv, GroupsTaken
    <3> QED
      BY <1>1, <2>1, <2>3, <3>1
  <2> QED
    BY <2>2, <2>3
<1>6. ObjectsTaken'
  BY <1>1 DEF IInv, ObjectsTaken
<1>7. NamesFollow'
  BY <1>1, <1>2 DEF IInv, NamesFollow, Before
<1> QED
  BY <1>3, <1>4, <1>5, <1>6, <1>7

\* A picture's name is that of the counters, which then go past it.
LEMMA VideoStep ==
  ASSUME IInv, NEW s \in VideoStreams, NEW type \in Encoded,
         NEW written \in BOOLEAN, SendVideo(s, type, written)
  PROVE  SendsNumber' /\ NumbersTaken' /\ GroupsTaken' /\ ObjectsTaken'
         /\ NamesFollow'
<1> DEFINE n == Len(published[s])
<1>1. /\ UNCHANGED <<callback, groupId, loaded, setBack>>
      /\ s \in Streams /\ s \notin AudioStreams
      /\ encodeSequenceNum[s] \in Nat
      /\ encodeSequenceNum'[s] = encodeSequenceNum[s] + 1
      /\ \A t \in Streams \ {s} : encodeSequenceNum'[t] = encodeSequenceNum[t]
      /\ \A t \in AudioStreams : t \in Streams /\ t # s
      /\ group[s].id \in Nat /\ group[s].object \in Nat
  BY SendPathAssumption DEF IInv, TypeOK, SendVideo, audioVars, Streams
<1>2. SendsNumber'
  BY <1>1 DEF IInv, SendsNumber
<1>3. CASE UNCHANGED <<published, group>>
  <2>1. NumbersTaken'
    <3> SUFFICES ASSUME NEW t \in Streams, NEW i \in 1..Len(published[t])
                 PROVE  /\ published[t][i].num < encodeSequenceNum'[t]
                        /\ t \in AudioStreams /\ callback[t] = "send" =>
                             published[t][i].num < encodeSequenceNum'[t] - 1
      BY <1>1, <1>3 DEF NumbersTaken
    <3>1. CASE t # s
      BY <1>1, <3>1 DEF IInv, NumbersTaken
    <3>2. CASE t = s
      BY <1>1, <3>2, PublishedType DEF IInv, NumbersTaken
    <3> QED
      BY <3>1, <3>2
  <2>2. GroupsTaken' /\ ObjectsTaken'
    BY <1>1, <1>3 DEF IInv, GroupsTaken, ObjectsTaken
  <2>3. NamesFollow'
    <3>1. UNCHANGED <<published, setBack>>
      BY <1>1, <1>3
    <3>2. NamesFollow
      BY DEF IInv
    <3> QED
      BY <3>1, <3>2 DEF NamesFollow, Before
  <2> QED
    BY <1>2, <2>1, <2>2, <2>3
<1>4. ASSUME NEW o \in Object, SendData(s, o), o.num = encodeSequenceNum[s],
             o.group = group'[s].id, group'[s].object = o.object + 1,
             \/ o.group = group[s].id /\ o.object = group[s].object
             \/ o.group = group[s].id + 1
      PROVE  NumbersTaken' /\ GroupsTaken' /\ ObjectsTaken' /\ NamesFollow'
  <2>1. /\ \A t \in Streams \ {s} : published'[t] = published[t]
        /\ n \in Nat /\ Len(published'[s]) = n + 1
        /\ \A i \in 1..n : published'[s][i] = published[s][i]
        /\ published'[s][n + 1] = o
    BY <1>1, <1>4, SendDataEffect DEF IInv
  <2>2. \A i \in 1..n :
          /\ published[s][i].num < o.num
          /\ Before(published[s][i], o)
    <3> SUFFICES ASSUME NEW i \in 1..n
                 PROVE  /\ published[s][i].num < o.num
                        /\ Before(published[s][i], o)
      OBVIOUS
    <3>1. published[s][i].num < o.num
      BY <1>1, <1>4 DEF IInv, NumbersTaken
    <3>2. /\ published[s][i].group \in Nat /\ published[s][i].object \in Nat
          /\ \/ published[s][i].group < group[s].id
             \/ /\ published[s][i].group = group[s].id
                /\ published[s][i].object < group[s].object
      BY <1>1, PublishedType DEF IInv, ObjectsTaken
    <3>3. Before(published[s][i], o)
      BY <1>1, <1>4, <3>2 DEF Before
    <3> QED
      BY <3>1, <3>3
  <2>3. \A t \in VideoStreams \ {s} : group'[t] = group[t]
    BY SendVideoEffect DEF IInv
  <2>4. o.group \in Nat /\ o.object \in Nat
    BY <1>4 DEF Object
  <2> HIDE DEF n
  <2>5. NumbersTaken'
    <3> SUFFICES ASSUME NEW t \in Streams, NEW i \in 1..Len(published'[t])
                 PROVE  /\ published'[t][i].num < encodeSequenceNum'[t]
                        /\ t \in AudioStreams /\ callback[t] = "send" =>
                             published'[t][i].num < encodeSequenceNum'[t] - 1
      BY <1>1 DEF NumbersTaken
    <3>1. CASE t # s
      BY <1>1, <2>1, <3>1 DEF IInv, NumbersTaken
    <3>2. CASE t = s /\ i = n + 1
      BY <1>1, <1>4, <2>1, <3>2
    <3>3. CASE t = s /\ i \in 1..n
      <4>1. /\ published[s][i].num < encodeSequenceNum[s]
            /\ published[s][i].num \in Nat
        BY <1>1, <3>3, PublishedType DEF IInv, NumbersTaken, n
      <4>2. published'[t][i] = published[s][i]
        BY <2>1, <3>3
      <4>3. encodeSequenceNum'[t] = encodeSequenceNum[s] + 1 /\ t \notin AudioStreams
        BY <1>1, <3>3
      <4> QED
        BY <1>1, <4>1, <4>2, <4>3
    <3> QED
      BY <2>1, <3>1, <3>2, <3>3
  <2>6. GroupsTaken'
    BY <1>1, <2>1 DEF IInv, GroupsTaken
  <2>7. ObjectsTaken'
    <3> SUFFICES ASSUME NEW t \in VideoStreams, NEW i \in 1..Len(published'[t])
                 PROVE  \/ published'[t][i].group < group'[t].id
                        \/ /\ published'[t][i].group = group'[t].id
                           /\ published'[t][i].object < group'[t].object
      BY DEF ObjectsTaken
    <3>1. CASE t # s
      BY <1>1, <2>1, <2>3, <3>1 DEF IInv, ObjectsTaken, Streams
    <3>2. CASE t = s /\ i = n + 1
      BY <1>4, <2>1, <2>4, <3>2
    <3>3. CASE t = s /\ i \in 1..n
      <4>1. /\ published'[t][i] = published[s][i]
            /\ published[s][i].group \in Nat /\ published[s][i].object \in Nat
            /\ Before(published[s][i], o)
        BY <1>1, <2>1, <2>2, <3>3, PublishedType DEF IInv, n
      <4> QED
        BY <1>4, <2>4, <3>3, <4>1 DEF Before
    <3> QED
      BY <2>1, <3>1, <3>2, <3>3
  <2>8. NamesFollow'
    BY <1>1, <1>4, <2>2, NamesAppend DEF IInv, n
  <2> QED
    BY <2>5, <2>6, <2>7, <2>8
<1> QED
  BY <1>2, <1>3, <1>4, SendVideoEffect DEF IInv

-----------------------------------------------------------------------------
LEMMA InitIInv == Init => IInv
<1> SUFFICES ASSUME Init
             PROVE  IInv
  OBVIOUS
<1>1. \A s \in Streams : Len(published[s]) = 0
  BY EmptySeq DEF Init
<1>2. SendsNumber
  BY DEF Init, SendsNumber
<1>3. NumbersTaken /\ GroupsTaken /\ ObjectsTaken /\ NamesFollow
  BY <1>1 DEF NumbersTaken, GroupsTaken, ObjectsTaken, NamesFollow, Streams
<1> QED
  BY <1>2, <1>3, TypeInit DEF IInv

LEMMA Inductive == IInv /\ [Next]_vars => IInv'
<1> SUFFICES ASSUME IInv, [Next]_vars
             PROVE  IInv'
  OBVIOUS
<1>1. TypeOK'
  BY TypeStep DEF IInv
<1>2. CASE \E s \in AudioStreams : AudioNumber(s)
  BY <1>1, <1>2, NumberStep DEF IInv
<1>3. CASE \E s \in AudioStreams : AudioSend(s)
  BY <1>1, <1>3, SendStep DEF IInv
<1>4. CASE \E s \in AudioStreams : AudioLoad(s)
  BY <1>1, <1>4, LoadStep DEF IInv
<1>5. CASE \E s \in AudioStreams : AudioStore(s)
  BY <1>1, <1>5, StoreStep DEF IInv
<1>6. CASE \E s \in VideoStreams, type \in Encoded, written \in BOOLEAN :
             SendVideo(s, type, written)
  BY <1>1, <1>6, VideoStep DEF IInv
<1>7. CASE UNCHANGED vars
  BY <1>1, <1>7
     DEF IInv, SendsNumber, NumbersTaken, GroupsTaken, ObjectsTaken,
         NamesFollow, Before, vars, audioVars, videoVars
<1> QED
  BY <1>2, <1>3, <1>4, <1>5, <1>6, <1>7, Steps

LEMMA Invariance == Spec => []IInv
BY InitIInv, Inductive, PTL DEF Spec

\* The types of the counters and of what is published: what an encoder thread
\* is about to send has a number.
THEOREM TypeCorrect == Spec => []TypeOK
<1>1. IInv => TypeOK
  BY DEF IInv
<1> QED
  BY Invariance, <1>1, PTL

\* Names and numbers of a stream rise together (media_stream.cc:206-237,
\* video_stream.cc:102-129), for any number of streams: no name is given
\* twice, unless an encoder thread took the counter of another back.
THEOREM NamesRise == Spec => []NamesFollow
<1>1. IInv => NamesFollow
  BY DEF IInv
<1> QED
  BY Invariance, <1>1, PTL
-----------------------------------------------------------------------------
\* The intra frame g was published: it is not the 0 before the first one.
Known(s, g) == g \notin lostIntra[s] \cup {0}

\* What a stream published belongs to its intra frames so far, and of those
\* that were published only the last one has the group that is open; before
\* the first one that is group 0.
GopFollows(s) ==
  /\ ~group[s].gotFirstIdr => group[s].id = 0 /\ ~Known(s, gop[s])
  /\ \A i \in 1..Len(published[s]) :
       /\ published[s][i].gop <= gop[s]
       /\ ~group[s].gotFirstIdr => ~Known(s, published[s][i].gop)
       /\ Known(s, published[s][i].gop) /\ Known(s, gop[s]) =>
            (published[s][i].group = group[s].id
               <=> published[s][i].gop = gop[s])

\* GroupsAreGops for one stream.
GroupsKnown(s) ==
  \A i, j \in 1..Len(published[s]) :
    /\ Known(s, published[s][i].gop) /\ Known(s, published[s][j].gop) =>
         (published[s][i].group = published[s][j].group
            <=> published[s][i].gop = published[s][j].gop)
    /\ published[s][i].group > 0 /\ published[s][i].intra =>
         published[s][i].object = 0

\* GroupsAreGops compares what was published with each other; its induction
\* needs how that compares with the group and the intra frame under way.
GopInv ==
  IInv /\ \A s \in VideoStreams : GopFollows(s) /\ GroupsKnown(s)

LEMMA KnownGroupsAreGops ==
  ASSUME \A s \in VideoStreams : GroupsKnown(s)
  PROVE  GroupsAreGops
<1> SUFFICES ASSUME NEW s \in VideoStreams,
                    NEW i \in 1..Len(published[s]),
                    NEW j \in 1..Len(published[s])
             PROVE  LET a == published[s][i]
                        b == published[s][j]
                    IN /\ {a.gop, b.gop} \cap (lostIntra[s] \cup {0}) = {} =>
                            (a.group = b.group <=> a.gop = b.gop)
                       /\ a.group > 0 /\ a.intra => a.object = 0
  BY Zenon DEF GroupsAreGops
<1> DEFINE a == published[s][i]
           b == published[s][j]
<1>1. {a.gop, b.gop} \cap (lostIntra[s] \cup {0}) = {}
        => Known(s, a.gop) /\ Known(s, b.gop)
  <2> HIDE DEF a, b
  <2> QED
    BY DEF Known
<1>2. /\ Known(s, a.gop) /\ Known(s, b.gop) =>
           (a.group = b.group <=> a.gop = b.gop)
      /\ a.group > 0 /\ a.intra => a.object = 0
  BY DEF GroupsKnown
<1> QED
  BY <1>1, <1>2

\* A step that leaves a stream alone.
LEMMA GopsUnchanged ==
  ASSUME GopInv, NEW s \in VideoStreams,
         published'[s] = published[s], group'[s] = group[s],
         gop'[s] = gop[s], lostIntra'[s] = lostIntra[s]
  PROVE  GopFollows(s)' /\ GroupsKnown(s)'
<1>1. GopFollows(s) /\ GroupsKnown(s)
  BY DEF GopInv
<1>2. GopFollows(s)'
  BY <1>1 DEF GopFollows, Known
<1>3. GroupsKnown(s)'
  BY <1>1 DEF GroupsKnown, Known
<1> QED
  BY <1>2, <1>3

\* A picture that was encoded and not published: only its intra frame counts.
LEMMA LostEffect ==
  ASSUME TypeOK, NEW s \in VideoStreams, NEW type \in Encoded,
         SendVideo(s, type, FALSE)
  PROVE  /\ UNCHANGED <<published, group>>
         /\ \A t \in VideoStreams \ {s} :
              gop'[t] = gop[t] /\ lostIntra'[t] = lostIntra[t]
         /\ \/ gop'[s] = gop[s] /\ lostIntra'[s] = lostIntra[s]
            \/ /\ gop'[s] = gop[s] + 1
               /\ lostIntra'[s] = lostIntra[s] \cup {gop'[s]}
<1>1. /\ UNCHANGED <<published, group>>
      /\ gop' = [gop EXCEPT ![s] = IF type = "intra" THEN @ + 1 ELSE @]
      /\ lostIntra' = [lostIntra EXCEPT ![s] =
                         IF type = "intra" THEN @ \cup {gop'[s]} ELSE @]
  BY DEF SendVideo
<1>2. /\ gop'[s] = IF type = "intra" THEN gop[s] + 1 ELSE gop[s]
      /\ lostIntra'[s] = IF type = "intra" THEN lostIntra[s] \cup {gop'[s]}
                         ELSE lostIntra[s]
      /\ \A t \in VideoStreams \ {s} :
           gop'[t] = gop[t] /\ lostIntra'[t] = lostIntra[t]
  <2> DEFINE l == IF type = "intra" THEN lostIntra[s] \cup {gop'[s]}
                  ELSE lostIntra[s]
  <2>1. lostIntra' = [lostIntra EXCEPT ![s] = l]
    BY <1>1
  <2> HIDE DEF l
  <2>2. /\ lostIntra'[s] = l
        /\ \A t \in VideoStreams \ {s} : lostIntra'[t] = lostIntra[t]
    BY <2>1 DEF TypeOK
  <2>3. /\ gop'[s] = IF type = "intra" THEN gop[s] + 1 ELSE gop[s]
        /\ \A t \in VideoStreams \ {s} : gop'[t] = gop[t]
    BY <1>1 DEF TypeOK
  <2> QED
    BY <2>2, <2>3 DEF l
<1> QED
  BY <1>1, <1>2

\* A picture that is published: where its group and its intra frame are from.
LEMMA PublishedEffect ==
  ASSUME TypeOK, NEW s \in VideoStreams, NEW type \in Encoded,
         SendVideo(s, type, TRUE)
  PROVE  \E o \in Object :
           /\ SendData(s, o) /\ o.gop = gop'[s] /\ o.group = group'[s].id
           /\ lostIntra' = lostIntra
           /\ \A t \in VideoStreams \ {s} :
                gop'[t] = gop[t] /\ group'[t] = group[t]
           /\ \/ /\ ~o.intra /\ gop'[s] = gop[s]
                 /\ group'[s].id = group[s].id
                 /\ group'[s].gotFirstIdr = group[s].gotFirstIdr
              \/ /\ gop'[s] = gop[s] + 1 /\ group'[s].gotFirstIdr
                 /\ group[s].gotFirstIdr /\ o.object = 0
                 /\ group'[s].id = group[s].id + 1
              \/ /\ gop'[s] = gop[s] + 1 /\ group'[s].gotFirstIdr
                 /\ ~group[s].gotFirstIdr
                 /\ group'[s].id = group[s].id
<1> DEFINE Counters == [id : Nat, object : Nat, gotFirstIdr : BOOLEAN]
           g == IF type = "intra" THEN OpenGroup(group[s]) ELSE group[s]
           n == IF type = "intra" THEN gop[s] + 1 ELSE gop[s]
           o == [group |-> g.id, object |-> g.object,
                 num |-> encodeSequenceNum[s], intra |-> type = "intra",
                 gop |-> n]
<1>1. /\ encodeSequenceNum[s] \in Nat
      /\ group[s] \in Counters /\ gop[s] \in Nat
  BY SendPathAssumption DEF TypeOK, Streams
<1>2. /\ n \in Nat /\ gop' = [gop EXCEPT ![s] = n] /\ gop'[s] = n
      /\ \A t \in VideoStreams \ {s} : gop'[t] = gop[t]
  BY <1>1 DEF SendVideo, TypeOK
<1>3. /\ g \in Counters
      /\ \/ type # "intra" /\ g = group[s]
         \/ /\ type = "intra" /\ group[s].gotFirstIdr
            /\ g.id = group[s].id + 1 /\ g.object = 0 /\ g.gotFirstIdr
         \/ /\ type = "intra" /\ ~group[s].gotFirstIdr
            /\ g.id = group[s].id /\ g.gotFirstIdr
  <2>1. CASE type = "intra" /\ group[s].gotFirstIdr
    <3>1. g = [id |-> group[s].id + 1, object |-> 0, gotFirstIdr |-> TRUE]
      BY <2>1 DEF OpenGroup
    <3>2. group[s].id + 1 \in Nat /\ 0 \in Nat
      BY <1>1
    <3> HIDE DEF g
    <3>3. g.id = group[s].id + 1 /\ g.object = 0 /\ g.gotFirstIdr
      BY <3>1
    <3>4. g \in Counters
      BY <3>1, <3>2, Zenon
    <3> QED
      BY <2>1, <3>3, <3>4
  <2>2. CASE type = "intra" /\ ~group[s].gotFirstIdr
    <3>1. g = [group[s] EXCEPT !.gotFirstIdr = TRUE]
      BY <2>2 DEF OpenGroup
    <3> HIDE DEF g
    <3>2. g \in Counters /\ g.id = group[s].id /\ g.gotFirstIdr
      BY <1>1, <3>1
    <3> QED
      BY <2>2, <3>2
  <2>3. CASE type # "intra"
    BY <1>1, <2>3
  <2> QED
    BY <2>1, <2>2, <2>3
<1>4. o \in Object
  BY <1>1, <1>2, <1>3 DEF Object
<1>5. /\ SendData(s, o)
      /\ group' = [group EXCEPT ![s] = [g EXCEPT !.object = @ + 1]]
      /\ lostIntra' = lostIntra
  BY <1>2 DEF SendVideo
<1>6. /\ o.gop = n /\ o.group = g.id /\ o.object = g.object
      /\ o.intra <=> type = "intra"
  OBVIOUS
<1> HIDE DEF g, n, o
<1>7. /\ [g EXCEPT !.object = @ + 1].id = g.id
      /\ [g EXCEPT !.object = @ + 1].gotFirstIdr = g.gotFirstIdr
  BY <1>3
<1>8. /\ group'[s].id = g.id /\ group'[s].gotFirstIdr = g.gotFirstIdr
      /\ \A t \in VideoStreams \ {s} : group'[t] = group[t]
  BY <1>5, <1>7 DEF TypeOK
<1>9. \/ /\ ~o.intra /\ gop'[s] = gop[s]
         /\ group'[s].id = group[s].id
         /\ group'[s].gotFirstIdr = group[s].gotFirstIdr
      \/ /\ gop'[s] = gop[s] + 1 /\ group'[s].gotFirstIdr
         /\ group[s].gotFirstIdr /\ o.object = 0
         /\ group'[s].id = group[s].id + 1
      \/ /\ gop'[s] = gop[s] + 1 /\ group'[s].gotFirstIdr
         /\ ~group[s].gotFirstIdr
         /\ group'[s].id = group[s].id
  <2>1. CASE type # "intra"
    BY <2>1, <1>2, <1>3, <1>6, <1>8 DEF n
  <2>2. CASE type = "intra"
    <3>1. gop'[s] = gop[s] + 1
      BY <2>2, <1>2 DEF n
    <3> QED
      BY <2>2, <3>1, <1>3, <1>6, <1>8
  <2> QED
    BY <2>1, <2>2
<1> QED
  BY <1>2, <1>4, <1>5, <1>6, <1>8, <1>9

\* Nothing is published: a lost intra frame takes its own out of account.
LEMMA LostKeepsGops ==
  ASSUME GopInv, NEW s \in VideoStreams, NEW type \in Encoded,
         SendVideo(s, type, FALSE), NEW t \in VideoStreams
  PROVE  GopFollows(t)' /\ GroupsKnown(t)'
<1>1. /\ UNCHANGED <<published, group>>
      /\ \A u \in VideoStreams \ {s} :
           gop'[u] = gop[u] /\ lostIntra'[u] = lostIntra[u]
      /\ \/ gop'[s] = gop[s] /\ lostIntra'[s] = lostIntra[s]
         \/ /\ gop'[s] = gop[s] + 1
            /\ lostIntra'[s] = lostIntra[s] \cup {gop'[s]}
  BY LostEffect DEF GopInv, IInv
<1>2. CASE gop'[t] = gop[t] /\ lostIntra'[t] = lostIntra[t]
  BY <1>1, <1>2, GopsUnchanged
<1>3. CASE t = s /\ gop'[s] = gop[s] + 1
           /\ lostIntra'[s] = lostIntra[s] \cup {gop'[s]}
  <2>1. \A g : Known(s, g)' => Known(s, g)
    BY <1>3 DEF Known
  <2>2. ~(Known(s, gop[s])')
    BY <1>3 DEF Known
  <2>3. GopFollows(s) /\ GroupsKnown(s)
    BY DEF GopInv
  <2>4. \A i \in 1..Len(published[s]) :
          /\ published[s][i].gop \in Nat
          /\ published[s][i].gop <= gop[s]
          /\ gop[s] \in Nat
    <3>1. \A i \in 1..Len(published[s]) : published[s][i] \in Object
      BY PublishedType DEF GopInv, IInv, Streams
    <3> QED
      BY <2>3, <3>1 DEF GopFollows, Object, GopInv, IInv, TypeOK
  <2>5. \A i \in 1..Len(published[s]) : published[s][i].gop <= gop'[s]
    BY <1>3, <2>4
  <2>6. GopFollows(s)'
    <3>1. ~group[s].gotFirstIdr =>
            /\ group[s].id = 0
            /\ \A i \in 1..Len(published[s]) :
                 ~(Known(s, published[s][i].gop)')
      <4>1. \A i \in 1..Len(published[s]) :
              Known(s, published[s][i].gop)' => Known(s, published[s][i].gop)
        BY <1>1, <1>3 DEF Known
      <4> QED
        BY <2>3, <4>1 DEF GopFollows
    <3> QED
      BY <1>1, <2>2, <2>5, <3>1 DEF GopFollows
  <2>7. GroupsKnown(s)'
    <3>1. \A i \in 1..Len(published[s]) :
            Known(s, published[s][i].gop)' => Known(s, published[s][i].gop)
      BY <1>1, <1>3 DEF Known
    <3> QED
      BY <1>1, <2>3, <3>1 DEF GroupsKnown
  <2> QED
    BY <1>3, <2>6, <2>7
<1> QED
  BY <1>1, <1>2, <1>3

\* A published picture joins the group of its intra frame, and an intra frame
\* opens one that nothing published before has.
LEMMA PublishedKeepsGops ==
  ASSUME GopInv, NEW s \in VideoStreams, NEW type \in Encoded,
         SendVideo(s, type, TRUE), NEW t \in VideoStreams
  PROVE  GopFollows(t)' /\ GroupsKnown(t)'
<1> DEFINE n == Len(published[s])
<1>1. PICK o \in Object :
        /\ SendData(s, o) /\ o.gop = gop'[s] /\ o.group = group'[s].id
        /\ lostIntra' = lostIntra
        /\ \A u \in VideoStreams \ {s} :
             gop'[u] = gop[u] /\ group'[u] = group[u]
        /\ \/ /\ ~o.intra /\ gop'[s] = gop[s]
              /\ group'[s].id = group[s].id
              /\ group'[s].gotFirstIdr = group[s].gotFirstIdr
           \/ /\ gop'[s] = gop[s] + 1 /\ group'[s].gotFirstIdr
              /\ group[s].gotFirstIdr /\ o.object = 0
              /\ group'[s].id = group[s].id + 1
           \/ /\ gop'[s] = gop[s] + 1 /\ group'[s].gotFirstIdr
              /\ ~group[s].gotFirstIdr
              /\ group'[s].id = group[s].id
  BY PublishedEffect DEF GopInv, IInv
<1>2. /\ s \in Streams /\ VideoStreams \subseteq Streams
      /\ \A u \in VideoStreams \ {s} : published'[u] = published[u]
      /\ n \in Nat /\ Len(published'[s]) = n + 1
      /\ \A i \in 1..n : published'[s][i] = published[s][i]
      /\ published'[s][n + 1] = o
  BY <1>1, SendDataEffect DEF GopInv, IInv, Streams
<1>3. gop[s] \in Nat /\ group[s].id \in Nat
  BY DEF GopInv, IInv, TypeOK
<1>4. \A i \in 1..n :
        /\ published[s][i].gop \in Nat /\ published[s][i].group \in Nat
        /\ published[s][i].gop <= gop[s]
        /\ published[s][i].group <= group[s].id
        /\ ~group[s].gotFirstIdr => ~Known(s, published[s][i].gop)
        /\ Known(s, published[s][i].gop) /\ Known(s, gop[s]) =>
             (published[s][i].group = group[s].id
                <=> published[s][i].gop = gop[s])
        /\ published[s][i].group > 0 /\ published[s][i].intra =>
             published[s][i].object = 0
  <2> SUFFICES ASSUME NEW i \in 1..n
               PROVE  /\ published[s][i].gop \in Nat
                      /\ published[s][i].group \in Nat
                      /\ published[s][i].group <= group[s].id
    BY DEF GopInv, GopFollows, GroupsKnown
  <2>1. published[s][i] \in Object
    BY <1>2, PublishedType DEF GopInv, IInv
  <2> QED
    BY <1>3, <2>1 DEF GopInv, IInv, ObjectsTaken, Object
<1>5. ~group[s].gotFirstIdr => group[s].id = 0 /\ ~Known(s, gop[s])
  BY DEF GopInv, GopFollows
\* The new picture compared with an earlier one.
<1>6. ASSUME NEW i \in 1..n, Known(s, published[s][i].gop), Known(s, o.gop)
      PROVE  published[s][i].group = o.group <=> published[s][i].gop = o.gop
  <2>1. CASE gop'[s] = gop[s] /\ group'[s].id = group[s].id
    BY <2>1, <1>1, <1>4, <1>6
  <2>2. CASE gop'[s] = gop[s] + 1 /\ group'[s].id = group[s].id + 1
    BY <2>2, <1>1, <1>3, <1>4
  <2>3. CASE ~group[s].gotFirstIdr
    BY <2>3, <1>4, <1>6
  <2> QED
    BY <1>1, <2>1, <2>2, <2>3
<1>7. o.group > 0 /\ o.intra => o.object = 0
  <2> SUFFICES ASSUME o.group > 0, o.intra PROVE o.object = 0
    OBVIOUS
  <2>1. CASE group[s].gotFirstIdr
    BY <2>1, <1>1
  <2>2. CASE ~group[s].gotFirstIdr
    BY <2>2, <1>1, <1>5
  <2> QED
    BY <2>1, <2>2
<1> HIDE DEF n
<1>8. \A g : Known(s, g)' <=> Known(s, g)
  BY <1>1 DEF Known
<1>9. ASSUME NEW i \in 1..Len(published'[s])
      PROVE  \/ i \in 1..n /\ published'[s][i] = published[s][i]
             \/ published'[s][i] = o
  BY <1>2
<1>10. GroupsKnown(s)'
  <2> SUFFICES ASSUME NEW i \in 1..Len(published'[s]),
                      NEW j \in 1..Len(published'[s])
               PROVE  /\ Known(s, published'[s][i].gop)
                           /\ Known(s, published'[s][j].gop) =>
                           (published'[s][i].group = published'[s][j].group
                              <=> published'[s][i].gop = published'[s][j].gop)
                      /\ published'[s][i].group > 0 /\ published'[s][i].intra =>
                           published'[s][i].object = 0
    BY <1>1 DEF GroupsKnown, Known
  <2>1. published'[s][i].group > 0 /\ published'[s][i].intra =>
          published'[s][i].object = 0
    BY <1>4, <1>7, <1>9
  <2>2. ASSUME Known(s, published'[s][i].gop), Known(s, published'[s][j].gop)
        PROVE  published'[s][i].group = published'[s][j].group
                 <=> published'[s][i].gop = published'[s][j].gop
    <3>1. CASE /\ i \in 1..n /\ published'[s][i] = published[s][i]
               /\ j \in 1..n /\ published'[s][j] = published[s][j]
      BY <2>2, <3>1 DEF GopInv, GroupsKnown, n
    <3>2. CASE i \in 1..n /\ published'[s][i] = published[s][i]
               /\ published'[s][j] = o
      BY <2>2, <3>2, <1>6
    <3>3. CASE published'[s][i] = o
               /\ j \in 1..n /\ published'[s][j] = published[s][j]
      BY <2>2, <3>3, <1>6
    <3>4. CASE published'[s][i] = o /\ published'[s][j] = o
      BY <3>4
    <3> QED
      BY <1>9, <3>1, <3>2, <3>3, <3>4
  <2> QED
    BY <2>1, <2>2
<1>11. GopFollows(s)'
  <2>1. ~group'[s].gotFirstIdr => group'[s].id = 0 /\ ~Known(s, gop'[s])
    BY <1>1, <1>5
  <2>2. ASSUME NEW i \in 1..n
        PROVE  /\ published[s][i].gop <= gop'[s]
               /\ ~group'[s].gotFirstIdr => ~Known(s, published[s][i].gop)
    BY <1>1, <1>3, <1>4
  <2>3. o.gop <= gop'[s]
    BY <1>1, <1>3
  <2>4. ~group'[s].gotFirstIdr => ~Known(s, o.gop)
    BY <1>1, <2>1
  <2>5. ASSUME NEW i \in 1..Len(published'[s])
        PROVE  /\ published'[s][i].gop <= gop'[s]
               /\ ~group'[s].gotFirstIdr => ~Known(s, published'[s][i].gop)
               /\ Known(s, published'[s][i].gop) /\ Known(s, gop'[s]) =>
                    (published'[s][i].group = group'[s].id
                       <=> published'[s][i].gop = gop'[s])
    <3>1. CASE i \in 1..n /\ published'[s][i] = published[s][i]
      BY <3>1, <2>2, <1>1, <1>6
    <3>2. CASE published'[s][i] = o
      BY <3>2, <2>3, <2>4, <1>1
    <3> QED
      BY <1>9, <3>1, <3>2
  <2> QED
    BY <2>1, <2>5, <1>1 DEF GopFollows, Known
<1>12. CASE t # s
  BY <1>1, <1>2, <1>12, GopsUnchanged
<1>13. CASE t = s
  BY <1>10, <1>11, <1>13
<1> QED
  BY <1>12, <1>13

LEMMA InitGopInv == Init => GopInv
<1> SUFFICES ASSUME Init
             PROVE  GopInv
  OBVIOUS
<1>1. \A s \in VideoStreams : Len(published[s]) = 0
  BY EmptySeq DEF Init, Streams
<1>2. \A s \in VideoStreams : group[s].id = 0 /\ gop[s] = 0
  BY DEF Init
<1> QED
  BY <1>1, <1>2, InitIInv DEF GopInv, GopFollows, GroupsKnown, Known

LEMMA GopInductive == GopInv /\ [Next]_vars => GopInv'
<1> SUFFICES ASSUME GopInv, [Next]_vars, NEW t \in VideoStreams
             PROVE  GopFollows(t)' /\ GroupsKnown(t)'
  BY Inductive DEF GopInv
<1>1. CASE \E s \in VideoStreams, type \in Encoded, written \in BOOLEAN :
             SendVideo(s, type, written)
  <2>1. PICK s \in VideoStreams, type \in Encoded, written \in BOOLEAN :
          SendVideo(s, type, written)
    BY <1>1
  <2>2. SendVideo(s, type, TRUE) \/ SendVideo(s, type, FALSE)
    BY <2>1
  <2> QED
    BY <2>2, LostKeepsGops, PublishedKeepsGops
<1>2. ASSUME NEW s \in AudioStreams, AudioSend(s)
      PROVE  GopFollows(t)' /\ GroupsKnown(t)'
  <2>1. UNCHANGED <<group, gop, lostIntra>>
    BY <1>2 DEF AudioSend, videoVars
  <2>2. s # t /\ s \in Streams /\ t \in Streams
    BY SendPathAssumption DEF Streams
  <2>3. published'[t] = published[t]
    BY <1>2, <2>2 DEF AudioSend, SendData, GopInv, IInv, TypeOK
  <2> QED
    BY <2>1, <2>3, GopsUnchanged
<1>3. CASE UNCHANGED <<published, group, gop, lostIntra>>
  BY <1>3, GopsUnchanged
<1>4. \/ \E s \in VideoStreams, type \in Encoded, written \in BOOLEAN :
           SendVideo(s, type, written)
      \/ \E s \in AudioStreams : AudioSend(s)
      \/ UNCHANGED <<published, group, gop, lostIntra>>
  BY Steps, Zenon DEF AudioNumber, AudioLoad, AudioStore, vars, videoVars
<1> QED
  BY <1>1, <1>2, <1>3, <1>4

\* The groups of a video stream are its groups of pictures, but for those
\* whose intra frame was lost between the encoder and the transport
\* (video_stream.cc:102-129).
THEOREM GroupsStayGops == Spec => []GroupsAreGops
<1>1. GopInv => GroupsAreGops
  BY KnownGroupsAreGops DEF GopInv
<1> QED
  BY InitGopInv, GopInductive, <1>1, PTL DEF Spec

----------------------------------------------------------------------------
\* The audio encoder that feeds a stream.

\* Products with an integer, as the division needs them.
LEMMA Product ==
  ASSUME NEW p \in Nat, p > 0, NEW k \in Int, NEW m \in Int
  PROVE  /\ p * k \in Int
         /\ p * (k + m) = p * k + p * m
         /\ k >= 1 => p * k >= p
         /\ k <= -1 => p * k <= -p
  OBVIOUS

\* Quotient and remainder.
LEMMA Division ==
  ASSUME NEW p \in Nat, p > 0, NEW x \in Int
  PROVE  /\ x \div p \in Int /\ x % p \in 0..(p - 1)
         /\ x = p * (x \div p) + (x % p)
  OBVIOUS

\* The remainder is what is left of a multiple.
LEMMA RemainderUnique ==
  ASSUME NEW p \in Nat, p > 0, NEW x \in Int, NEW k \in Int,
         NEW r \in 0..(p - 1), x = p * k + r
  PROVE  x % p = r
<1> DEFINE q == x \div p
           s == x % p
<1>1. q \in Int /\ s \in 0..(p - 1) /\ x = p * q + s
  BY Division
<1> HIDE DEF q, s
<1> DEFINE d == q + (0 - k)
<1>2. d \in Int /\ q = k + d
  BY <1>1
<1>3. p * q = p * k + p * d /\ p * k \in Int /\ p * d \in Int
  BY <1>2, Product
<1>4. p * d = r - s
  BY <1>1, <1>3
<1>5. /\ d >= 1 => p * d >= p
      /\ d <= -1 => p * d <= -p
  BY <1>2, Product
<1>6. d = 0
  BY <1>1, <1>2, <1>4, <1>5
<1>7. p * d = 0
  BY <1>6
<1>8. s = r
  BY <1>1, <1>4, <1>7
<1> QED
  BY <1>8 DEF s

\* The remainder of a sum.
LEMMA RemainderOfSum ==
  ASSUME NEW p \in Nat, p > 0, NEW x \in Int, NEW y \in Int
  PROVE  ((x % p) + y) % p = (x + y) % p
<1> DEFINE q == x \div p
           r == x % p
           q2 == (r + y) \div p
           r2 == (r + y) % p
<1>1. q \in Int /\ r \in 0..(p - 1) /\ x = p * q + r
  BY Division
<1> HIDE DEF q, r
<1>2. r + y \in Int
  BY <1>1
<1>3. q2 \in Int /\ r2 \in 0..(p - 1) /\ r + y = p * q2 + r2
  BY <1>2, Division
<1> HIDE DEF q2, r2
<1>4. /\ p * (q + q2) = p * q + p * q2 /\ p * q \in Int /\ p * q2 \in Int
      /\ q + q2 \in Int /\ x + y \in Int
  BY <1>1, <1>3, Product
<1>5. x + y = p * (q + q2) + r2
  BY <1>1, <1>3, <1>4
<1>6. (x + y) % p = r2
  BY <1>3, <1>4, <1>5, RemainderUnique
<1> QED
  BY <1>6 DEF r2, r
\* A set of naturals that is not empty has a least element.
LEMMA Least ==
  ASSUME NEW S \in SUBSET Nat, S # {}
  PROVE  \E m \in S : \A x \in S : m <= x
<1> DEFINE R == OpToRel(<, Nat)
<1>1. IsWellFoundedOn(R, Nat)
  BY NatLessThanWellFounded, Zenon
<1>2. \A x, y \in Nat : x < y => <<x, y>> \in R
  BY DEF OpToRel
<1> HIDE DEF R
<1>3. PICK m \in S : \A y \in S : ~ (<<y, m>> \in R)
  BY <1>1, WFMin
<1>4. \A x \in S : ~ (x < m)
  BY <1>2, <1>3, Zenon
<1> QED
  BY <1>4

\* f flattens the first n sequences of s: f[i] is s[1] \o ... \o s[i].
Flattens(f, s, n) ==
  f = [i \in 1..n |-> IF i = 1 THEN s[i] ELSE f[i - 1] \o s[i]]

\* Only one function does.
LEMMA FlattensUnique ==
  ASSUME NEW s, NEW n \in Nat, NEW m \in Nat, n <= m,
         NEW f, Flattens(f, s, n), NEW g, Flattens(g, s, m)
  PROVE  \A i \in 1..n : f[i] = g[i]
<1> SUFFICES ASSUME ~ \A i \in 1..n : f[i] = g[i]
             PROVE  FALSE
  OBVIOUS
<1> DEFINE D == {i \in 1..n : f[i] # g[i]}
<1>1. PICK k \in D : \A x \in D : k <= x
  <2>1. D \in SUBSET Nat /\ D # {}
    OBVIOUS
  <2> HIDE DEF D
  <2> QED
    BY <2>1, Least
<1>2. /\ k \in 1..n /\ k \in 1..m /\ f[k] # g[k]
      /\ k # 1 => k - 1 \in 1..n /\ f[k - 1] = g[k - 1]
  BY <1>1
<1>3. f[k] = IF k = 1 THEN s[k] ELSE f[k - 1] \o s[k]
  BY <1>2 DEF Flattens
<1>4. g[k] = IF k = 1 THEN s[k] ELSE g[k - 1] \o s[k]
  BY <1>2 DEF Flattens
<1> QED
  BY <1>2, <1>3, <1>4

\* One does.
LEMMA FlattensExists ==
  ASSUME NEW s, NEW n \in Nat
  PROVE  \E f : Flattens(f, s, n)
<1> DEFINE D == {m \in Nat : ~ \E f : Flattens(f, s, m)}
<1> SUFFICES ASSUME D # {}
             PROVE  FALSE
  OBVIOUS
<1>1. PICK m \in D : \A x \in D : m <= x
  <2>1. D \in SUBSET Nat
    OBVIOUS
  <2> HIDE DEF D
  <2> QED
    BY <2>1, Least
<1>2. m \in Nat /\ ~ \E f : Flattens(f, s, m)
  BY <1>1
<1>3. CASE m = 0
  <2>1. Flattens(<<>>, s, m)
    BY <1>3 DEF Flattens
  <2> QED
    BY <1>2, <2>1
<1>4. CASE m # 0
  <2>1. m - 1 \in Nat /\ m - 1 \notin D
    BY <1>1, <1>2, <1>4
  <2>2. PICK f : Flattens(f, s, m - 1)
    BY <2>1
  <2> DEFINE g == [i \in 1..m |-> IF i = 1 THEN s[i] ELSE f[i - 1] \o s[i]]
  <2>3. \A i \in 1..(m - 1) : f[i] = g[i]
    <3>1. \A i \in 1..(m - 1) :
            f[i] = IF i = 1 THEN s[i] ELSE f[i - 1] \o s[i]
      BY <2>2 DEF Flattens
    <3>2. \A i \in 1..(m - 1) : i \in 1..m
      BY <1>2
    <3> QED
      BY <3>1, <3>2
  <2>4. g = [i \in 1..m |-> IF i = 1 THEN s[i] ELSE g[i - 1] \o s[i]]
    <3>1. \A i \in 1..m : i # 1 => i - 1 \in 1..(m - 1)
      BY <1>2
    <3>2. \A i \in 1..m : i # 1 => f[i - 1] = g[i - 1]
      BY <2>3, <3>1
    <3> HIDE DEF g
    <3>3. g = [i \in 1..m |-> IF i = 1 THEN s[i] ELSE f[i - 1] \o s[i]]
      BY DEF g
    <3> QED
      BY <3>2, <3>3
  <2> HIDE DEF g
  <2>5. Flattens(g, s, m)
    BY <2>4, Zenon DEF Flattens
  <2> QED
    BY <1>2, <2>5
<1> QED
  BY <1>3, <1>4

\* The flattened sequence of n sequences.
LEMMA FlattenSeqIs ==
  ASSUME NEW s, Len(s) \in Nat, Len(s) > 0, NEW f, Flattens(f, s, Len(s))
  PROVE  FlattenSeq(s) = f[Len(s)]
<1> DEFINE n == Len(s)
           flatten == CHOOSE g : g = [i \in 1..n |->
                        IF i = 1 THEN s[i] ELSE g[i - 1] \o s[i]]
<1>1. Flattens(flatten, s, n)
  BY Zenon DEF Flattens
<1>2. FlattenSeq(s) = flatten[n]
  BY DEF FlattenSeq
<1> HIDE DEF flatten
<1>3. n \in 1..n
  OBVIOUS
<1>4. flatten[n] = f[n]
  BY <1>1, <1>3, FlattensUnique
<1> QED
  BY <1>2, <1>4

\* No sequences come to none.
LEMMA FlattenEmpty ==
  ASSUME NEW e
  PROVE  FlattenSeq([i \in 1..0 |-> e[i]]) = <<>>
<1>1. [i \in 1..0 |-> e[i]] = <<>>
  OBVIOUS
<1> QED
  BY <1>1, Zenon DEF FlattenSeq

\* Each further sequence goes to the end.
LEMMA FlattenOneMore ==
  ASSUME NEW S, NEW m \in Nat, NEW e \in [1..m -> Seq(S)],
         NEW k \in 1..m
  PROVE  FlattenSeq([i \in 1..k |-> e[i]])
         = FlattenSeq([i \in 1..(k - 1) |-> e[i]]) \o e[k]
<1> DEFINE E(n) == [i \in 1..n |-> e[i]]
<1>1. \A n \in 0..m : Len(E(n)) = n
  <2>1. \A n \in 0..m : E(n) \in Seq(Seq(S))
    OBVIOUS
  <2> QED
    OBVIOUS
<1>0. k \in Nat /\ k \in 1..k
  OBVIOUS
<1>2. PICK f : Flattens(f, e, k)
  BY <1>0, FlattensExists
<1>3. Flattens(f, E(k), k)
  BY <1>2 DEF Flattens
<1>4. f[k] = IF k = 1 THEN e[k] ELSE f[k - 1] \o e[k]
  BY <1>0, <1>2 DEF Flattens
<1>5. FlattenSeq(E(k)) = f[k]
  <2>1. Len(E(k)) = k /\ k \in Nat /\ k > 0
    BY <1>1
  <2> HIDE DEF E
  <2> QED
    BY <1>3, <2>1, FlattenSeqIs
<1>6. CASE k = 1
  <2>1. FlattenSeq(E(0)) = <<>>
    BY FlattenEmpty
  <2>2. e[1] \in Seq(S)
    BY <1>6
  <2>3. <<>> \o e[1] = e[1]
    BY <2>2
  <2> HIDE DEF E
  <2>4. E(k - 1) = E(0)
    BY <1>6
  <2>5. FlattenSeq(E(k)) = FlattenSeq(E(k - 1)) \o e[k]
    BY <1>4, <1>5, <1>6, <2>1, <2>3, <2>4
  <2> QED
    BY <2>5 DEF E
<1>7. CASE k # 1
  <2> DEFINE n == k - 1
  <2>1. n \in Nat /\ n > 0 /\ n <= k /\ n \in 0..m /\ n \in 1..n
    BY <1>7
  <2>2. PICK g : Flattens(g, E(n), n)
    BY <2>1, FlattensExists
  <2>3. FlattenSeq(E(n)) = g[n]
    <3>1. Len(E(n)) = n
      BY <1>1, <2>1
    <3> HIDE DEF E, n
    <3> QED
      BY <2>1, <2>2, <3>1, FlattenSeqIs
  <2>4. Flattens(g, E(k), n)
    <3>1. \A i \in 1..n : E(n)[i] = E(k)[i]
      BY <2>1
    <3> HIDE DEF E, n
    <3> QED
      BY <2>2, <3>1 DEF Flattens
  <2>5. g[n] = f[n]
    <3> HIDE DEF E, n
    <3> QED
      BY <1>3, <2>1, <2>4, FlattensUnique
  <2>6. FlattenSeq(E(k)) = FlattenSeq(E(n)) \o e[k]
    <3> HIDE DEF E
    <3> QED
      BY <1>4, <1>5, <1>7, <2>3, <2>5
  <2> QED
    BY <2>6
<1> QED
  BY <1>6, <1>7

\* What is left of buffer i.
Held(i) ==
  IF i = 1 THEN SubSeq(buffers[1].data, readFront + 1, Len(buffers[1].data))
  ELSE buffers[i].data

\* No buffer was captured empty: one that becomes the first has something left.
NoneEmpty == \A i \in 1..Len(buffers) : Len(buffers[i].data) > 0

EncoderTypes == EncoderTypeOK /\ NoneEmpty

\* The buffers and their contents.
LEMMA BufferFacts ==
  ASSUME EncoderTypeOK, NEW i \in 1..Len(buffers)
  PROVE  /\ buffers[i].data \in Seq(Sample)
         /\ Len(buffers[i].data) \in Nat
         /\ buffers[i].time \in Sample
<1>1. buffers[i] \in [data : Seq(Sample), time : Sample]
  BY ElementOfSeq DEF EncoderTypeOK, Sample
<1>2. buffers[i].data \in Seq(Sample) /\ buffers[i].time \in Sample
  BY <1>1
<1> QED
  BY <1>2, LenProperties

\* What is left of a buffer has the length full_Fill.cc:68 computes.
LEMMA HeldFacts ==
  ASSUME EncoderTypeOK, NEW i \in 1..Len(buffers)
  PROVE  /\ Held(i) \in Seq(Sample)
         /\ Len(Held(i)) = IF i = 1 THEN Len(buffers[i].data) - readFront
                           ELSE Len(buffers[i].data)
<1> DEFINE d == buffers[i].data
<1>1. d \in Seq(Sample) /\ Len(d) \in Nat
  BY BufferFacts
<1>2. i = 1 => readFront \in Nat /\ readFront < Len(d)
  <2>1. buffers # <<>>
    OBVIOUS
  <2>2. readFront \in 0..Out /\ readFront < Len(buffers[1].data)
    BY <2>1 DEF EncoderTypeOK
  <2> QED
    BY <2>2
<1>3. CASE i = 1
  <2>1. Held(i) = SubSeq(d, readFront + 1, Len(d))
    BY <1>3 DEF Held
  <2> HIDE DEF d
  <2>2. /\ SubSeq(d, readFront + 1, Len(d)) \in Seq(Sample)
        /\ Len(SubSeq(d, readFront + 1, Len(d))) = Len(d) - readFront
    BY <1>1, <1>2, <1>3, SubSeqProperties
  <2> QED
    BY <1>3, <2>1, <2>2 DEF d
<1>4. CASE i # 1
  BY <1>1, <1>4 DEF Held
<1> QED
  BY <1>3, <1>4

\* Unread, one buffer after the other.
LEMMA UnreadSteps ==
  ASSUME EncoderTypeOK
  PROVE  /\ Unread(0) = <<>>
         /\ \A k \in 1..Len(buffers) :
              Unread(k) = Unread(k - 1) \o Held(k)
<1> DEFINE m == Len(buffers)
           e == [i \in 1..m |-> Held(i)]
<1>1. m \in Nat
  BY LenProperties DEF EncoderTypeOK
<1>2. e \in [1..m -> Seq(Sample)]
  BY HeldFacts
<1>3. \A n \in 0..m :
        Unread(n) = FlattenSeq([i \in 1..n |-> e[i]])
  <2> SUFFICES ASSUME NEW n \in 0..m
               PROVE  Unread(n) = FlattenSeq([i \in 1..n |-> e[i]])
    OBVIOUS
  <2>1. Unread(n) = FlattenSeq([i \in 1..n |-> Held(i)])
    BY Zenon DEF Unread, Held
  <2>2. [i \in 1..n |-> Held(i)] = [i \in 1..n |-> e[i]]
    <3>1. \A i \in 1..n : i \in 1..m
      BY <1>1
    <3>2. \A i \in 1..m : e[i] = Held(i)
      OBVIOUS
    <3> HIDE DEF e, m
    <3> QED
      BY <3>1, <3>2
  <2> QED
    BY <2>1, <2>2
<1> HIDE DEF e, m
<1>4. Unread(0) = <<>>
  <2>1. FlattenSeq([i \in 1..0 |-> e[i]]) = <<>>
    BY FlattenEmpty
  <2>2. 0 \in 0..m
    BY <1>1
  <2> QED
    BY <1>3, <2>1, <2>2
<1>5. ASSUME NEW k \in 1..m
      PROVE  Unread(k) = Unread(k - 1) \o Held(k)
  <2>1. k \in 0..m /\ k - 1 \in 0..m
    BY <1>1
  <2>2. FlattenSeq([i \in 1..k |-> e[i]])
        = FlattenSeq([i \in 1..(k - 1) |-> e[i]]) \o e[k]
    BY <1>1, <1>2, FlattenOneMore
  <2>3. e[k] = Held(k)
    BY DEF e
  <2> QED
    BY <1>3, <2>1, <2>2, <2>3
<1> QED
  BY <1>4, <1>5 DEF m

\* Unread is a sequence of samples.
LEMMA UnreadType ==
  ASSUME EncoderTypeOK, NEW k \in 0..Len(buffers)
  PROVE  /\ Unread(k) \in Seq(Sample)
         /\ Len(Unread(k)) \in Nat
<1> DEFINE m == Len(buffers)
           U(n) == Unread(n)
           D == {n \in 0..m : U(n) \notin Seq(Sample)}
<1>1. m \in Nat
  BY LenProperties DEF EncoderTypeOK
<1>2. U(0) \in Seq(Sample)
  <2>1. <<>> \in Seq(Sample)
    OBVIOUS
  <2> QED
    BY <2>1, UnreadSteps
<1>3. ASSUME NEW n \in 1..m, U(n - 1) \in Seq(Sample)
      PROVE  U(n) \in Seq(Sample)
  <2>1. U(n) = U(n - 1) \o Held(n) /\ Held(n) \in Seq(Sample)
    BY UnreadSteps, HeldFacts
  <2> HIDE DEF U
  <2> QED
    BY <1>3, <2>1, ConcatProperties
<1> HIDE DEF U
<1>4. D = {}
  <2> SUFFICES ASSUME D # {}
               PROVE  FALSE
    OBVIOUS
  <2>1. D \in SUBSET Nat
    BY <1>1
  <2> HIDE DEF D
  <2>2. PICK n \in D : \A x \in D : n <= x
    BY <2>1, Least
  <2> USE DEF D
  <2>3. n \in 0..m /\ U(n) \notin Seq(Sample) /\ n \in 1..m
    BY <1>1, <1>2, <2>2
  <2>4. n - 1 \in 0..m /\ n - 1 \notin D
    BY <1>1, <2>2, <2>3
  <2> QED
    BY <1>3, <2>3, <2>4
<1>5. U(k) \in Seq(Sample)
  BY <1>4 DEF D, m
<1> QED
  BY <1>5, LenProperties DEF U

\* fill uses up the buffers that fit into a frame, and the next one does not.
LEMMA UsedUpFits ==
  ASSUME EncoderTypeOK, Out \in Nat
  PROVE  /\ UsedUp \in 0..Len(buffers)
         /\ Len(Unread(UsedUp)) <= Out
         /\ UsedUp < Len(buffers) =>
              Len(Unread(UsedUp + 1)) > Out
<1> DEFINE m == Len(buffers)
           L(k) == Len(Unread(k))
           F == {k \in 0..m : L(k) <= Out}
           G == {m - k : k \in F}
<1>1. m \in Nat
  BY LenProperties DEF EncoderTypeOK
<1>2. L(0) = 0
  BY UnreadSteps
<1>3. \A k \in 0..m : L(k) \in Nat
  BY UnreadType
<1>4. UsedUp = CHOOSE k \in F : \A j \in F : k >= j
  BY Zenon DEF UsedUp, Max
<1> HIDE DEF L
<1>5. 0 \in F
  BY <1>1, <1>2
<1>6. G \in SUBSET Nat /\ G # {}
  BY <1>1, <1>5
<1>7. PICK g \in G : \A j \in G : g <= j
  <2> HIDE DEF G
  <2> QED
    BY <1>6, Least
<1>8. PICK k \in F : g = m - k
  BY <1>7
<1>9. \A j \in F : k >= j
  <2> SUFFICES ASSUME NEW j \in F
               PROVE  k >= j
    OBVIOUS
  <2>1. m - j \in G /\ g <= m - j
    BY <1>7
  <2>2. j \in Int /\ k \in Int
    OBVIOUS
  <2> QED
    BY <1>1, <1>8, <2>1, <2>2
<1>10. UsedUp \in F /\ \A j \in F : UsedUp >= j
  <2> HIDE DEF F
  <2> QED
    BY <1>4, <1>9, Zenon
<1> DEFINE u == UsedUp
<1>11. u \in 0..m /\ L(u) <= Out
  BY <1>10
<1>12. u < m => L(u + 1) > Out
  <2> SUFFICES ASSUME u < m, ~ (L(u + 1) > Out)
               PROVE  FALSE
    OBVIOUS
  <2>1. u + 1 \in 0..m
    BY <1>1, <1>11
  <2>2. u + 1 \in F
    BY <1>3, <2>1
  <2> HIDE DEF F
  <2> QED
    BY <1>10, <1>11, <2>2
<1> QED
  BY <1>11, <1>12 DEF L

\* A packet: the first k buffers, and of the next one what is missing, taken
\* from its begin.
LEMMA PopEffect ==
  ASSUME EncoderTypeOK, NoneEmpty,
         PopAndEncode
  PROVE  \E k \in 0..Len(buffers), part \in 0..Out :
           /\ buffers # <<>>
           /\ part = Out - Len(Unread(k))
           /\ part > 0 => k < Len(buffers)
           /\ k < Len(buffers) => part < Len(Held(k + 1))
           /\ sent' = [samples |->
                         IF part = 0 THEN Unread(k)
                         ELSE Unread(k) \o
                                SubSeq(buffers[k + 1].data, 1, part),
                       time |-> FrontTime]
           /\ buffers' = SubSeq(buffers, k + 1, Len(buffers))
           /\ readFront' = part
           /\ from' = After(from, Out)
           /\ UNCHANGED <<app, captured, immediateEncode, worker>>
<1> DEFINE k == UsedUp
           whole == Unread(k)
           part == Out - Len(whole)
<1>1. Out \in Nat /\ Out > 0
  BY AudioEncoderAssumption
<1>2. k \in 0..Len(buffers) /\ Len(whole) <= Out
  BY <1>1, UsedUpFits
<1>3. /\ k < Len(buffers) => Len(Unread(k + 1)) > Out
  BY <1>1, UsedUpFits
<1>4. Len(whole) \in Nat /\ Len(Unread(Len(buffers))) >= Out
  <2>1. Len(whole) \in Nat
    BY <1>2, UnreadType
  <2> QED
    BY <2>1 DEF PopAndEncode, Backlog
<1>5. /\ sent' = [samples |->
                    IF part = 0 THEN whole
                    ELSE whole \o SubSeq(buffers[k + 1].data, 1, part),
                  time |-> FrontTime]
      /\ buffers' = SubSeq(buffers, k + 1, Len(buffers))
      /\ readFront' = part
      /\ from' = After(from, Out)
      /\ UNCHANGED <<app, captured, immediateEncode, worker>>
  BY Zenon DEF PopAndEncode, PartOf, Behind
<1>6. Len(buffers) \in Nat
  BY LenProperties DEF EncoderTypeOK
<1>7. k < Len(buffers) => part < Len(Held(k + 1))
  <2> SUFFICES ASSUME k < Len(buffers)
               PROVE  part < Len(Held(k + 1))
    OBVIOUS
  <2>1. k + 1 \in 1..Len(buffers) /\ (k + 1) - 1 = k
    BY <1>2, <1>6
  <2>2. Unread(k + 1) = whole \o Held(k + 1)
    BY <2>1, UnreadSteps
  <2>3. Held(k + 1) \in Seq(Sample) /\ whole \in Seq(Sample)
    BY <1>2, <2>1, HeldFacts, UnreadType
  <2> HIDE DEF whole, k
  <2>4. Len(Unread(k + 1)) = Len(whole) + Len(Held(k + 1))
    BY <2>2, <2>3, ConcatProperties
  <2>5. Len(Held(k + 1)) \in Nat
    BY <2>3, LenProperties
  <2> QED
    BY <1>1, <1>3, <1>4, <2>4, <2>5
<1>8. buffers # <<>>
  <2> SUFFICES ASSUME buffers = <<>>
               PROVE  FALSE
    OBVIOUS
  <2>1. Len(buffers) = 0 /\ Unread(0) = <<>>
    BY UnreadSteps
  <2> QED
    BY <1>1, <1>4, <2>1
<1>9. part > 0 => k < Len(buffers)
  <2> SUFFICES ASSUME k = Len(buffers)
               PROVE  ~ (part > 0)
    BY <1>2, <1>6
  <2> QED
    BY <1>1, <1>4
<1>10. part \in 0..Out
  BY <1>1, <1>2, <1>4
<1> HIDE DEF k, whole, part
<1>11. part = Out - Len(Unread(k))
  BY DEF part, whole
<1> QED
  BY <1>2, <1>5, <1>7, <1>8, <1>9, <1>10, <1>11, Zenon DEF whole

\* Sample numbers are cyclic.
LEMMA AfterFacts ==
  ASSUME NEW s \in Int, NEW n \in Int
  PROVE  /\ After(s, n) \in Sample /\ After(s, n) \in Int
         /\ s \in Sample => After(s, 0) = s
<1>1. Period \in Nat /\ Period > 0
  BY AudioEncoderAssumption
<1>2. s + n \in Int
  OBVIOUS
<1>3. (s + n) % Period \in 0..(Period - 1)
  BY <1>1, <1>2, Division
<1>4. s \in Sample => (s + 0) % Period = s
  <2> SUFFICES ASSUME s \in Sample
               PROVE  (s + 0) % Period = s
    OBVIOUS
  <2>1. s \in 0..(Period - 1) /\ s + 0 = Period * 0 + s /\ s + 0 \in Int
    BY <1>1 DEF Sample
  <2> QED
    BY <1>1, <2>1, RemainderUnique
<1> QED
  BY <1>3, <1>4 DEF After, Sample

\* Counting on from where one has counted to.
LEMMA AfterAfter ==
  ASSUME NEW s \in Int, NEW n \in Int,
         NEW m \in Int
  PROVE  After(After(s, n), m) = After(s, n + m)
<1>1. Period \in Nat /\ Period > 0 /\ s + n \in Int
  BY AudioEncoderAssumption
<1>2. (((s + n) % Period) + m) % Period = ((s + n) + m) % Period
  BY <1>1, RemainderOfSum
<1>3. (s + n) + m = s + (n + m)
  OBVIOUS
<1> QED
  BY <1>2, <1>3 DEF After

\* A run of sample numbers.
LEMMA RunFacts ==
  ASSUME NEW s \in Int, NEW n \in Nat
  PROVE  /\ Run(s, n) \in Seq(Sample)
         /\ Run(s, n) \in [1..n -> Sample]
         /\ Len(Run(s, n)) = n
         /\ \A i \in 1..n : Run(s, n)[i] = After(s, i - 1)
<1> DEFINE r == Run(s, n)
<1>1. r = [i \in 1..n |-> After(s, i - 1)]
  BY DEF Run
<1>2. \A i \in 1..n : After(s, i - 1) \in Sample
  BY AfterFacts
<1> HIDE DEF r
<1>3. r \in [1..n -> Sample]
  BY <1>1, <1>2
<1>4. r \in Seq(Sample) /\ Len(r) = n
  BY <1>3
<1> QED
  BY <1>1, <1>3, <1>4 DEF r

\* A sequence that holds what a run holds is the run.
LEMMA RunIs ==
  ASSUME NEW s \in Int, NEW n \in Nat,
         NEW q \in Seq(Sample), Len(q) = n,
         \A i \in 1..n : q[i] = After(s, i - 1)
  PROVE  q = Run(s, n)
<1> DEFINE r == Run(s, n)
<1>1. r \in Seq(Sample) /\ Len(r) = n /\ \A i \in 1..n : r[i] = q[i]
  BY RunFacts
<1> HIDE DEF r
<1>2. q = r
  BY <1>1, SeqEqual
<1> QED
  BY <1>2 DEF r

\* A run joined with the one that follows it is a run.
LEMMA RunJoin ==
  ASSUME NEW s \in Int, NEW n \in Nat,
         NEW m \in Nat
  PROVE  Run(s, n) \o Run(After(s, n), m)
         = Run(s, n + m)
<1> DEFINE a == Run(s, n)
           t == After(s, n)
           b == Run(t, m)
<1>1. t \in Int /\ \A i \in Int : After(t, i) = After(s, n + i)
  <2>1. n \in Int
    OBVIOUS
  <2>2. t \in Int
    BY <2>1, AfterFacts
  <2>3. ASSUME NEW i \in Int
        PROVE  After(t, i) = After(s, n + i)
    BY <2>1, AfterAfter
  <2> QED
    BY <2>2, <2>3
<1>2. /\ a \in Seq(Sample) /\ Len(a) = n
      /\ \A i \in 1..n : a[i] = After(s, i - 1)
  BY RunFacts
<1> HIDE DEF t
<1>3. /\ b \in Seq(Sample) /\ Len(b) = m
      /\ \A i \in 1..m : b[i] = After(t, i - 1)
  BY <1>1, RunFacts
<1> HIDE DEF a, b
<1> DEFINE c == a \o b
<1>4. /\ c \in Seq(Sample) /\ Len(c) = n + m /\ n + m \in Nat
      /\ \A i \in 1..(n + m) : c[i] = IF i <= n THEN a[i] ELSE b[i - n]
  <2>1. /\ c \in Seq(Sample) /\ Len(c) = Len(a) + Len(b)
        /\ \A i \in 1..(Len(a) + Len(b)) :
             c[i] = IF i <= Len(a) THEN a[i] ELSE b[i - Len(a)]
    BY <1>2, <1>3, ConcatProperties, Zenon
  <2> QED
    BY <1>2, <1>3, <2>1
<1> HIDE DEF c
<1>5. ASSUME NEW i \in 1..(n + m)
      PROVE  c[i] = After(s, i - 1)
  <2>1. CASE i <= n
    BY <1>2, <1>4, <2>1
  <2>2. CASE ~ (i <= n)
    <3>1. i - n \in 1..m /\ (i - n) - 1 \in Int /\ n + ((i - n) - 1) = i - 1
      BY <2>2
    <3>2. After(t, (i - n) - 1) = After(s, i - 1)
      BY <1>1, <3>1
    <3> QED
      BY <1>3, <1>4, <2>2, <3>1, <3>2
  <2> QED
    BY <2>1, <2>2
<1>6. c = Run(s, n + m)
  <2> DEFINE l == n + m
  <2>1. /\ l \in Nat /\ c \in Seq(Sample) /\ Len(c) = l
        /\ \A i \in 1..l : c[i] = After(s, i - 1)
    BY <1>4, <1>5
  <2> HIDE DEF l
  <2>2. c = Run(s, l)
    BY <2>1, RunIs
  <2> QED
    BY <2>2 DEF l
<1> QED
  BY <1>6 DEF a, b, c, t

\* A run is cut into runs.
LEMMA RunCut ==
  ASSUME NEW s \in Int, NEW n \in Nat,
         NEW m \in 0..n
  PROVE  /\ SubSeq(Run(s, n), 1, m) = Run(s, m)
         /\ SubSeq(Run(s, n), m + 1, n)
            = Run(After(s, m), n - m)
<1> DEFINE r == Run(s, n)
           t == After(s, m)
           a == SubSeq(r, 1, m)
           b == SubSeq(r, m + 1, n)
<1>1. /\ t \in Int /\ n - m \in Nat
      /\ \A i \in Int : After(t, i) = After(s, m + i)
  <2>1. m \in Int /\ n - m \in Nat
    OBVIOUS
  <2>2. t \in Int
    BY <2>1, AfterFacts
  <2>3. ASSUME NEW i \in Int
        PROVE  After(t, i) = After(s, m + i)
    BY <2>1, AfterAfter
  <2> QED
    BY <2>1, <2>2, <2>3
<1>2. /\ r \in Seq(Sample) /\ Len(r) = n
      /\ \A i \in 1..n : r[i] = After(s, i - 1)
  BY RunFacts
<1> HIDE DEF r, t
<1>3. /\ a \in Seq(Sample) /\ Len(a) = m /\ \A i \in 1..m : a[i] = r[i]
  BY <1>2, SubSeqProperties
<1>4. /\ b \in Seq(Sample) /\ Len(b) = n - m
      /\ \A i \in 1..(n - m) : b[i] = r[m + i]
  BY <1>2, SubSeqProperties
<1> HIDE DEF a, b
<1>5. a = Run(s, m)
  BY <1>2, <1>3, RunIs
<1>6. \A i \in 1..(n - m) : b[i] = After(t, i - 1)
  BY <1>1, <1>2, <1>4
<1>7. b = Run(t, n - m)
  BY <1>1, <1>4, <1>6, RunIs
<1> QED
  BY <1>5, <1>7 DEF a, b, r, t

\* The numbers among the variables.
LEMMA EncoderNumbers ==
  ASSUME EncoderTypeOK
  PROVE  /\ captured \in Int /\ from \in Int /\ readFront \in Nat
         /\ buffers = <<>> => readFront = 0
         /\ buffers # <<>> => readFront < Len(buffers[1].data)
<1>1. /\ captured \in 0..(Period - 1) /\ from \in 0..(Period - 1)
      /\ readFront \in 0..Out
  BY Zenon DEF EncoderTypeOK, Sample
<1>2. /\ buffers = <<>> => readFront = 0
      /\ buffers # <<>> => readFront < Len(buffers[1].data)
  BY Zenon DEF EncoderTypeOK
<1> QED
  BY <1>1, <1>2

\* The types hold at first and after every step.
LEMMA EncoderTypesHold == EncoderSpec => []EncoderTypes
<1>1. Period \in Nat /\ Out \in Nat /\ Out > 0 /\ Period > Out
  BY AudioEncoderAssumption
<1>2. EncoderInit => EncoderTypes
  <2> SUFFICES ASSUME EncoderInit
               PROVE  EncoderTypes
    OBVIOUS
  <2>1. /\ buffers \in Seq([data : Seq(Sample), time : Sample])
        /\ Len(buffers) = 0
    BY DEF EncoderInit
  <2>2. captured \in Sample /\ from \in Sample
    BY <1>1 DEF EncoderInit, Sample
  <2>3. readFront \in 0..Out
    BY <1>1 DEF EncoderInit
  <2>4. /\ app = "idle" /\ immediateEncode = FALSE /\ worker = "check"
        /\ buffers = <<>> /\ readFront = 0 /\ sent = <<>>
    BY DEF EncoderInit
  <2>5. EncoderTypeOK
    BY <2>1, <2>2, <2>3, <2>4, Zenon DEF EncoderTypeOK
  <2> QED
    BY <2>1, <2>5 DEF EncoderTypes, NoneEmpty
<1>3. ASSUME EncoderTypes, NEW n \in Captures, AddBuffer(n)
      PROVE  EncoderTypes'
  <2> DEFINE Buffer == [data : Seq(Sample), time : Sample]
             b == [data |-> Run(captured, n), time |-> captured]
  <2>1. n \in Nat /\ n > 0 /\ captured \in Int
    BY <1>3, EncoderNumbers, AudioEncoderAssumption DEF EncoderTypes
  <2>2. /\ Run(captured, n) \in Seq(Sample)
        /\ Len(Run(captured, n)) = n
    BY <2>1, RunFacts DEF Sample
  <2>3. captured' \in Sample
    BY <1>3, <2>1, AfterFacts DEF AddBuffer, Sample
  <2>4. b \in Buffer /\ Len(b.data) > 0
    BY <1>3, <2>1, <2>2 DEF EncoderTypes, EncoderTypeOK
  <2>5. /\ buffers' = Append(buffers, b)
        /\ app' = "added"
        /\ UNCHANGED <<readFront, immediateEncode, worker, sent, from>>
    BY <1>3 DEF AddBuffer
  <2>6. buffers \in Seq(Buffer)
    BY <1>3 DEF EncoderTypes, EncoderTypeOK
  <2> HIDE DEF Buffer, b
  <2>7. /\ buffers' \in Seq(Buffer) /\ Len(buffers) \in Nat
        /\ Len(buffers') = Len(buffers) + 1
        /\ \A i \in 1..Len(buffers) : buffers'[i] = buffers[i]
        /\ buffers'[Len(buffers) + 1] = b
    BY <2>4, <2>5, <2>6, AppendProperties, LenProperties
  <2>8. \A i \in 1..Len(buffers') : Len(buffers'[i].data) > 0
    BY <1>3, <2>4, <2>7 DEF EncoderTypes, NoneEmpty
  <2>9. buffers' # <<>> /\ readFront < Len(buffers'[1].data)
    <3>1. CASE buffers = <<>>
      <4>1. readFront = 0 /\ 1 \in 1..Len(buffers')
        BY <1>3, <2>7, <3>1, EncoderNumbers DEF EncoderTypes
      <4> QED
        BY <2>7, <2>8, <4>1
    <3>2. CASE buffers # <<>>
      <4>1. 1 \in 1..Len(buffers)
        BY <2>6, <2>7, <3>2
      <4> QED
        BY <1>3, <2>7, <3>2, <4>1, EncoderNumbers DEF EncoderTypes
    <3> QED
      BY <3>1, <3>2
  <2>10. EncoderTypeOK'
    BY <1>3, <2>3, <2>5, <2>7, <2>9 DEF EncoderTypes, EncoderTypeOK, Buffer
  <2> QED
    BY <2>8, <2>10 DEF EncoderTypes, NoneEmpty
<1>4. ASSUME EncoderTypes, PopAndEncode
      PROVE  EncoderTypes'
  <2>1. PICK k \in 0..Len(buffers), part \in 0..Out :
           /\ buffers # <<>>
           /\ part = Out - Len(Unread(k))
           /\ part > 0 => k < Len(buffers)
           /\ k < Len(buffers) => part < Len(Held(k + 1))
           /\ sent' = [samples |->
                         IF part = 0 THEN Unread(k)
                         ELSE Unread(k) \o
                                SubSeq(buffers[k + 1].data, 1, part),
                       time |-> FrontTime]
           /\ buffers' = SubSeq(buffers, k + 1, Len(buffers))
           /\ readFront' = part
           /\ from' = After(from, Out)
           /\ UNCHANGED <<app, captured, immediateEncode, worker>>
    BY <1>4, PopEffect DEF EncoderTypes
  <2> DEFINE Buffer == [data : Seq(Sample), time : Sample]
  <2>2. buffers \in Seq(Buffer) /\ Len(buffers) \in Nat /\ EncoderTypeOK
    BY LenProperties, <1>4 DEF EncoderTypes, EncoderTypeOK, Sample
  <2> HIDE DEF Buffer
  <2>3. /\ buffers' \in Seq(Buffer) /\ Len(buffers') = Len(buffers) - k
        /\ \A i \in 1..Len(buffers') : buffers'[i] = buffers[k + i]
    BY <2>1, <2>2, SubSeqProperties
  <2>4. NoneEmpty'
    BY <1>4, <2>1, <2>2, <2>3 DEF EncoderTypes, NoneEmpty
  \* what goes into the packet of the buffer that is not used up
  <2>5. k < Len(buffers) =>
          /\ Len(Held(k + 1)) <= Len(buffers[k + 1].data)
          /\ buffers[k + 1].data \in Seq(Sample)
          /\ Len(buffers[k + 1].data) \in Nat
    <3> SUFFICES ASSUME k < Len(buffers)
                 PROVE  /\ Len(Held(k + 1)) <= Len(buffers[k + 1].data)
                        /\ buffers[k + 1].data \in Seq(Sample)
                        /\ Len(buffers[k + 1].data) \in Nat
      OBVIOUS
    <3>1. k + 1 \in 1..Len(buffers)
      BY <2>1, <2>2
    <3>2. readFront \in Nat
      BY <2>2, EncoderNumbers
    <3> QED
      BY <2>2, <3>1, <3>2, BufferFacts, HeldFacts
  <2>6. IF buffers' = <<>> THEN readFront' = 0
        ELSE readFront' < Len(buffers'[1].data)
    <3>1. CASE k < Len(buffers)
      <4>1. 1 \in 1..Len(buffers') /\ k + 1 \in 1..Len(buffers)
        BY <2>1, <2>2, <2>3, <3>1
      <4>2. buffers' # <<>> /\ buffers'[1] = buffers[k + 1]
        BY <2>3, <4>1
      <4>3. Len(Held(k + 1)) \in Nat
        BY <2>2, <4>1, HeldFacts, LenProperties
      <4> QED
        BY <2>1, <2>5, <3>1, <4>2, <4>3
    <3>2. CASE ~ (k < Len(buffers))
      <4>1. k = Len(buffers) /\ part = 0
        BY <2>1, <2>2, <3>2
      <4>2. buffers' = <<>>
        BY <2>3, <4>1
      <4> QED
        BY <2>1, <4>1, <4>2
    <3> QED
      BY <3>1, <3>2
  <2>7. sent'.samples \in [1..Out -> Sample]
    <3> DEFINE w == Unread(k)
               s == sent'.samples
    <3>1. w \in Seq(Sample) /\ Len(w) \in Nat /\ Len(w) = Out - part
      BY <1>1, <2>1, <2>2, UnreadType
    <3>2. s = IF part = 0 THEN w
              ELSE w \o SubSeq(buffers[k + 1].data, 1, part)
      BY <2>1
    <3> HIDE DEF w, s
    <3>3. s \in Seq(Sample) /\ Len(s) = Out
      <4>1. CASE part = 0
        BY <1>1, <3>1, <3>2, <4>1
      <4>2. CASE part # 0
        <5> DEFINE p == SubSeq(buffers[k + 1].data, 1, part)
        <5>1. k < Len(buffers) /\ part \in Nat /\ part < Len(Held(k + 1))
          BY <2>1, <4>2
        <5>2. Len(Held(k + 1)) \in Nat
          <6>1. k + 1 \in 1..Len(buffers)
            BY <2>1, <2>2, <5>1
          <6> QED
            BY <2>2, <6>1, HeldFacts, LenProperties
        <5>3. part <= Len(buffers[k + 1].data)
          BY <2>5, <5>1, <5>2
        <5>4. p \in Seq(Sample) /\ Len(p) = part
          BY <2>5, <5>1, <5>3, SubSeqProperties
        <5>5. s = w \o p
          BY <3>2, <4>2
        <5> HIDE DEF p
        <5> QED
          BY <1>1, <3>1, <5>1, <5>4, <5>5, ConcatProperties
      <4> QED
        BY <4>1, <4>2
    <3>4. s \in [1..Out -> Sample]
      BY <3>3, LenProperties
    <3> QED
      BY <3>4 DEF s
  <2>8. FrontTime \in Sample /\ from' \in Sample
    <3>1. 1 \in 1..Len(buffers)
      BY <2>1, <2>2
    <3>2. buffers[1].time \in Int
      BY <1>1, <2>2, <3>1, BufferFacts DEF Sample
    <3>3. from \in Int /\ readFront \in Nat /\ SampleBytes \in {2, 4}
      BY <2>2, EncoderNumbers, AudioEncoderAssumption
    <3>4. (readFront * SampleBytes) \div SampleDivisor \in Int
      BY <3>3 DEF SampleDivisor
    <3>5. Out \in Int
      BY <1>1
    <3>6. FrontTime \in Sample
      BY <3>2, <3>4, AfterFacts DEF FrontTime
    <3>7. After(from, Out) \in Sample
      BY <3>3, <3>5, AfterFacts
    <3> QED
      BY <2>1, <3>6, <3>7
  <2>9. sent' \in [samples : [1..Out -> Sample], time : Sample]
    BY <2>1, <2>7, <2>8
  <2>10. EncoderTypeOK'
    BY <2>1, <2>2, <2>3, <2>6, <2>8, <2>9 DEF EncoderTypeOK, Sample, Buffer
  <2> QED
    BY <2>4, <2>10 DEF EncoderTypes
<1>5. ASSUME EncoderTypes,
             \/ FinishCall \/ Check \/ FallAsleep
             \/ EncodeDone \/ Reset
             \/ WakeSpuriously \/ UNCHANGED encoderVars
      PROVE  EncoderTypes'
  <2>1. UNCHANGED <<captured, buffers, readFront, sent, from>>
    BY <1>5 DEF FinishCall, SetFlag, Notify,
       Check, FallAsleep, EncodeDone, Reset,
       WakeSpuriously, encoderVars
  <2>2. /\ app' \in {"idle", "added", "flagged"}
        /\ immediateEncode' \in BOOLEAN
        /\ worker' \in {"check", "going to sleep", "asleep", "encode", "reset"}
    BY <1>5 DEF FinishCall, SetFlag, Notify,
       Check, FallAsleep, EncodeDone, Reset,
       WakeSpuriously, encoderVars, EncoderTypes, EncoderTypeOK
  <2> QED
    BY <1>5, <2>1, <2>2 DEF EncoderTypes, EncoderTypeOK, NoneEmpty
<1>6. EncoderTypes /\ [EncoderNext]_encoderVars => EncoderTypes'
  BY <1>3, <1>4, <1>5
     DEF EncoderNext, Capture, EncoderWerk
<1> QED
  BY <1>2, <1>6, PTL DEF EncoderSpec

\* The sample the next packet begins with, and the one that follows buffer i.
Due == After(from, Out)

EndOf(i) == IF i < Len(buffers) THEN buffers[i + 1].time ELSE captured

\* EncodedInOrder speaks of the last packet only.  It needs that the buffers
\* continue one another up to what was captured last, and that what is unread
\* of the first one begins where the last packet ended.
RunsOn ==
  /\ \A i \in 1..Len(buffers) :
       LET n == Len(buffers[i].data)
       IN /\ n <= Out + 1
          /\ buffers[i].data = Run(buffers[i].time, n)
          /\ EndOf(i) = After(buffers[i].time, n)
  /\ Due = IF buffers = <<>> THEN captured
           ELSE After(buffers[1].time, readFront)

\* What is left of a buffer is a run that ends where the next one begins.
LEMMA HeldRuns ==
  ASSUME EncoderTypes, RunsOn,
         NEW i \in 1..Len(buffers)
  PROVE  LET s == IF i = 1 THEN Due ELSE buffers[i].time
             n == Len(Held(i))
         IN  /\ s \in Int /\ n \in Nat
             /\ Held(i) = Run(s, n)
             /\ EndOf(i) = After(s, n)
<1> DEFINE t == buffers[i].time
           n == Len(buffers[i].data)
           r == readFront
<1>1. t \in Int /\ n \in Nat
  <2>1. t \in 0..(Period - 1) /\ n \in Nat
    BY BufferFacts DEF EncoderTypes, Sample
  <2> QED
    BY <2>1
<1>2. /\ buffers[i].data = Run(t, n)
      /\ EndOf(i) = After(t, n)
  BY DEF RunsOn
<1>3. Len(Held(i)) = IF i = 1 THEN n - r ELSE n
  BY HeldFacts DEF EncoderTypes
<1>4. CASE i = 1
  <2>1. buffers # <<>>
    BY <1>4
  <2>2. r \in 0..n /\ r \in Int /\ n - r \in Nat
    BY <1>1, <1>4, <2>1, EncoderNumbers DEF EncoderTypes
  <2>3. Due = After(t, r)
    BY <1>4, <2>1 DEF RunsOn
  <2>4. Held(i) = SubSeq(Run(t, n), r + 1, n)
    BY <1>2, <1>4 DEF Held
  <2> HIDE DEF t, n, r
  <2>5. Held(i) = Run(Due, n - r)
    BY <1>1, <2>2, <2>3, <2>4, RunCut
  <2>6. Due \in Int
    BY <1>1, <2>2, <2>3, AfterFacts
  <2>7. After(Due, n - r) = After(t, n)
    <3>1. r + (n - r) = n /\ n - r \in Int
      BY <1>1, <2>2
    <3> QED
      BY <1>1, <2>2, <2>3, <3>1, AfterAfter
  <2> QED
    BY <1>2, <1>3, <1>4, <2>2, <2>5, <2>6, <2>7
<1>5. CASE i # 1
  BY <1>1, <1>2, <1>3, <1>5 DEF Held
<1> QED
  BY <1>4, <1>5

\* So is what the first buffers hold, from the sample that is due.
LEMMA UnreadRuns ==
  ASSUME EncoderTypes, RunsOn,
         NEW k \in 0..Len(buffers)
  PROVE  LET n == Len(Unread(k))
         IN  /\ Unread(k) = Run(Due, n)
             /\ k > 0 => EndOf(k) = After(Due, n)
<1> DEFINE m == Len(buffers)
           U(j) == Unread(j)
           Runs(j) == /\ U(j) = Run(Due, Len(U(j)))
                      /\ j > 0 => EndOf(j) = After(Due, Len(U(j)))
           D == {j \in 0..m : ~Runs(j)}
<1>1. m \in Nat /\ EncoderTypeOK
  BY LenProperties DEF EncoderTypes, EncoderTypeOK
<1>2. Due \in Int
  <2>1. from \in Int /\ Out \in Int
    BY <1>1, EncoderNumbers, AudioEncoderAssumption
  <2> QED
    BY <2>1, AfterFacts DEF Due
<1>3. Runs(0)
  <2>1. U(0) = <<>> /\ Len(<<>>) = 0
    BY <1>1, UnreadSteps
  <2>2. <<>> \in Seq(Sample) /\ \A i \in 1..0 : FALSE
    OBVIOUS
  <2>3. <<>> = Run(Due, 0)
    BY <1>2, <2>1, <2>2, RunIs
  <2> QED
    BY <2>1, <2>3
<1>4. ASSUME NEW j \in 1..m, Runs(j - 1)
      PROVE  Runs(j)
  <2> DEFINE h == Held(j)
             a == Len(U(j - 1))
             b == Len(h)
             s == IF j = 1 THEN Due ELSE buffers[j].time
  <2>1. j - 1 \in 0..m /\ j > 0
    BY <1>1
  <2>2. /\ s \in Int /\ b \in Nat /\ h = Run(s, b)
        /\ EndOf(j) = After(s, b)
    BY HeldRuns
  <2>3. a \in Nat /\ a \in Int /\ b \in Int /\ a + b \in Nat
    <3>1. a \in Nat
      BY <1>1, <2>1, UnreadType
    <3> QED
      BY <2>2, <3>1
  <2>4. s = After(Due, a)
    <3>1. CASE j = 1
      <4>1. a = 0 /\ s = Due
        <5>1. U(0) = <<>>
          BY <1>1, UnreadSteps
        <5> QED
          BY <3>1, <5>1
      <4>2. Due \in Sample
        <5>1. from \in Int /\ Out \in Int
          BY <1>1, EncoderNumbers, AudioEncoderAssumption
        <5> QED
          BY <5>1, AfterFacts DEF Due
      <4> HIDE DEF s, a
      <4> QED
        BY <1>2, <4>1, <4>2, AfterFacts
    <3>2. CASE j # 1
      <4>1. /\ j - 1 > 0 /\ j - 1 < m /\ (j - 1) + 1 = j
        BY <1>1, <3>2
      <4>2. EndOf(j - 1) = buffers[j].time
        BY <4>1 DEF EndOf
      <4> QED
        BY <1>4, <3>2, <4>1, <4>2
    <3> QED
      BY <3>1, <3>2
  <2>5. U(j) = U(j - 1) \o h /\ U(j - 1) = Run(Due, a)
    BY <1>1, <1>4, UnreadSteps
  <2> HIDE DEF U, h, a, b, s
  <2>6. U(j) = Run(Due, a + b)
    <3>1. Run(Due, a) \o Run(After(Due, a), b)
          = Run(Due, a + b)
      BY <1>2, <2>2, <2>3, RunJoin
    <3>2. U(j) = Run(Due, a) \o Run(After(Due, a), b)
      BY <2>2, <2>4, <2>5, Zenon
    <3> QED
      BY <3>1, <3>2, Zenon
  <2>7. Len(U(j)) = a + b
    BY <1>2, <2>3, <2>6, RunFacts
  <2>8. EndOf(j) = After(Due, a + b)
    BY <1>2, <2>2, <2>3, <2>4, AfterAfter
  <2> QED
    BY <2>6, <2>7, <2>8
<1> HIDE DEF Runs
<1>5. D = {}
  <2> SUFFICES ASSUME D # {}
               PROVE  FALSE
    OBVIOUS
  <2>1. D \in SUBSET Nat
    BY <1>1
  <2> HIDE DEF D
  <2>2. PICK n \in D : \A j \in D : n <= j
    BY <2>1, Least
  <2> USE DEF D
  <2>3. n \in 0..m /\ ~Runs(n) /\ n \in 1..m
    BY <1>1, <1>3, <2>2
  <2>4. n - 1 \in 0..m /\ n - 1 \notin D
    BY <1>1, <2>2, <2>3
  <2> QED
    BY <1>4, <2>3, <2>4
<1>6. Runs(k)
  BY <1>5 DEF D, m
<1> QED
  BY <1>6 DEF Runs, U

\* A packet holds the samples that are due, and the next ones are due then.
LEMMA PacketRuns ==
  ASSUME EncoderTypes, RunsOn,
         PopAndEncode
  PROVE  /\ sent'.samples = Run(Due, Out)
         /\ sent'.time = FrontTime
         /\ from' = Due
         /\ RunsOn'
<1>1. PICK k \in 0..Len(buffers), part \in 0..Out :
         /\ buffers # <<>>
         /\ part = Out - Len(Unread(k))
         /\ part > 0 => k < Len(buffers)
         /\ k < Len(buffers) => part < Len(Held(k + 1))
         /\ sent' = [samples |->
                       IF part = 0 THEN Unread(k)
                       ELSE Unread(k) \o
                              SubSeq(buffers[k + 1].data, 1, part),
                     time |-> FrontTime]
         /\ buffers' = SubSeq(buffers, k + 1, Len(buffers))
         /\ readFront' = part
         /\ from' = After(from, Out)
         /\ UNCHANGED <<app, captured, immediateEncode, worker>>
  BY PopEffect DEF EncoderTypes
<1> DEFINE m == Len(buffers)
           w == Unread(k)
           n == Len(w)
<1>2. /\ EncoderTypeOK /\ m \in Nat /\ Out \in Nat /\ Out > 0
      /\ k \in Int /\ 0 <= k /\ k <= m
  <2>1. EncoderTypeOK /\ Out \in Nat /\ Out > 0
    BY AudioEncoderAssumption DEF EncoderTypes
  <2>2. m \in Nat
    BY <2>1, LenProperties DEF EncoderTypeOK
  <2> QED
    BY <2>1, <2>2
<1>3. n \in Nat /\ n = Out - part /\ part \in Nat /\ Out = n + part
  <2>1. n \in Nat
    BY <1>2, UnreadType
  <2> QED
    BY <1>1, <1>2, <2>1
<1>4. /\ w = Run(Due, n)
      /\ k > 0 => EndOf(k) = After(Due, n)
  BY UnreadRuns
<1>5. k = 0 => n = 0
  BY <1>2, UnreadSteps
<1>6. Due \in Int /\ Due \in Sample
  <2>1. from \in Int /\ Out \in Int
    BY <1>2, EncoderNumbers
  <2> QED
    BY <2>1, AfterFacts DEF Due
<1> HIDE DEF w, n
\* The buffer that is not used up begins with the sample after the ones that
\* are: when none is, none of it has been read, for it holds Out + 1 at most.
<1>7. k < m => /\ buffers[k + 1].time = After(Due, n)
               /\ Len(buffers[k + 1].data) \in Nat
               /\ part <= Len(buffers[k + 1].data)
               /\ buffers[k + 1].data
                  = Run(buffers[k + 1].time,
                                Len(buffers[k + 1].data))
  <2> SUFFICES ASSUME k < m
               PROVE  /\ buffers[k + 1].time = After(Due, n)
                      /\ Len(buffers[k + 1].data) \in Nat
                      /\ part <= Len(buffers[k + 1].data)
                      /\ buffers[k + 1].data
                         = Run(buffers[k + 1].time,
                                       Len(buffers[k + 1].data))
    OBVIOUS
  <2> DEFINE d == buffers[k + 1].data
             t == buffers[k + 1].time
  <2>1. k + 1 \in 1..m /\ (k + 1 = 1 <=> k = 0)
    BY <1>2
  <2>2. /\ d = Run(t, Len(d)) /\ Len(d) <= Out + 1
    BY <2>1 DEF RunsOn
  <2>3. Len(d) \in Nat /\ t \in Sample
    BY <1>2, <2>1, BufferFacts
  <2>4. /\ Len(Held(k + 1)) = IF k = 0 THEN Len(d) - readFront ELSE Len(d)
        /\ part < Len(Held(k + 1))
        /\ readFront \in Nat
    BY <1>1, <1>2, <2>1, HeldFacts, EncoderNumbers
  <2>5. CASE k = 0
    <3>1. part = Out
      BY <1>3, <1>5, <2>5
    <3>2. readFront = 0
      <4> HIDE DEF d
      <4> QED
        BY <1>2, <2>2, <2>3, <2>4, <2>5, <3>1
    <3>3. Due = After(t, 0)
      BY <1>1, <2>5, <3>2 DEF RunsOn
    <3>4. t \in Int
      <4>1. t \in 0..(Period - 1)
        BY <2>3 DEF Sample
      <4> QED
        BY <4>1
    <3>5. Due = t
      BY <2>3, <3>3, <3>4, AfterFacts
    <3>6. After(Due, n) = Due
      BY <1>5, <1>6, <2>5, AfterFacts
    <3> QED
      BY <1>3, <2>2, <2>3, <2>4, <3>2, <3>5, <3>6
  <2>6. CASE k # 0
    <3>1. EndOf(k) = t /\ k > 0
      BY <1>2, <2>6 DEF EndOf
    <3> QED
      BY <1>3, <1>4, <2>2, <2>3, <2>4, <2>6, <3>1
  <2> QED
    BY <2>5, <2>6
<1>8. sent'.samples = Run(Due, Out)
  <2>1. CASE part = 0
    BY <1>1, <1>3, <1>4, <2>1 DEF w
  <2>2. CASE part # 0
    <3> DEFINE t == buffers[k + 1].time
               l == Len(buffers[k + 1].data)
               p == SubSeq(buffers[k + 1].data, 1, part)
    <3>1. k < m
      BY <1>1, <1>3, <2>2
    <3>2. p = SubSeq(Run(t, l), 1, part)
      BY <1>7, <3>1
    <3>3. t = After(Due, n) /\ l \in Nat /\ part \in 0..l
      BY <1>3, <1>7, <3>1
    <3>4. t \in Int
      BY <1>3, <1>6, <3>3, AfterFacts
    <3>5. sent'.samples = w \o p
      BY <1>1, <2>2 DEF w
    <3> HIDE DEF t, l, p
    <3>6. p = Run(t, part)
      BY <3>2, <3>3, <3>4, RunCut
    <3>7. Run(Due, n) \o Run(After(Due, n), part)
          = Run(Due, n + part)
      BY <1>3, <1>6, RunJoin
    <3> QED
      BY <1>3, <1>4, <3>3, <3>5, <3>6, <3>7
  <2> QED
    BY <2>1, <2>2
<1>9. /\ buffers' \in Seq([data : Seq(Sample), time : Sample])
      /\ Len(buffers') = m - k
      /\ \A i \in 1..(m - k) : buffers'[i] = buffers[k + i]
  <2> DEFINE Buffer == [data : Seq(Sample), time : Sample]
  <2>1. buffers \in Seq(Buffer)
    BY <1>2 DEF EncoderTypeOK, Sample
  <2> HIDE DEF Buffer
  <2> DEFINE rest == SubSeq(buffers, k + 1, m)
  <2>2. k + 1 \in 1..(m + 1)
    BY <1>2
  <2>3. /\ rest \in Seq(Buffer) /\ Len(rest) = m - k
        /\ \A i \in 1..(m - k) : rest[i] = buffers[k + i]
    BY <1>2, <2>1, <2>2, SubSeqProperties
  <2>4. buffers' = rest
    BY <1>1
  <2> HIDE DEF rest
  <2> QED
    BY <2>3, <2>4 DEF Buffer
<1>10. ASSUME NEW i \in 1..Len(buffers')
       PROVE  LET l == Len(buffers'[i].data)
              IN /\ l <= Out + 1
                 /\ buffers'[i].data = Run(buffers'[i].time, l)
                 /\ EndOf(i)' = After(buffers'[i].time, l)
  <2>1. k + i \in 1..m /\ buffers'[i] = buffers[k + i]
    BY <1>2, <1>9
  <2>2. EndOf(i)' = EndOf(k + i)
    <3>1. CASE i < Len(buffers')
      <4>1. i + 1 \in 1..(m - k) /\ k + i < m /\ k + (i + 1) = (k + i) + 1
        <5>1. i \in Nat /\ i >= 1 /\ i < m - k
          BY <1>2, <1>9, <3>1
        <5> HIDE DEF m
        <5> QED
          BY <1>2, <5>1
      <4>2. buffers'[i + 1] = buffers[k + (i + 1)]
        BY <1>9, <4>1
      <4> QED
        BY <3>1, <4>1, <4>2 DEF EndOf
    <3>2. CASE ~ (i < Len(buffers'))
      <4>1. ~ (k + i < m)
        BY <1>2, <1>9, <3>2
      <4> QED
        BY <1>1, <3>2, <4>1 DEF EndOf
    <3> QED
      BY <3>1, <3>2
  <2> QED
    BY <2>1, <2>2 DEF RunsOn
<1>11. from' = Due
  BY <1>1 DEF Due
<1>12. Due' = After(Due, Out)
  BY <1>11 DEF Due
<1>13. Due' = IF buffers' = <<>> THEN captured'
              ELSE After(buffers'[1].time, readFront')
  <2>1. CASE k = m
    <3>1. buffers' = <<>> /\ part = 0 /\ captured' = captured
      BY <1>1, <1>2, <1>3, <1>9, <2>1
    <3>2. k > 0
      BY <1>2, <1>3, <1>5, <3>1, <2>1
    <3>3. captured = After(Due, n) /\ n = Out
      BY <1>2, <1>3, <1>4, <2>1, <3>1, <3>2 DEF EndOf
    <3> QED
      BY <1>12, <3>1, <3>3
  <2>2. CASE k # m
    <3> DEFINE t == buffers[k + 1].time
    <3>1. k < m /\ 1 \in 1..(m - k)
      BY <1>2, <2>2
    <3>2. buffers' # <<>> /\ buffers'[1].time = t
      BY <1>9, <3>1
    <3>3. t = After(Due, n)
      BY <1>7, <3>1
    <3> HIDE DEF t
    <3>4. After(t, part) = After(Due, n + part)
      BY <1>3, <1>6, <3>3, AfterAfter
    <3> QED
      BY <1>1, <1>3, <1>12, <3>2, <3>4
  <2> QED
    BY <2>1, <2>2
<1>14. RunsOn'
  BY <1>10, <1>13 DEF RunsOn
<1>15. sent'.time = FrontTime
  BY <1>1
<1> QED
  BY <1>8, <1>11, <1>14, <1>15

\* A captured buffer continues what is there.
LEMMA CaptureRuns ==
  ASSUME EncoderTypes, RunsOn,
         NEW c \in Captures, c <= Out + 1, AddBuffer(c)
  PROVE  RunsOn'
<1> DEFINE b == [data |-> Run(captured, c), time |-> captured]
           Buffer == [data : Seq(Sample), time : Sample]
           m == Len(buffers)
<1>1. /\ EncoderTypeOK /\ c \in Nat /\ c > 0
      /\ captured \in Int /\ captured \in Sample
  <2>1. EncoderTypeOK /\ c \in Nat /\ c > 0
    BY AudioEncoderAssumption DEF EncoderTypes
  <2>2. captured \in Sample
    BY <2>1, Zenon DEF EncoderTypeOK, Sample
  <2> QED
    BY <2>1, <2>2, EncoderNumbers
<1>2. /\ Run(captured, c) \in Seq(Sample)
      /\ Len(Run(captured, c)) = c
  BY <1>1, RunFacts
<1>3. b \in Buffer
  BY <1>1, <1>2
<1>4. /\ b.data = Run(captured, c) /\ b.time = captured
      /\ Len(b.data) = c
  BY <1>2
<1>5. /\ buffers' = Append(buffers, b)
      /\ captured' = After(captured, c)
      /\ UNCHANGED <<readFront, from>>
  BY DEF AddBuffer
<1>6. buffers \in Seq(Buffer)
  BY <1>1 DEF EncoderTypeOK, Sample
<1> HIDE DEF b, Buffer
<1>7. /\ m \in Nat /\ Len(buffers') = m + 1
      /\ \A i \in 1..m : buffers'[i] = buffers[i]
      /\ buffers'[m + 1] = b
  BY <1>3, <1>5, <1>6, AppendProperties, LenProperties
<1>8. ASSUME NEW i \in 1..Len(buffers')
      PROVE  LET l == Len(buffers'[i].data)
             IN /\ l <= Out + 1
                /\ buffers'[i].data = Run(buffers'[i].time, l)
                /\ EndOf(i)' = After(buffers'[i].time, l)
  <2>1. CASE i = m + 1
    <3>1. EndOf(i)' = captured' /\ buffers'[i] = b
      BY <1>7, <2>1 DEF EndOf
    <3> QED
      BY <1>4, <1>5, <3>1
  <2>2. CASE i # m + 1
    <3>1. i \in 1..m /\ i + 1 \in 1..(m + 1) /\ buffers'[i] = buffers[i]
      BY <1>7, <2>2
    <3>2. EndOf(i)' = EndOf(i)
      <4>1. EndOf(i)' = buffers'[i + 1].time
        BY <1>7, <3>1 DEF EndOf
      <4>2. CASE i = m
        <5>1. buffers'[i + 1] = b /\ EndOf(i) = captured
          BY <1>7, <4>2 DEF EndOf
        <5> QED
          BY <1>4, <4>1, <5>1
      <4>3. CASE i # m
        <5>1. i + 1 \in 1..m /\ i < m
          BY <1>7, <3>1, <4>3
        <5> QED
          BY <1>7, <4>1, <5>1 DEF EndOf
      <4> QED
        BY <4>2, <4>3
    <3> QED
      BY <3>1, <3>2 DEF RunsOn
  <2> QED
    BY <2>1, <2>2
<1>9. Due' = Due
  BY <1>5 DEF Due
<1>10. Due' = IF buffers' = <<>> THEN captured'
              ELSE After(buffers'[1].time, readFront')
  <2>1. 1 \in 1..(m + 1) /\ buffers' # <<>>
    BY <1>7
  <2>2. CASE buffers = <<>>
    <3>1. m = 0 /\ readFront = 0 /\ Due = captured
      BY <1>1, <2>2, EncoderNumbers DEF RunsOn
    <3>2. buffers'[1] = b
      BY <1>7, <3>1
    <3>3. After(captured, 0) = captured
      BY <1>1, AfterFacts
    <3> QED
      BY <1>4, <1>5, <1>9, <2>1, <3>1, <3>2, <3>3
  <2>3. CASE buffers # <<>>
    <3>1. 1 \in 1..m
      BY <1>6, <1>7, <2>3
    <3>2. buffers'[1] = buffers[1]
      BY <1>7, <3>1
    <3> QED
      BY <1>5, <1>9, <2>1, <2>3, <3>2 DEF RunsOn
  <2> QED
    BY <2>2, <2>3
<1> QED
  BY <1>8, <1>10 DEF RunsOn

\* The time of the first unread sample is the one that is due, or late by at
\* most what the divisor makes of the offset.
LEMMA FrontIsDue ==
  ASSUME EncoderTypes, RunsOn, buffers # <<>>
  PROVE  \E late \in 0..MaxLate : FrontTime = After(Due, late)
<1> DEFINE t == buffers[1].time
           late == IF SampleBytes = 2 THEN 0 ELSE readFront
<1>1. /\ readFront \in Nat /\ readFront \in 0..Out /\ Out \in Nat
      /\ SampleBytes \in {2, 4}
  BY EncoderNumbers, AudioEncoderAssumption DEF EncoderTypes, EncoderTypeOK
<1>2. (readFront * SampleBytes) \div SampleDivisor = readFront + late
  BY <1>1 DEF SampleDivisor
<1>3. late \in 0..MaxLate /\ late \in Int
  BY <1>1 DEF MaxLate
<1>4. t \in Int
  <2>1. Len(buffers) # 0 /\ Len(buffers) \in Nat
    BY EmptySeq, EncoderNumbers DEF EncoderTypes
  <2>2. 1 \in 1..Len(buffers)
    BY <2>1
  <2> QED
    BY <2>2, BufferFacts, AudioEncoderAssumption DEF EncoderTypes, Sample
<1>5. Due = After(t, readFront)
  BY DEF RunsOn
<1>6. FrontTime = After(t, readFront + late)
  BY <1>2 DEF FrontTime
<1> HIDE DEF t, late
<1>7. After(Due, late) = After(t, readFront + late)
  <2>1. readFront \in Int /\ late \in Int
    BY <1>1, <1>3
  <2> QED
    BY <1>4, <1>5, <2>1, AfterAfter
<1> QED
  BY <1>3, <1>6, <1>7

\* RunsOn is inductive together with what it says of the last packet.
LEMMA EncoderRunsOn ==
  ASSUME \A n \in Captures : n <= Out + 1
  PROVE  EncoderSpec =>
           [](RunsOn /\ EncodedInOrder /\ TimesBounded)
<1> DEFINE Inv == RunsOn /\ EncodedInOrder /\ TimesBounded
<1>1. EncoderInit => Inv
  <2> SUFFICES ASSUME EncoderInit
               PROVE  Inv
    OBVIOUS
  <2>1. /\ buffers = <<>> /\ Len(buffers) = 0 /\ captured = 0
        /\ sent = <<>> /\ from = Period - Out
    BY DEF EncoderInit
  <2>2. Period \in Nat /\ Period > 0 /\ Out \in Nat /\ Period > Out
    BY AudioEncoderAssumption
  <2>3. (from + Out) % Period = 0
    <3>1. from + Out = Period * 1 + 0 /\ from + Out \in Int
          /\ 0 \in 0..(Period - 1)
      BY <2>1, <2>2
    <3> QED
      BY <2>2, <3>1, RemainderUnique
  <2>4. Due = captured
    BY <2>1, <2>3 DEF Due, After
  <2>5. \A i \in 1..Len(buffers) : FALSE
    BY <2>1
  <2> QED
    BY <2>1, <2>4, <2>5
       DEF RunsOn, EncodedInOrder, TimesBounded
<1>2. ASSUME EncoderTypes, Inv, NEW c \in Captures, AddBuffer(c)
      PROVE  Inv'
  <2>1. RunsOn'
    BY <1>2, CaptureRuns
  <2>2. UNCHANGED <<sent, from>>
    BY <1>2 DEF AddBuffer
  <2> QED
    BY <1>2, <2>1, <2>2 DEF EncodedInOrder, TimesBounded
<1>3. ASSUME EncoderTypes, Inv, PopAndEncode
      PROVE  Inv'
  <2>1. /\ sent'.samples = Run(from', Out)
        /\ sent'.time = FrontTime /\ from' = Due /\ RunsOn'
    BY <1>3, PacketRuns
  <2>2. buffers # <<>>
    BY <1>3, PopEffect DEF EncoderTypes
  <2>3. \E late \in 0..MaxLate : FrontTime = After(Due, late)
    BY <1>3, <2>2, FrontIsDue
  <2> QED
    BY <2>1, <2>3 DEF EncodedInOrder, TimesBounded
<1>4. ASSUME Inv,
             \/ FinishCall \/ Check \/ FallAsleep
             \/ EncodeDone \/ Reset
             \/ WakeSpuriously \/ UNCHANGED encoderVars
      PROVE  Inv'
  <2>1. UNCHANGED <<captured, buffers, readFront, sent, from>>
    BY <1>4 DEF FinishCall, SetFlag, Notify,
       Check, FallAsleep, EncodeDone, Reset,
       WakeSpuriously, encoderVars
  <2>2. \A i : EndOf(i)' = EndOf(i)
    BY <2>1 DEF EndOf
  <2>3. Due' = Due
    BY <2>1 DEF Due
  <2>4. RunsOn'
    BY <1>4, <2>1, <2>2, <2>3 DEF RunsOn
  <2> QED
    BY <1>4, <2>1, <2>4 DEF EncodedInOrder, TimesBounded
<1>5. EncoderTypes /\ Inv /\ [EncoderNext]_encoderVars => Inv'
  <2> HIDE DEF Inv
  <2> QED
    BY <1>2, <1>3, <1>4
       DEF EncoderNext, Capture, EncoderWerk
<1> HIDE DEF Inv
<1>6. EncoderSpec => []Inv
  BY <1>1, <1>5, EncoderTypesHold, PTL DEF EncoderSpec
<1> QED
  BY <1>6, PTL DEF Inv

\* The types, whatever the lengths of the captured buffers: what is left of
\* the first one is never nothing and its unsigned length never wraps around
\* (full_Fill.cc:50-113).
THEOREM EncoderTypeCorrect == EncoderSpec => []EncoderTypeOK
<1>1. EncoderTypes => EncoderTypeOK
  BY DEF EncoderTypes
<1> QED
  BY <1>1, EncoderTypesHold, PTL

\* Whatever lengths the microphone mixes, as long as none exceeds a frame by
\* more than a sample, the packets hold all samples in the order they were
\* captured: none is lost, encoded twice or out of place (full_Fill.cc:50-113).
THEOREM SoundEncodedInOrder ==
  ASSUME \A n \in Captures : n <= Out + 1
  PROVE  EncoderSpec => []EncodedInOrder
  BY EncoderRunsOn, PTL

\* A packet's time is then the one its first sample was captured at, for
\* 16 bit samples, and at most an encoder frame later for Float32 ones
\* (audio_encoder.cc:29, 33; full_Fill.cc:35-48, 72-77).
THEOREM PacketTimesBounded ==
  ASSUME \A n \in Captures : n <= Out + 1
  PROVE  EncoderSpec => []TimesBounded
  BY EncoderRunsOn, PTL
=============================================================================
