-------------------------- MODULE ReceivePathProofs --------------------------
(***************************************************************************)
(* Proofs about ReceivePath, for every set of streams and clients and any  *)
(* number of messages: the safety invariants of the way from the network   *)
(* to the jitters.                                                         *)
(***************************************************************************)
EXTENDS ReceivePath, SequenceTheorems, TLAPS

\* The numbers of what is queued, in hand and pushed, place by place.
Ordered ==
  /\ \A i \in 1..Len(receiveQueue) :
       /\ receiveQueue[i].num <= arrived
       /\ \A j \in 1..Len(receiveQueue) :
            i < j => receiveQueue[i].num < receiveQueue[j].num
       /\ InHand => message.num < receiveQueue[i].num
  /\ InHand => message.num <= arrived
  /\ \A k \in 1..Len(pushed) :
       /\ pushed[k].num <= arrived
       /\ \A l \in 1..Len(pushed) : k < l => pushed[k].num < pushed[l].num
       /\ InHand => pushed[k].num < message.num
       /\ \A i \in 1..Len(receiveQueue) : pushed[k].num < receiveQueue[i].num

\* A message whose stream has no entry came before the entry was made.
Waits(m) == m.early \/ m.stream \in active

EarlyKnown ==
  /\ \A i \in 1..Len(receiveQueue) : Waits(receiveQueue[i])
  /\ InHand => Waits(message)

\* The parameters are set before the subscription, so whatever comes under it
\* finds them set.
SetBefore ==
  /\ step # "idle" => Source(adding) \in configured
  /\ \A s \in subscribed : Source(s) \in configured
  /\ \A i \in 1..Len(receiveQueue) : Source(receiveQueue[i].stream) \in configured
  /\ worker \in {"lookup", "hand", "report"} =>
       Source(message.stream) \in configured

\* What is about to be reported was not reported before.
ReportIsNew ==
  worker = "report" =>
    \A i \in 1..Len(announced) : Source(announced[i]) # Source(message.stream)

\* None of the properties is inductive: each needs what holds of a message
\* while it is queued and while it is in hand.
IInv ==
  /\ TypeOK
  /\ Ordered
  /\ EarlyKnown /\ LostOnlyAtEntry
  /\ SetBefore /\ ConfiguredFirst
  /\ ReportIsNew /\ AnnouncedOnce

----------------------------------------------------------------------------
LEMMA SourceType == \A s \in Streams : Source(s) \in Clients \X {"audio", "video"}
  BY ReceivePathAssumption DEF Source

LEMMA TypeInit == Init => TypeOK
<1>1. /\ \A S : <<>> \in Seq(S)
      /\ 0 \in 0..MaxArrivals
  BY EmptySeq, ReceivePathAssumption
<1> QED
  BY <1>1 DEF Init, TypeOK

\* The three threads' steps by name.
LEMMA Steps ==
  ASSUME [Next]_vars
  PROVE  \/ \E s \in Streams : AddConfigure(s)
         \/ AddRegister \/ AddEnter \/ AddDone
         \/ \E s \in Streams : Remove(s)
         \/ \E s \in Streams, data \in {"packet", "garbled", "empty"} :
              Arrive(s, data)
         \/ NotifyAll \/ Test \/ WakeSpuriously \/ Recv \/ LookUp
         \/ HandMedia \/ Report \/ UNCHANGED vars
<1>1. CASE UNCHANGED vars
  BY <1>1
<1>2. CASE Next
  BY <1>2, Zenon DEF Next, Application, DoWork
<1> QED
  BY <1>1, <1>2

\* What Recv takes from the queue and what it leaves.
LEMMA RecvEffect ==
  ASSUME TypeOK, Recv
  PROVE  /\ receiveQueue' \in Seq(Message)
         /\ \/ /\ receiveQueue = <<>> /\ receiveQueue' = <<>>
               /\ worker' = "test" /\ message' = NoMessage
            \/ /\ Len(receiveQueue) \in Nat \ {0}
               /\ Len(receiveQueue') = Len(receiveQueue) - 1
               /\ \A i \in 1..Len(receiveQueue') :
                    /\ i + 1 \in 1..Len(receiveQueue)
                    /\ receiveQueue'[i] = receiveQueue[i + 1]
               /\ receiveQueue[1] \in Message
               /\ \/ worker' = "test" /\ message' = NoMessage
                  \/ worker' = "lookup" /\ message' = receiveQueue[1]
<1>1. receiveQueue \in Seq(Message)
  BY DEF TypeOK
<1>2. CASE receiveQueue = <<>>
  BY <1>1, <1>2 DEF Recv, Front
<1>3. CASE receiveQueue # <<>>
  <2>1. /\ receiveQueue' = Tail(receiveQueue)
        /\ \/ worker' = "test" /\ message' = NoMessage
           \/ worker' = "lookup" /\ message' = Head(receiveQueue)
    BY <1>3 DEF Recv, Front
  <2>2. Head(receiveQueue) = receiveQueue[1]
    BY <1>1, <1>3
  <2>3. Len(receiveQueue) \in Nat \ {0}
    BY <1>1, <1>3, EmptySeq, LenProperties
  <2>4. /\ Head(receiveQueue) \in Message
        /\ Tail(receiveQueue) \in Seq(Message)
        /\ Len(Tail(receiveQueue)) = Len(receiveQueue) - 1
        /\ \A i \in 1..Len(Tail(receiveQueue)) :
             Tail(receiveQueue)[i] = receiveQueue[i + 1]
    BY <1>1, <1>3, HeadTailProperties
  <2> QED
    BY <2>1, <2>2, <2>3, <2>4
<1> QED
  BY <1>2, <1>3

\* What Arrive puts behind the queue.
LEMMA ArriveEffect ==
  ASSUME TypeOK, NEW s \in Streams, NEW data \in {"packet", "garbled", "empty"},
         Arrive(s, data)
  PROVE  \E m \in Message :
           /\ m.stream = s /\ m.num = arrived + 1
           /\ m.early = (s \notin active)
           /\ arrived' = arrived + 1 /\ arrived' \in 0..MaxArrivals
           /\ receiveQueue' \in Seq(Message)
           /\ Len(receiveQueue) \in Nat
           /\ Len(receiveQueue') = Len(receiveQueue) + 1
           /\ \A i \in 1..Len(receiveQueue) : receiveQueue'[i] = receiveQueue[i]
           /\ receiveQueue'[Len(receiveQueue) + 1] = m
<1> DEFINE m == [stream |-> s, num |-> arrived + 1, data |-> data,
                 early |-> s \notin active, raced |-> FALSE]
<1>1. arrived \in Nat /\ arrived' = arrived + 1 /\ arrived' \in 0..MaxArrivals
  BY ReceivePathAssumption DEF TypeOK, Arrive
<1>2. m \in Message
  BY <1>1 DEF Message
<1>3. receiveQueue' = Append(receiveQueue, m)
  BY <1>1 DEF Arrive
<1>4. m.stream = s /\ m.num = arrived + 1 /\ m.early = (s \notin active)
  OBVIOUS
<1> HIDE DEF m
<1>5. receiveQueue \in Seq(Message) /\ Len(receiveQueue) \in Nat
  BY LenProperties DEF TypeOK
<1> QED
  BY <1>1, <1>2, <1>3, <1>4, <1>5, AppendProperties

----------------------------------------------------------------------------
LEMMA TypeStep == ASSUME TypeOK, [Next]_vars PROVE TypeOK'
<1> USE DEF appVars, netVars, workVars
<1>1. ASSUME NEW s \in Streams, AddConfigure(s) PROVE TypeOK'
  BY <1>1, SourceType, ReceivePathAssumption DEF TypeOK, AddConfigure
<1>2. CASE AddRegister \/ AddEnter
  BY <1>2, ReceivePathAssumption DEF TypeOK, AddRegister, AddEnter
<1>3. CASE AddDone
  BY <1>3, ReceivePathAssumption DEF TypeOK, AddDone
<1>4. ASSUME NEW s \in Streams, Remove(s) PROVE TypeOK'
  BY <1>4 DEF TypeOK, Remove
<1>5. ASSUME NEW s \in Streams, NEW data \in {"packet", "garbled", "empty"},
             Arrive(s, data)
      PROVE  TypeOK'
  BY <1>5, ArriveEffect DEF TypeOK, Arrive
<1>6. CASE NotifyAll
  BY <1>6 DEF TypeOK, NotifyAll
<1>7. CASE Test
  BY <1>7 DEF TypeOK, Test
<1>8. CASE WakeSpuriously
  BY <1>8 DEF TypeOK, WakeSpuriously
<1>9. CASE Recv
  BY <1>9, RecvEffect DEF TypeOK, Recv
<1>10. CASE LookUp
  <2>1. message \in Message
    BY <1>10 DEF TypeOK, LookUp
  <2>2. [message EXCEPT !.raced = step = "entering"] \in Message
    BY <2>1 DEF Message
  <2>3. PICK found \in {"found", "missing", "crash"} :
          /\ worker' = CASE found = "found" -> "hand"
                         [] found = "missing" -> "test"
                         [] found = "crash" -> "crashed"
          /\ ignored' = IF found = "missing"
                        THEN ignored \cup
                               {[message EXCEPT !.raced = step = "entering"]}
                        ELSE ignored
          /\ message' = IF found = "found" THEN message ELSE NoMessage
    BY <1>10, Zenon DEF LookUp, LookUps
  <2> QED
    BY <1>10, <2>1, <2>2, <2>3 DEF TypeOK, LookUp
<1>11. CASE HandMedia
  <2>1. message \in Message /\ Source(message.stream) \in Clients \X {"audio", "video"}
    BY <1>11, SourceType DEF TypeOK, HandMedia, Message
  <2>2. Append(pushed, message) \in Seq(Message)
    BY <2>1, AppendProperties DEF TypeOK
  <2> QED
    BY <1>11, <2>1, <2>2 DEF TypeOK, HandMedia
<1>12. CASE Report
  <2>1. message.stream \in Streams
    BY <1>12 DEF TypeOK, Report, Message
  <2>2. Append(announced, message.stream) \in Seq(Streams)
    BY <2>1, AppendProperties DEF TypeOK
  <2> QED
    BY <1>12, <2>2 DEF TypeOK, Report
<1>13. CASE UNCHANGED vars
  BY <1>13 DEF TypeOK, vars
<1> QED
  BY <1>1, <1>2, <1>3, <1>4, <1>5, <1>6, <1>7, <1>8, <1>9, <1>10, <1>11,
     <1>12, <1>13, Steps, Zenon

----------------------------------------------------------------------------
\* What is queued goes to hand and then to the jitter from the front.
LEMMA OrderedStep ==
  ASSUME TypeOK, Ordered, [Next]_vars PROVE Ordered'
<1> USE DEF appVars, netVars, workVars
<1>0. /\ arrived \in Nat /\ Len(receiveQueue) \in Nat /\ Len(pushed) \in Nat
      /\ \A i \in 1..Len(receiveQueue) : receiveQueue[i].num \in Nat
      /\ \A k \in 1..Len(pushed) : pushed[k].num \in Nat
      /\ worker \in {"lookup", "hand", "report"} =>
           message \in Message /\ message.num \in Nat
  <2>1. /\ \A i \in 1..Len(receiveQueue) : receiveQueue[i] \in Message
        /\ \A k \in 1..Len(pushed) : pushed[k] \in Message
        /\ Len(receiveQueue) \in Nat /\ Len(pushed) \in Nat
    BY ElementOfSeq, LenProperties DEF TypeOK
  <2>2. \A m \in Message : m.num \in Nat
    BY DEF Message
  <2>3. arrived \in Nat
    BY ReceivePathAssumption DEF TypeOK
  <2>4. worker \in {"lookup", "hand", "report"} => message \in Message
    BY DEF TypeOK
  <2> QED
    BY <2>1, <2>2, <2>3, <2>4
<1>1. CASE UNCHANGED <<arrived, receiveQueue, pushed>> /\ ~InHand'
  BY <1>1 DEF Ordered
<1>2. CASE UNCHANGED <<arrived, receiveQueue, pushed, message>> /\ InHand' = InHand
  BY <1>2 DEF Ordered
<1>3. ASSUME NEW s \in Streams, NEW data \in {"packet", "garbled", "empty"},
             Arrive(s, data)
      PROVE  Ordered'
  <2>1. PICK m \in Message :
          /\ m.num = arrived + 1 /\ arrived' = arrived + 1
          /\ Len(receiveQueue') = Len(receiveQueue) + 1
          /\ \A i \in 1..Len(receiveQueue) : receiveQueue'[i] = receiveQueue[i]
          /\ receiveQueue'[Len(receiveQueue) + 1] = m
    BY <1>3, ArriveEffect, Zenon
  <2>2. UNCHANGED <<pushed, message>> /\ InHand' = InHand
    BY <1>3 DEF Arrive, InHand
  <2>3. \A i \in 1..Len(receiveQueue') :
          \/ i \in 1..Len(receiveQueue) /\ receiveQueue'[i] = receiveQueue[i]
          \/ i = Len(receiveQueue) + 1 /\ receiveQueue'[i].num = arrived + 1
    BY <2>1, <1>0
  <2>4. /\ \A i \in 1..Len(receiveQueue) : receiveQueue[i].num < arrived + 1
        /\ \A k \in 1..Len(pushed) : pushed[k].num < arrived + 1
        /\ InHand => message.num < arrived + 1
    BY <1>0 DEF Ordered, InHand
  <2>5. ASSUME NEW i \in 1..Len(receiveQueue')
        PROVE  /\ receiveQueue'[i].num <= arrived'
               /\ \A j \in 1..Len(receiveQueue') :
                    i < j => receiveQueue'[i].num < receiveQueue'[j].num
               /\ InHand => message.num < receiveQueue'[i].num
               /\ \A k \in 1..Len(pushed) : pushed[k].num < receiveQueue'[i].num
    <3>1. CASE i \in 1..Len(receiveQueue) /\ receiveQueue'[i] = receiveQueue[i]
      <4>1. receiveQueue[i].num <= arrived'
        BY <3>1, <2>1, <2>4, <1>0
      <4>2. ASSUME NEW j \in 1..Len(receiveQueue'), i < j
            PROVE  receiveQueue'[i].num < receiveQueue'[j].num
        <5>1. CASE j \in 1..Len(receiveQueue) /\ receiveQueue'[j] = receiveQueue[j]
          BY <3>1, <4>2, <5>1 DEF Ordered
        <5>2. CASE receiveQueue'[j].num = arrived + 1
          BY <3>1, <5>2, <2>4
        <5> QED
          BY <5>1, <5>2, <2>3
      <4>3. /\ InHand => message.num < receiveQueue[i].num
            /\ \A k \in 1..Len(pushed) : pushed[k].num < receiveQueue[i].num
        BY <3>1 DEF Ordered
      <4> QED
        BY <3>1, <4>1, <4>2, <4>3
    <3>2. CASE i = Len(receiveQueue) + 1 /\ receiveQueue'[i].num = arrived + 1
      <4>1. \A j \in 1..Len(receiveQueue') : ~ (i < j)
        BY <3>2, <2>1, <1>0
      <4>2. arrived + 1 <= arrived'
        BY <2>1, <1>0
      <4> HIDE DEF InHand
      <4> QED
        BY <3>2, <4>1, <4>2, <2>4
    <3> QED
      BY <3>1, <3>2, <2>3
  <2>6. InHand => message.num <= arrived + 1
    BY <1>0 DEF Ordered, InHand
  <2>7. \A k \in 1..Len(pushed) :
          /\ pushed[k].num <= arrived + 1
          /\ \A l \in 1..Len(pushed) : k < l => pushed[k].num < pushed[l].num
          /\ InHand => pushed[k].num < message.num
    BY <1>0 DEF Ordered
  <2>8. /\ pushed' = pushed /\ message' = message /\ arrived' = arrived + 1
        /\ InHand' = InHand
    BY <2>1, <2>2
  <2> HIDE DEF InHand
  <2> QED
    BY <2>5, <2>6, <2>7, <2>8 DEF Ordered
<1>4. CASE Recv
  <2>1. UNCHANGED <<arrived, pushed>> /\ ~InHand
    BY <1>4 DEF Recv, InHand
  <2>2. CASE receiveQueue = <<>> /\ receiveQueue' = <<>> /\ worker' = "test"
    BY <2>1, <2>2 DEF Ordered, InHand
  <2>3. CASE /\ Len(receiveQueue) \in Nat \ {0}
             /\ Len(receiveQueue') = Len(receiveQueue) - 1
             /\ \A i \in 1..Len(receiveQueue') :
                  /\ i + 1 \in 1..Len(receiveQueue)
                  /\ receiveQueue'[i] = receiveQueue[i + 1]
             /\ \/ worker' = "test"
                \/ worker' = "lookup" /\ message' = receiveQueue[1]
    <3>1. 1 \in 1..Len(receiveQueue) /\ Len(receiveQueue') \in Nat
      BY <2>3
    <3>2. \A i, j \in 1..Len(receiveQueue') :
            i < j => receiveQueue'[i].num < receiveQueue'[j].num
      <4> SUFFICES ASSUME NEW i \in 1..Len(receiveQueue'),
                          NEW j \in 1..Len(receiveQueue'), i < j
                   PROVE  receiveQueue'[i].num < receiveQueue'[j].num
        OBVIOUS
      <4>1. i + 1 \in 1..Len(receiveQueue) /\ j + 1 \in 1..Len(receiveQueue)
        BY <2>3
      <4>2. i + 1 < j + 1
        BY <3>1
      <4> QED
        BY <4>1, <4>2, <2>3 DEF Ordered
    <3>3. \A i \in 1..Len(receiveQueue') :
            receiveQueue[1].num < receiveQueue'[i].num
      <4> SUFFICES ASSUME NEW i \in 1..Len(receiveQueue')
                   PROVE  receiveQueue[1].num < receiveQueue'[i].num
        OBVIOUS
      <4>1. i + 1 \in 1..Len(receiveQueue) /\ 1 < i + 1
        BY <2>3, <3>1
      <4> QED
        BY <4>1, <3>1, <2>3 DEF Ordered
    <3>4. \A k \in 1..Len(pushed) : pushed[k].num < receiveQueue[1].num
      BY <3>1 DEF Ordered
    <3>5. \A i \in 1..Len(receiveQueue') :
            /\ receiveQueue'[i].num <= arrived
            /\ \A k \in 1..Len(pushed) : pushed[k].num < receiveQueue'[i].num
      BY <2>3 DEF Ordered
    <3>6. receiveQueue[1].num <= arrived
      BY <3>1 DEF Ordered
    <3> QED
      BY <2>1, <2>3, <3>2, <3>3, <3>4, <3>5, <3>6 DEF Ordered, InHand
  <2> QED
    BY <1>4, <2>2, <2>3, RecvEffect
<1>5. CASE LookUp
  <2>1. UNCHANGED <<arrived, receiveQueue, pushed>> /\ InHand
    BY <1>5 DEF LookUp, InHand
  <2>2. \/ worker' = "hand" /\ message' = message
        \/ worker' \in {"test", "crashed"}
    BY <1>5 DEF LookUp, LookUps
  <2> QED
    BY <2>1, <2>2, <1>1, <1>2 DEF InHand
<1>6. CASE HandMedia
  <2>1. UNCHANGED <<arrived, receiveQueue>> /\ InHand /\ ~InHand'
        /\ (pushed' = pushed \/ pushed' = Append(pushed, message))
    BY <1>6 DEF HandMedia, InHand
  <2>2. CASE pushed' = pushed
    BY <2>1, <2>2, <1>1
  <2>3. CASE pushed' = Append(pushed, message)
    <3>1. message \in Message /\ message.num \in Nat
      BY <2>1, <1>0 DEF InHand
    <3>2. /\ Len(pushed') = Len(pushed) + 1
          /\ \A k \in 1..Len(pushed) : pushed'[k] = pushed[k]
          /\ pushed'[Len(pushed) + 1] = message
      BY <2>3, <3>1, AppendProperties DEF TypeOK
    <3>3. \A k \in 1..Len(pushed') :
            \/ k \in 1..Len(pushed) /\ pushed'[k] = pushed[k]
            \/ k = Len(pushed) + 1 /\ pushed'[k] = message
      BY <3>2, <1>0
    <3>4. ASSUME NEW k \in 1..Len(pushed'), NEW l \in 1..Len(pushed'), k < l
          PROVE  pushed'[k].num < pushed'[l].num
      <4>1. k \in 1..Len(pushed) /\ pushed'[k] = pushed[k]
        BY <3>2, <3>4, <1>0
      <4>2. CASE l \in 1..Len(pushed) /\ pushed'[l] = pushed[l]
        BY <4>1, <4>2, <3>4 DEF Ordered
      <4>3. CASE pushed'[l] = message
        BY <4>1, <4>3, <2>1 DEF Ordered
      <4> QED
        BY <4>2, <4>3, <3>3
    <3>5. \A k \in 1..Len(pushed') :
            /\ pushed'[k].num <= arrived
            /\ \A i \in 1..Len(receiveQueue) :
                 pushed'[k].num < receiveQueue[i].num
      BY <3>3, <2>1 DEF Ordered
    <3> QED
      BY <2>1, <3>4, <3>5 DEF Ordered
  <2> QED
    BY <2>1, <2>2, <2>3
<1>7. CASE \/ \E s \in Streams : AddConfigure(s) \/ Remove(s)
           \/ AddRegister \/ AddEnter \/ AddDone \/ UNCHANGED vars
  BY <1>7, <1>2 DEF AddConfigure, Remove, AddRegister, AddEnter, AddDone, vars,
                    InHand
<1>8. CASE NotifyAll \/ Test \/ WakeSpuriously \/ Report
  BY <1>8, <1>1, <1>2 DEF NotifyAll, Test, WakeSpuriously, Report, InHand
<1> QED
  BY <1>3, <1>4, <1>5, <1>6, <1>7, <1>8, Steps, Zenon

\* Entries are never taken back, so what waits for one can only gain it.
LEMMA EarlyStep ==
  ASSUME TypeOK, EarlyKnown, LostOnlyAtEntry, [Next]_vars
  PROVE  EarlyKnown' /\ LostOnlyAtEntry'
<1> USE DEF appVars, netVars, workVars
<1>1. active \subseteq active'
  BY DEF Next, Application, DoWork, AddConfigure, Remove, AddRegister, AddEnter,
         AddDone, Arrive, NotifyAll, Test, WakeSpuriously, Recv, LookUp,
         HandMedia, Report, vars
<1>2. ASSUME UNCHANGED <<receiveQueue, message, ignored>>, InHand' => InHand
      PROVE  EarlyKnown' /\ LostOnlyAtEntry'
  BY <1>1, <1>2 DEF EarlyKnown, LostOnlyAtEntry, Waits
<1>3. ASSUME UNCHANGED <<receiveQueue, ignored>>, ~InHand'
      PROVE  EarlyKnown' /\ LostOnlyAtEntry'
  BY <1>1, <1>3 DEF EarlyKnown, LostOnlyAtEntry, Waits
<1>4. ASSUME NEW s \in Streams, NEW data \in {"packet", "garbled", "empty"},
             Arrive(s, data)
      PROVE  EarlyKnown' /\ LostOnlyAtEntry'
  <2>1. PICK m \in Message :
          /\ m.stream = s /\ m.early = (s \notin active)
          /\ Len(receiveQueue) \in Nat
          /\ Len(receiveQueue') = Len(receiveQueue) + 1
          /\ \A i \in 1..Len(receiveQueue) : receiveQueue'[i] = receiveQueue[i]
          /\ receiveQueue'[Len(receiveQueue) + 1] = m
    BY <1>4, ArriveEffect, Zenon
  <2>2. UNCHANGED <<message, ignored, active>> /\ InHand' = InHand
    BY <1>4 DEF Arrive, InHand
  <2>3. \A i \in 1..Len(receiveQueue') :
          \/ i \in 1..Len(receiveQueue) /\ receiveQueue'[i] = receiveQueue[i]
          \/ receiveQueue'[i] = m
    BY <2>1
  <2> QED
    BY <2>1, <2>2, <2>3 DEF EarlyKnown, LostOnlyAtEntry, Waits
<1>5. CASE Recv
  <2>1. UNCHANGED <<ignored, active>> /\ ~InHand
    BY <1>5 DEF Recv, InHand
  <2>2. CASE receiveQueue' = <<>> /\ worker' = "test"
    BY <2>1, <2>2 DEF EarlyKnown, LostOnlyAtEntry, InHand
  <2>3. CASE /\ 1 \in 1..Len(receiveQueue)
             /\ \A i \in 1..Len(receiveQueue') :
                  /\ i + 1 \in 1..Len(receiveQueue)
                  /\ receiveQueue'[i] = receiveQueue[i + 1]
             /\ \/ worker' = "test"
                \/ worker' = "lookup" /\ message' = receiveQueue[1]
    BY <2>1, <2>3 DEF EarlyKnown, LostOnlyAtEntry, Waits, InHand
  <2> QED
    BY <1>5, <2>2, <2>3, RecvEffect
<1>6. CASE LookUp
  <2>1. InHand /\ message \in Message /\ UNCHANGED <<receiveQueue, active>>
    BY <1>6 DEF LookUp, InHand, TypeOK
  <2>2. CASE UNCHANGED ignored
    <3>1. (message' = message \/ ~InHand') /\ UNCHANGED receiveQueue
      BY <1>6 DEF LookUp, LookUps, InHand
    <3> QED
      BY <2>1, <2>2, <3>1, <1>2, <1>3
  <2>3. CASE /\ "missing" \in LookUps(message.stream) /\ worker' = "test"
             /\ ignored' = ignored \cup
                  {[message EXCEPT !.raced = step = "entering"]}
    <3> DEFINE m == [message EXCEPT !.raced = step = "entering"]
    <3>1. /\ m.raced = (step = "entering")
          /\ m.early = message.early /\ m.stream = message.stream
      BY <2>1 DEF Message
    <3>2. message.stream \notin active \/ step = "entering"
      BY <2>3 DEF LookUps
    <3>3. m.early \/ m.raced
      BY <2>1, <3>1, <3>2 DEF EarlyKnown, Waits
    <3> HIDE DEF m
    <3>4. LostOnlyAtEntry'
      BY <2>3, <3>3 DEF LostOnlyAtEntry, m
    <3>5. EarlyKnown'
      BY <2>1, <2>3 DEF EarlyKnown, InHand, Waits
    <3> QED
      BY <3>4, <3>5
  <2>4. PICK found \in LookUps(message.stream) :
          /\ worker' = CASE found = "found" -> "hand"
                         [] found = "missing" -> "test"
                         [] found = "crash" -> "crashed"
          /\ ignored' = IF found = "missing"
                        THEN ignored \cup
                               {[message EXCEPT !.raced = step = "entering"]}
                        ELSE ignored
    BY <1>6, Zenon DEF LookUp
  <2> QED
    BY <2>2, <2>3, <2>4
<1>7. CASE HandMedia \/ Report
  BY <1>7, <1>2, <1>3 DEF HandMedia, Report, InHand
<1>8. CASE \/ \E s \in Streams : AddConfigure(s) \/ Remove(s)
           \/ AddRegister \/ AddEnter \/ AddDone \/ UNCHANGED vars
  BY <1>8, <1>2 DEF AddConfigure, Remove, AddRegister, AddEnter, AddDone, vars,
                    InHand
<1>9. CASE NotifyAll \/ Test \/ WakeSpuriously
  BY <1>9, <1>2 DEF NotifyAll, Test, WakeSpuriously, InHand
<1> QED
  BY <1>4, <1>5, <1>6, <1>7, <1>8, <1>9, Steps, Zenon

LEMMA SetBeforeStep ==
  ASSUME TypeOK, SetBefore, ConfiguredFirst, [Next]_vars
  PROVE  SetBefore' /\ ConfiguredFirst'
<1> USE DEF appVars, netVars, workVars
<1>1. ASSUME NEW s \in Streams, AddConfigure(s)
      PROVE  SetBefore' /\ ConfiguredFirst'
  BY <1>1 DEF AddConfigure, SetBefore, ConfiguredFirst
<1>2. CASE AddRegister \/ AddEnter \/ AddDone \/ \E s \in Streams : Remove(s)
  BY <1>2 DEF AddRegister, AddEnter, AddDone, Remove, SetBefore, ConfiguredFirst
<1>3. ASSUME NEW s \in Streams, NEW data \in {"packet", "garbled", "empty"},
             Arrive(s, data)
      PROVE  SetBefore' /\ ConfiguredFirst'
  <2>1. PICK m \in Message :
          /\ m.stream = s /\ Len(receiveQueue) \in Nat
          /\ Len(receiveQueue') = Len(receiveQueue) + 1
          /\ \A i \in 1..Len(receiveQueue) : receiveQueue'[i] = receiveQueue[i]
          /\ receiveQueue'[Len(receiveQueue) + 1] = m
    BY <1>3, ArriveEffect, Zenon
  <2>2. /\ s \in subscribed
        /\ UNCHANGED <<step, adding, subscribed, configured, worker, message,
                       heard>>
    BY <1>3 DEF Arrive
  <2>3. \A i \in 1..Len(receiveQueue') :
          \/ i \in 1..Len(receiveQueue) /\ receiveQueue'[i] = receiveQueue[i]
          \/ receiveQueue'[i] = m
    BY <2>1
  <2>4. \A i \in 1..Len(receiveQueue') :
          Source(receiveQueue'[i].stream) \in configured
    BY <2>1, <2>2, <2>3 DEF SetBefore
  <2> QED
    BY <2>2, <2>4 DEF SetBefore, ConfiguredFirst
<1>4. CASE Recv
  <2>1. UNCHANGED <<step, adding, subscribed, configured, heard>>
    BY <1>4 DEF Recv
  <2>2. CASE receiveQueue' = <<>> /\ worker' = "test"
    BY <2>1, <2>2 DEF SetBefore, ConfiguredFirst
  <2>3. CASE /\ 1 \in 1..Len(receiveQueue)
             /\ \A i \in 1..Len(receiveQueue') :
                  /\ i + 1 \in 1..Len(receiveQueue)
                  /\ receiveQueue'[i] = receiveQueue[i + 1]
             /\ \/ worker' = "test"
                \/ worker' = "lookup" /\ message' = receiveQueue[1]
    BY <2>1, <2>3 DEF SetBefore, ConfiguredFirst
  <2> QED
    BY <1>4, <2>2, <2>3, RecvEffect
<1>5. CASE LookUp
  <2>1. \/ worker' = "hand" /\ message' = message
        \/ worker' \in {"test", "crashed"}
    BY <1>5 DEF LookUp, LookUps
  <2> QED
    BY <1>5, <2>1 DEF LookUp, SetBefore, ConfiguredFirst
<1>6. CASE HandMedia \/ Report
  BY <1>6 DEF HandMedia, Report, SetBefore, ConfiguredFirst
<1>7. CASE NotifyAll \/ Test \/ WakeSpuriously \/ UNCHANGED vars
  BY <1>7 DEF NotifyAll, Test, WakeSpuriously, vars, SetBefore, ConfiguredFirst
<1> QED
  BY <1>1, <1>2, <1>3, <1>4, <1>5, <1>6, <1>7, Steps, Zenon

LEMMA AnnouncedStep ==
  ASSUME TypeOK, ReportIsNew, AnnouncedOnce, [Next]_vars
  PROVE  ReportIsNew' /\ AnnouncedOnce'
<1> USE DEF appVars, netVars, workVars
<1>1. CASE /\ UNCHANGED <<heard, announced>>
         /\ worker \notin {"report", "stuck"} /\ worker' \notin {"report", "stuck"}
  BY <1>1 DEF ReportIsNew, AnnouncedOnce
<1>2. CASE UNCHANGED <<heard, announced, worker, message>>
  BY <1>2 DEF ReportIsNew, AnnouncedOnce
<1>3. CASE HandMedia
  BY <1>3 DEF HandMedia, IsNew, ReportIsNew, AnnouncedOnce
<1>4. CASE Report
  <2>1. message.stream \in Streams /\ announced \in Seq(Streams)
    BY <1>4 DEF TypeOK, Report, Message
  <2>2. /\ Len(announced) \in Nat /\ Len(announced') = Len(announced) + 1
        /\ \A i \in 1..Len(announced) : announced'[i] = announced[i]
        /\ announced'[Len(announced) + 1] = message.stream
    BY <1>4, <2>1, AppendProperties, LenProperties DEF Report
  <2>3. \A i \in 1..Len(announced') :
          \/ i \in 1..Len(announced) /\ announced'[i] = announced[i]
          \/ i = Len(announced) + 1 /\ announced'[i] = message.stream
    BY <2>2
  <2>4. /\ 1..Len(announced) \subseteq 1..Len(announced')
        /\ Len(announced) + 1 \in 1..Len(announced')
    BY <2>2
  <2>5. worker = "report" /\ worker' = "test" /\ heard' = heard
    BY <1>4 DEF Report
  <2>6. ASSUME NEW i \in 1..Len(announced'), NEW j \in 1..Len(announced'), i # j
        PROVE  Source(announced'[i]) # Source(announced'[j])
    BY <2>3, <2>5, <2>6 DEF ReportIsNew, AnnouncedOnce
  <2>7. {Source(announced'[i]) : i \in 1..Len(announced')} =
          {Source(announced[i]) : i \in 1..Len(announced)}
            \cup {Source(message.stream)}
    BY <2>2, <2>3, <2>4
  <2> QED
    BY <2>5, <2>6, <2>7 DEF ReportIsNew, AnnouncedOnce
<1>5. CASE NotifyAll \/ Test \/ WakeSpuriously \/ Recv \/ LookUp
  BY <1>5, <1>1, <1>2 DEF NotifyAll, Test, WakeSpuriously, Recv, LookUp, LookUps
<1>6. CASE \/ \E s \in Streams : AddConfigure(s) \/ Remove(s)
           \/ AddRegister \/ AddEnter \/ AddDone \/ UNCHANGED vars
           \/ \E s \in Streams, data \in {"packet", "garbled", "empty"} :
                Arrive(s, data)
  BY <1>6, <1>2 DEF AddConfigure, Remove, AddRegister, AddEnter, AddDone, vars,
                    Arrive
<1> QED
  BY <1>3, <1>4, <1>5, <1>6, Steps, Zenon

----------------------------------------------------------------------------
LEMMA InitIInv == Init => IInv
<1> SUFFICES ASSUME Init PROVE IInv
  OBVIOUS
<1>1. TypeOK
  BY TypeInit
<1>2. Ordered /\ EarlyKnown /\ LostOnlyAtEntry
  BY DEF Init, Ordered, EarlyKnown, LostOnlyAtEntry, InHand
<1>3. SetBefore /\ ConfiguredFirst /\ ReportIsNew /\ AnnouncedOnce
  BY DEF Init, SetBefore, ConfiguredFirst, ReportIsNew, AnnouncedOnce
<1> QED
  BY <1>1, <1>2, <1>3 DEF IInv

LEMMA Invariance == Spec => []IInv
<1>1. IInv /\ [Next]_vars => IInv'
  BY TypeStep, OrderedStep, EarlyStep, SetBeforeStep, AnnouncedStep, Zenon
     DEF IInv
<1> QED
  BY <1>1, InitIInv, PTL DEF Spec

\* The types, for every set of streams (ReceivePath, TypeOK).
THEOREM TypeCorrect == Spec => []TypeOK
<1>1. IInv => TypeOK
  BY DEF IInv
<1> QED
  BY <1>1, Invariance, PTL

\* The numbers of a sequence of messages rise.
Rising(s) == \A i, j \in 1..Len(s) : i < j => s[i].num < s[j].num

LEMMA ConcatRising ==
  ASSUME NEW s \in Seq(Message), NEW t \in Seq(Message), Rising(s), Rising(t),
         \A i \in 1..Len(s) : \A j \in 1..Len(t) : s[i].num < t[j].num
  PROVE  s \o t \in Seq(Message) /\ Rising(s \o t)
<1> DEFINE r == s \o t
<1>1. /\ r \in Seq(Message) /\ Len(r) = Len(s) + Len(t)
      /\ \A i \in 1..(Len(s) + Len(t)) :
           r[i] = IF i <= Len(s) THEN s[i] ELSE t[i - Len(s)]
  BY ConcatProperties
<1>2. Len(s) \in Nat /\ Len(t) \in Nat
  BY LenProperties
<1> HIDE DEF r
<1>3. ASSUME NEW i \in 1..Len(r), NEW j \in 1..Len(r), i < j
      PROVE  r[i].num < r[j].num
  <2>1. i \in Nat /\ j \in Nat /\ i \in 1..(Len(s) + Len(t))
        /\ j \in 1..(Len(s) + Len(t))
    BY <1>1, <1>2
  <2>2. CASE j <= Len(s)
    <3>1. i \in 1..Len(s) /\ j \in 1..Len(s)
      BY <2>1, <2>2, <1>2, <1>3
    <3>2. r[i] = s[i] /\ r[j] = s[j]
      BY <3>1, <2>1, <1>1, <1>2
    <3> QED
      BY <3>1, <3>2, <1>3 DEF Rising
  <2>3. CASE i <= Len(s) /\ ~ (j <= Len(s))
    <3>1. i \in 1..Len(s) /\ j - Len(s) \in 1..Len(t)
      BY <2>1, <2>3, <1>2
    <3>2. r[i] = s[i] /\ r[j] = t[j - Len(s)]
      BY <2>1, <2>3, <1>1
    <3> QED
      BY <3>1, <3>2
  <2>4. CASE ~ (i <= Len(s))
    <3>1. /\ i - Len(s) \in 1..Len(t) /\ j - Len(s) \in 1..Len(t)
          /\ i - Len(s) < j - Len(s) /\ ~ (j <= Len(s))
      BY <2>1, <2>4, <1>2, <1>3
    <3>2. r[i] = t[i - Len(s)] /\ r[j] = t[j - Len(s)]
      BY <2>1, <2>4, <3>1, <1>1
    <3> QED
      BY <3>1, <3>2 DEF Rising
  <2> QED
    BY <2>2, <2>3, <2>4
<1> QED
  BY <1>1, <1>3 DEF Rising, r

\* Nothing overtakes between the network and the jitters
\* (media_transport.cc:126-164, media_client.cc:129-170).
THEOREM NothingOvertakes == Spec => []InOrder
<1>1. IInv => InOrder
  <2> SUFFICES ASSUME TypeOK, Ordered PROVE InOrder
    BY DEF IInv
  <2>1. pushed \in Seq(Message) /\ Rising(pushed)
    BY DEF TypeOK, Ordered, Rising
  <2>2. receiveQueue \in Seq(Message) /\ Rising(receiveQueue)
    BY DEF TypeOK, Ordered, Rising
  <2>3. CASE InHand
    <3> DEFINE hand == <<message>>
               rest == hand \o receiveQueue
    <3>1. message \in Message
      BY <2>3 DEF TypeOK, InHand
    <3>2. hand \in Seq(Message) /\ Len(hand) = 1 /\ hand[1] = message
      BY <3>1
    <3> HIDE DEF hand
    <3>3. \A i \in 1..Len(hand) : i = 1
      BY <3>2
    <3>4. Rising(hand)
      BY <3>3 DEF Rising
    <3>5. \A i \in 1..Len(hand) : \A j \in 1..Len(receiveQueue) :
            hand[i].num < receiveQueue[j].num
      BY <3>2, <3>3, <2>3 DEF Ordered
    <3>6. rest \in Seq(Message) /\ Rising(rest)
      BY <3>2, <3>4, <3>5, <2>2, ConcatRising
    <3>7. /\ Len(rest) = 1 + Len(receiveQueue)
          /\ \A i \in 1..(1 + Len(receiveQueue)) :
               rest[i] = IF i <= 1 THEN hand[i] ELSE receiveQueue[i - 1]
      <4>1. /\ Len(rest) = Len(hand) + Len(receiveQueue)
            /\ \A i \in 1..(Len(hand) + Len(receiveQueue)) :
                 rest[i] = IF i <= Len(hand) THEN hand[i]
                           ELSE receiveQueue[i - Len(hand)]
        BY <3>2, <2>2, ConcatProperties
      <4> HIDE DEF rest
      <4> QED
        BY <4>1, <3>2
    <3> HIDE DEF rest
    <3>8. ASSUME NEW k \in 1..Len(pushed), NEW j \in 1..Len(rest)
          PROVE  pushed[k].num < rest[j].num
      <4>1. Len(receiveQueue) \in Nat
        BY <2>2, LenProperties
      <4>2. /\ j \in 1..(1 + Len(receiveQueue))
            /\ j = 1 \/ (j - 1 \in 1..Len(receiveQueue) /\ ~ (j <= 1))
        BY <4>1, <3>7
      <4>3. \/ j = 1 /\ rest[j] = message
            \/ j - 1 \in 1..Len(receiveQueue) /\ rest[j] = receiveQueue[j - 1]
        BY <4>2, <3>2, <3>7
      <4> QED
        BY <4>3, <2>3 DEF Ordered
    <3>9. Rising(pushed \o rest)
      BY <2>1, <3>6, <3>8, ConcatRising
    <3>10. InFlight = rest
      BY <2>3 DEF InFlight, rest, hand
    <3> QED
      BY <3>9, <3>10 DEF InOrder, Rising
  <2>4. CASE ~InHand
    <3>1. InFlight = receiveQueue
      BY <2>2, <2>4, ConcatEmptySeq DEF InFlight
    <3>2. \A k \in 1..Len(pushed) : \A i \in 1..Len(receiveQueue) :
            pushed[k].num < receiveQueue[i].num
      BY DEF Ordered
    <3>3. Rising(pushed \o receiveQueue)
      BY <2>1, <2>2, <3>2, ConcatRising
    <3> QED
      BY <3>1, <3>3 DEF InOrder, Rising
  <2> QED
    BY <2>3, <2>4
<1> QED
  BY <1>1, Invariance, PTL

\* Only what comes between the subscription and the entry, or meets a search
\* that another entry disturbs, is dropped for want of a stream
\* (media_client.cc:41-44, 149-154).
THEOREM NothingElseLost == Spec => []LostOnlyAtEntry
<1>1. IInv => LostOnlyAtEntry
  BY DEF IInv
<1> QED
  BY <1>1, Invariance, PTL

\* A jitter's parameters are set before its first packet
\* (media_client.cc:35-44).
THEOREM ParametersFirst == Spec => []ConfiguredFirst
<1>1. IInv => ConfiguredFirst
  BY DEF IInv
<1> QED
  BY <1>1, Invariance, PTL

\* Each client's audio and video is reported once (media_stream.cc:55-61).
THEOREM ReportedOnce == Spec => []AnnouncedOnce
<1>1. IInv => AnnouncedOnce
  BY DEF IInv
<1> QED
  BY <1>1, Invariance, PTL
=============================================================================
