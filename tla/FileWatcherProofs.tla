------------------------- MODULE FileWatcherProofs -------------------------
(* Safety of FileWatcher on both systems, for every number of descriptors,  *)
(* events and starts and every bound of the system's queue.                 *)
EXTENDS FileWatcher, SequenceTheorems, TLAPS

(* --------------------------- events in sequences ------------------------ *)

(* No events in an empty sequence.                                           *)
LEMMA EventsOfEmpty == Events(<<>>) = {} /\ Increasing(<<>>)
  BY DEF Events, Increasing

(* A later event behind increasing ones leaves them increasing.              *)
LEMMA AppendEvent ==
    ASSUME NEW s \in Seq(Nat), NEW x \in Nat
    PROVE  /\ Events(Append(s, x)) = Events(s) \cup ({x} \ {Overflow})
           /\ Increasing(s) /\ (x = Overflow \/ \A e \in Events(s) : e < x) =>
                 Increasing(Append(s, x))
  <1> DEFINE t == Append(s, x)
  <1>1. /\ DOMAIN t = 1 .. Len(s) + 1 /\ DOMAIN s = 1 .. Len(s) /\ Len(s) \in Nat
        /\ \A i \in 1 .. Len(s) : t[i] = s[i]
        /\ t[Len(s) + 1] = x
    OBVIOUS
  <1> HIDE DEF t
  <1>2. Events(t) = Events(s) \cup ({x} \ {Overflow})
    BY <1>1 DEF Events
  <1>3. ASSUME Increasing(s), x = Overflow \/ \A e \in Events(s) : e < x
        PROVE  Increasing(t)
    <2> SUFFICES ASSUME NEW i \in DOMAIN t, NEW j \in DOMAIN t, i < j,
                        t[i] # Overflow, t[j] # Overflow
                 PROVE  t[i] < t[j]
      BY DEF Increasing
    <2>1. i \in DOMAIN s
      BY <1>1
    <2>2. CASE j \in DOMAIN s
      BY <1>1, <1>3, <2>1, <2>2 DEF Increasing
    <2>3. CASE j = Len(s) + 1
      <3>1. t[j] = x /\ t[i] \in Events(s)
        BY <1>1, <2>1, <2>3 DEF Events
      <3> QED
        BY <1>3, <3>1
    <2> QED
      BY <1>1, <2>2, <2>3
  <1> QED
    BY <1>2, <1>3 DEF t

(* Increasing events are cut into earlier and later ones,                    *)
LEMMA SplitEvents ==
    ASSUME NEW s \in Seq(Nat), NEW n \in 0 .. Len(s), Increasing(s)
    PROVE  LET a == SubSeq(s, 1, n)
               b == SubSeq(s, n + 1, Len(s))
           IN  /\ Events(s) = Events(a) \cup Events(b)
               /\ Increasing(a) /\ Increasing(b) /\ Before(a, b)
  <1> DEFINE a == SubSeq(s, 1, n)
             b == SubSeq(s, n + 1, Len(s))
  <1>1. /\ DOMAIN s = 1 .. Len(s) /\ Len(s) \in Nat /\ n \in Nat /\ n <= Len(s)
        /\ DOMAIN a = 1 .. n /\ \A i \in 1 .. n : a[i] = s[i]
        /\ DOMAIN b = 1 .. Len(s) - n /\ \A i \in 1 .. Len(s) - n : b[i] = s[n + i]
    OBVIOUS
  <1> HIDE DEF a, b
  <1>2. Events(s) = Events(a) \cup Events(b)
    <2>1. ASSUME NEW i \in DOMAIN s PROVE \/ i \in DOMAIN a /\ s[i] = a[i]
                                          \/ i - n \in DOMAIN b /\ s[i] = b[i - n]
      <3>1. i \in Nat /\ 1 <= i /\ i <= Len(s)
        BY <1>1
      <3>2. CASE i <= n
        BY <1>1, <3>1, <3>2
      <3>3. CASE i > n
        <4>1. i - n \in 1 .. Len(s) - n /\ n + (i - n) = i
          BY <1>1, <3>1, <3>3
        <4> QED
          BY <1>1, <4>1
      <3> QED
        BY <1>1, <3>1, <3>2, <3>3
    <2>2. ASSUME NEW i \in DOMAIN a PROVE i \in DOMAIN s /\ s[i] = a[i]
      BY <1>1
    <2>3. ASSUME NEW i \in DOMAIN b PROVE n + i \in DOMAIN s /\ s[n + i] = b[i]
      BY <1>1
    <2> QED
      BY <2>1, <2>2, <2>3 DEF Events
  <1>3. Increasing(a)
    BY <1>1 DEF Increasing
  <1>4. Increasing(b)
    <2> SUFFICES ASSUME NEW i \in DOMAIN b, NEW j \in DOMAIN b, i < j,
                        b[i] # Overflow, b[j] # Overflow
                 PROVE  b[i] < b[j]
      BY DEF Increasing
    <2>1. n + i \in DOMAIN s /\ b[i] = s[n + i]
      BY SMTT(30), <1>1
    <2>2. n + j \in DOMAIN s /\ b[j] = s[n + j]
      BY SMTT(30), <1>1
    <2>3. n + i < n + j
      BY <1>1
    <2> QED
      BY <2>1, <2>2, <2>3 DEF Increasing
  <1>5. Before(a, b)
    <2> SUFFICES ASSUME NEW i \in DOMAIN a, NEW j \in DOMAIN b, a[i] # Overflow, b[j] # Overflow
                 PROVE  a[i] < b[j]
      BY DEF Before, Events
    <2>1. i \in Nat /\ j \in Nat /\ 1 <= i /\ i <= n /\ 1 <= j /\ j <= Len(s) - n
      BY <1>1
    <2>2. i \in DOMAIN s /\ a[i] = s[i]
      BY <1>1, <2>1
    <2>3. n + j \in DOMAIN s /\ b[j] = s[n + j]
      BY SMTT(30), <1>1, <2>1
    <2>4. i < n + j
      BY <1>1, <2>1
    <2> QED
      BY <2>2, <2>3, <2>4 DEF Increasing
  <1> QED
    BY <1>2, <1>3, <1>4, <1>5 DEF a, b

(* of which the first may be taken off,                                      *)
LEMMA HeadEvent ==
    ASSUME NEW s \in Seq(Nat), s # <<>>, Increasing(s)
    PROVE  /\ Head(s) \in Nat /\ Tail(s) \in Seq(Nat) /\ Increasing(Tail(s))
           /\ Events(s) = Events(Tail(s)) \cup ({Head(s)} \ {Overflow})
           /\ Head(s) # Overflow => \A e \in Events(Tail(s)) : Head(s) < e
  <1> DEFINE t == Tail(s)
             h == Head(s)
  <1>1. /\ DOMAIN s = 1 .. Len(s) /\ Len(s) \in Nat \ {0} /\ h = s[1] /\ h \in Nat
        /\ DOMAIN t = 1 .. Len(s) - 1 /\ \A i \in 1 .. Len(s) - 1 : t[i] = s[i + 1]
        /\ t \in Seq(Nat)
    OBVIOUS
  <1> HIDE DEF t, h
  <1>2. Events(s) = Events(t) \cup ({h} \ {Overflow})
    <2>1. ASSUME NEW i \in DOMAIN s PROVE \/ s[i] = h
                                          \/ i - 1 \in DOMAIN t /\ s[i] = t[i - 1]
      BY <1>1
    <2>2. ASSUME NEW i \in DOMAIN t PROVE i + 1 \in DOMAIN s /\ s[i + 1] = t[i]
      BY SMTT(30), <1>1
    <2>3. 1 \in DOMAIN s /\ s[1] = h
      BY <1>1
    <2> QED
      BY <2>1, <2>2, <2>3 DEF Events
  <1>3. ASSUME NEW i \in DOMAIN t
        PROVE  i + 1 \in DOMAIN s /\ t[i] = s[i + 1] /\ 1 < i + 1
    <2>1. i \in 1 .. Len(s) - 1
      BY <1>1
    <2>2. i + 1 \in 1 .. Len(s) /\ 1 < i + 1
      BY SMTT(30), <1>1, <2>1
    <2> QED
      BY <1>1, <2>1, <2>2
  <1>4. Increasing(t)
    <2> SUFFICES ASSUME NEW i \in DOMAIN t, NEW j \in DOMAIN t, i < j,
                        t[i] # Overflow, t[j] # Overflow
                 PROVE  t[i] < t[j]
      BY DEF Increasing
    <2>1. i + 1 \in DOMAIN s /\ t[i] = s[i + 1] /\ j + 1 \in DOMAIN s /\ t[j] = s[j + 1]
      BY <1>3
    <2>2. i + 1 < j + 1
      BY <1>1
    <2> QED
      BY <2>1, <2>2 DEF Increasing
  <1>5. h # Overflow => \A e \in Events(t) : h < e
    <2> SUFFICES ASSUME h # Overflow, NEW i \in DOMAIN t, t[i] # Overflow
                 PROVE  h < t[i]
      BY DEF Events
    <2>1. 1 \in DOMAIN s /\ i + 1 \in DOMAIN s /\ 1 < i + 1
      BY <1>1, <1>3
    <2> QED
      BY <1>1, <1>3, <2>1 DEF Increasing
  <1> QED
    BY <1>1, <1>2, <1>4, <1>5 DEF t, h

(* and they may be joined again.                                             *)
LEMMA JoinEvents ==
    ASSUME NEW s \in Seq(Nat), NEW t \in Seq(Nat), Increasing(s), Increasing(t), Before(s, t)
    PROVE  /\ s \o t \in Seq(Nat) /\ Increasing(s \o t)
           /\ Events(s \o t) = Events(s) \cup Events(t)
  <1> DEFINE u == s \o t
  <1>1. /\ DOMAIN s = 1 .. Len(s) /\ Len(s) \in Nat /\ DOMAIN t = 1 .. Len(t) /\ Len(t) \in Nat
        /\ DOMAIN u = 1 .. Len(s) + Len(t) /\ u \in Seq(Nat)
        /\ \A i \in 1 .. Len(s) : u[i] = s[i]
        /\ \A i \in 1 .. Len(t) : u[Len(s) + i] = t[i]
    OBVIOUS
  <1> HIDE DEF u
  <1>2. ASSUME NEW i \in DOMAIN u
        PROVE  \/ i \in DOMAIN s /\ u[i] = s[i]
               \/ i > Len(s) /\ i - Len(s) \in DOMAIN t /\ u[i] = t[i - Len(s)]
    BY <1>1
  <1>3. Events(u) = Events(s) \cup Events(t)
    <2>1. \A i \in DOMAIN s : i \in DOMAIN u /\ u[i] = s[i]
      BY <1>1
    <2>2. \A i \in DOMAIN t : Len(s) + i \in DOMAIN u /\ u[Len(s) + i] = t[i]
      BY <1>1
    <2> QED
      BY <1>2, <2>1, <2>2 DEF Events
  <1>4. Increasing(u)
    <2> SUFFICES ASSUME NEW i \in DOMAIN u, NEW j \in DOMAIN u, i < j,
                        u[i] # Overflow, u[j] # Overflow
                 PROVE  u[i] < u[j]
      BY DEF Increasing
    <2>1. CASE i \in DOMAIN s /\ j \in DOMAIN s
      BY <1>1, <2>1 DEF Increasing
    <2>2. CASE i \in DOMAIN s /\ j \notin DOMAIN s
      <3>1. u[i] \in Events(s) /\ u[j] \in Events(t)
        BY <1>1, <1>2, <2>2 DEF Events
      <3> QED
        BY <3>1 DEF Before
    <2>3. CASE i \notin DOMAIN s
      <3>1. i \in Nat /\ j \in Nat /\ i > Len(s) /\ j > Len(s)
        BY <1>1, <2>3
      <3>2. i - Len(s) \in DOMAIN t /\ u[i] = t[i - Len(s)]
        BY <1>1, <1>2, <3>1
      <3>3. j - Len(s) \in DOMAIN t /\ u[j] = t[j - Len(s)]
        BY <1>1, <1>2, <3>1
      <3>4. i - Len(s) < j - Len(s)
        BY <1>1, <3>1
      <3> QED
        BY <3>2, <3>3, <3>4 DEF Increasing
    <2> QED
      BY <2>1, <2>2, <2>3
  <1> QED
    BY <1>1, <1>3, <1>4 DEF u

(* ------------------------------ initial states -------------------------- *)

(* The invariant holds at first.                                             *)
LEMMA InitIInv == Init => IInv
  <1> SUFFICES ASSUME Init PROVE IInv
    OBVIOUS
  <1> USE WatchAssumption, LinuxAssumption, SystemsAssumption
      DEF Init, CallsInit, LinuxInit, WindowsInit
  <1>1. TypeOK
    <2>1. CallsTypeOK
      <3>1. batch \in Seq(0 .. MaxEvents + 1) /\ queue \in Seq(0 .. MaxEvents)
            /\ delivered \in Seq(1 .. MaxEvents + 1)
        BY EmptySeq
      <3>2. happened \in 0 .. MaxEvents /\ starts \in 0 .. MaxStarts /\ missed \subseteq 1 .. MaxEvents
        OBVIOUS
      <3> QED
        BY <3>1, <3>2 DEF CallsTypeOK
    <2>2. LinuxTypeOK
      BY DEF LinuxTypeOK
    <2>3. WindowsTypeOK
      BY DEF WindowsTypeOK
    <2> QED
      BY <2>1, <2>2, <2>3 DEF TypeOK
  <1>2. CallsInv
    BY DEF CallsInv, Starting, Stopping, Unused
  <1>3. EventsInv
    BY EventsOfEmpty DEF EventsInv, Before, Kept
  <1>4. LinuxInv
    BY DEF LinuxInv, Holding
  <1>5. WindowsInv
    BY DEF WindowsInv, Unused, NoHandles, AllHandles, InFlight
  <1> QED
    BY <1>1, <1>2, <1>3, <1>4, <1>5 DEF IInv

(* The sequences hold numbers of events, or the mark of an overflow.         *)
LEMMA SeqTypes ==
    ASSUME TypeOK
    PROVE  batch \in Seq(Nat) /\ queue \in Seq(Nat) /\ delivered \in Seq(Nat)
  <1>1. 0 .. MaxEvents + 1 \subseteq Nat /\ 0 .. MaxEvents \subseteq Nat /\ 1 .. MaxEvents + 1 \subseteq Nat
    BY WatchAssumption
  <1> QED
    BY <1>1, SeqMonotonic DEF TypeOK, CallsTypeOK

(* -------------------------- what all steps share ------------------------ *)

(* A step that hands nothing over, but may throw away what nobody will get. *)
LEMMA KeepEvents ==
    ASSUME EventsInv,
           UNCHANGED <<happened, missed, delivered>>,
           batch' \in {batch, <<>>}, queue' \in {queue, <<>>},
           recording' => recording,
           wpc' = "callback" => wpc = "callback" /\ batch' = batch,
           running' /\ ~failed' => running /\ ~failed /\ batch' = batch /\ queue' = queue
    PROVE  EventsInv'
  <1>1. Events(batch)' \subseteq Events(batch) /\ Events(queue)' \subseteq Events(queue)
    BY EventsOfEmpty
  <1>2. Increasing(batch)' /\ Increasing(queue)'
    BY EventsOfEmpty DEF EventsInv
  <1>3. Kept' = Kept /\ Events(delivered)' = Events(delivered) /\ Increasing(delivered)'
    BY DEF Kept, EventsInv
  <1>4. Before(delivered, batch)' /\ Before(batch, queue)' /\ Before(delivered, queue)'
    BY <1>1, <1>3 DEF EventsInv, Before
  <1> QED
    BY <1>1, <1>2, <1>3, <1>4 DEF EventsInv

(* ---------------------------- steps on Linux ---------------------------- *)

LinuxStep == LinuxCalls \/ LinuxOwner \/ LinuxWorker \/ LinuxOthers

SeqsOK ==
    /\ batch \in Seq(0 .. MaxEvents + 1) /\ queue \in Seq(0 .. MaxEvents)
    /\ delivered \in Seq(1 .. MaxEvents + 1)

(* The empty sequence is of all types of events.                             *)
LEMMA EmptySeqs ==
    /\ <<>> \in Seq(0 .. MaxEvents + 1) /\ <<>> \in Seq(0 .. MaxEvents)
    /\ <<>> \in Seq(1 .. MaxEvents + 1)
  BY EmptySeq

(* What the callback is about to be given is an event.                      *)
LEMMA CallbackHead ==
    ASSUME IInv, wpc = "callback"
    PROVE  /\ batch # <<>> /\ Head(batch) \in 1 .. happened /\ Head(batch) \in 1 .. MaxEvents + 1
           /\ Tail(batch) \in Seq(0 .. MaxEvents + 1)
  <1>1. batch # <<>> /\ Head(batch) \in Kept /\ happened \in 0 .. MaxEvents
    BY DEF IInv, EventsInv, TypeOK, CallsTypeOK
  <1>2. batch \in Seq(0 .. MaxEvents + 1)
    BY DEF IInv, TypeOK, CallsTypeOK
  <1>3. Tail(batch) \in Seq(0 .. MaxEvents + 1)
    BY <1>1, <1>2, HeadTailProperties
  <1> QED
    BY <1>1, <1>3, WatchAssumption DEF Kept

(* The callback gets what was in the buffer.                                 *)
LEMMA CallbackTypes ==
    ASSUME IInv, Callback
    PROVE  SeqsOK'
  <1>1. wpc = "callback" /\ delivered' = Append(delivered, Head(batch)) /\ batch' = Tail(batch)
        /\ queue' = queue
    BY DEF Callback, system
  <1>2. SeqsOK
    BY DEF IInv, TypeOK, CallsTypeOK, SeqsOK
  <1>3. Append(delivered, Head(batch)) \in Seq(1 .. MaxEvents + 1)
    BY <1>1, <1>2, CallbackHead DEF SeqsOK
  <1> QED
    BY <1>1, <1>2, <1>3, CallbackHead DEF SeqsOK

(* A recorded change is put at the end of the queue.                         *)
LEMMA RecordTypes ==
    ASSUME IInv, Record
    PROVE  SeqsOK'
  <1>1. happened + 1 \in 0 .. MaxEvents
    BY WatchAssumption DEF Record, IInv, TypeOK, CallsTypeOK
  <1>2. queue \in Seq(0 .. MaxEvents)
    BY DEF IInv, TypeOK, CallsTypeOK
  <1>3. Append(queue, happened + 1) \in Seq(0 .. MaxEvents)
    BY <1>1, <1>2
  <1> QED
    BY <1>3 DEF Record, thread, SeqsOK, IInv, TypeOK, CallsTypeOK

(* The halves of a sequence have its type.                                   *)
LEMMA SubSeqInSeq ==
    ASSUME NEW S, NEW s \in Seq(S), NEW n \in 1 .. Len(s)
    PROVE  SubSeq(s, 1, n) \in Seq(S) /\ SubSeq(s, n + 1, Len(s)) \in Seq(S)
  OBVIOUS

(* The steps on Linux keep the types of the sequences,                       *)
LEMMA LinuxSeqs ==
    ASSUME IInv, os = "linux", LinuxStep
    PROVE  SeqsOK'
  <1>1. SeqsOK
    BY DEF IInv, TypeOK, CallsTypeOK, SeqsOK
  <1> USE EmptySeqs DEF SeqsOK, calls, thread, system, history, shared, linux
  <1>2. CASE LinuxCalls
    BY <1>1, <1>2 DEF LinuxCalls, Start, Stop
  <1>3. CASE InotifyInit \/ AddWatch \/ SpawnFails
    BY <1>1, <1>3 DEF InotifyInit, GiveUp, AddWatch, SpawnFails
  <1>4. CASE StartFails \/ StopClose \/ StopReset
    BY <1>1, <1>4 DEF StartFails, GiveUp, StopClose, CloseNumber, StopReset
  <1>5. CASE (Spawn \/ Join("idle")) /\ UNCHANGED linux
    BY <1>1, <1>5 DEF Spawn, Join
  <1>6. CASE SetPoll \/ Poll \/ ReadNothing \/ (LoopTest /\ UNCHANGED linux)
    BY <1>1, <1>6 DEF SetPoll, Poll, ReadNothing, LoopTest
  <1>7. CASE ReadEvents
    <2>1. PICK n \in 1 .. Len(queue) :
             batch' = SubSeq(queue, 1, n) /\ queue' = SubSeq(queue, n + 1, Len(queue))
      BY <1>7 DEF ReadEvents
    <2>2. SubSeq(queue, 1, n) \in Seq(0 .. MaxEvents) /\ SubSeq(queue, n + 1, Len(queue)) \in Seq(0 .. MaxEvents)
      <3>1. queue \in Seq(0 .. MaxEvents) /\ n \in 1 .. Len(queue)
        BY <1>1
      <3> QED
        BY <3>1, SubSeqInSeq
    <2>3. SubSeq(queue, 1, n) \in Seq(0 .. MaxEvents + 1)
      BY <2>2, SeqMonotonic, WatchAssumption
    <2> QED
      BY <1>1, <1>7, <2>1, <2>2, <2>3 DEF ReadEvents
  <1>8. CASE ReadForeign
    <2>1. <<MaxEvents + 1>> \in Seq(0 .. MaxEvents + 1)
      BY WatchAssumption
    <2> QED
      BY <1>1, <1>8, <2>1 DEF ReadForeign
  <1>9. CASE Deliver
    <2>1. batch # <<>> => Tail(batch) \in Seq(0 .. MaxEvents + 1)
      BY <1>1, HeadTailProperties
    <2> QED
      BY <1>1, <1>9, <2>1 DEF Deliver
  <1>10. CASE LinuxOthers
    <2>1. CASE QueueOverflows
      <3>1. Append(queue, Overflow) \in Seq(0 .. MaxEvents)
        BY <1>1, WatchAssumption DEF Overflow
      <3> QED
        BY <1>1, <2>1, <3>1 DEF QueueOverflows
    <2> QED
      BY <1>1, <1>10, <2>1, RecordTypes DEF LinuxOthers, OtherOpen, OtherClose
  <1> HIDE EmptySeqs DEF SeqsOK, calls, thread, system, history, shared, linux
  <1> QED
    BY <1>2, <1>3, <1>4, <1>5, <1>6, <1>7, <1>8, <1>9, <1>10, CallbackTypes
    DEF LinuxStep, LinuxOwner, LinuxWorker

(* and of all variables;                                                     *)
LEMMA LinuxTypes ==
    ASSUME IInv, os = "linux", os' = os, LinuxStep
    PROVE  TypeOK'
  <1> DEFINE Rest == /\ running \in BOOLEAN /\ joinable \in BOOLEAN /\ failed \in BOOLEAN
                     /\ recording \in BOOLEAN
                     /\ happened \in 0 .. MaxEvents /\ missed \subseteq 1 .. MaxEvents
                     /\ starts \in 0 .. MaxStarts
                     /\ LinuxTypeOK
  <1>1. Rest
    BY DEF IInv, TypeOK, CallsTypeOK
  <1> SUFFICES Rest'
    BY LinuxSeqs DEF TypeOK, CallsTypeOK, SeqsOK
  <1> USE <1>1, WatchAssumption, LinuxAssumption
      DEF LinuxTypeOK, calls, thread, system, history, shared, linux
  <1>2. CASE LinuxCalls
    <2>1. starts' \in 0 .. MaxStarts
      BY <1>2 DEF LinuxCalls, Start, Stop
    <2>2. running' \in BOOLEAN /\ joinable' \in BOOLEAN /\ failed' \in BOOLEAN /\ recording' \in BOOLEAN
      BY <1>2 DEF LinuxCalls, Start, Stop
    <2>3. happened' \in 0 .. MaxEvents
      BY <1>2 DEF LinuxCalls, Start, Stop
    <2>4. missed' \subseteq 1 .. MaxEvents
      BY <1>2 DEF LinuxCalls, Start, Stop
    <2>5. LinuxTypeOK'
      BY <1>2 DEF LinuxCalls, Start, Stop
    <2> QED
      BY <2>1, <2>2, <2>3, <2>4, <2>5
  <1>3. CASE InotifyInit \/ AddWatch \/ SpawnFails
    BY ZenonT(60), <1>3 DEF InotifyInit, GiveUp, AddWatch, SpawnFails
  <1>4. CASE StartFails \/ StopClose \/ StopReset
    BY ZenonT(60), <1>4 DEF StartFails, GiveUp, StopClose, CloseNumber, StopReset
  <1>5. CASE (Spawn \/ Join("idle")) /\ UNCHANGED linux
    BY <1>5 DEF Spawn, Join
  <1>6. CASE SetPoll \/ Poll \/ ReadNothing
    BY ZenonT(60), <1>6 DEF SetPoll, Poll, ReadNothing
  <1>7. CASE ReadEvents \/ ReadForeign \/ (LoopTest /\ UNCHANGED linux)
    BY ZenonT(60), <1>7 DEF ReadEvents, ReadForeign, LoopTest
  <1>8. CASE Deliver \/ (Callback /\ UNCHANGED linux)
    BY ZenonT(60), <1>8 DEF Deliver, Callback
  <1>9. CASE LinuxOthers
    <2>1. happened' \in 0 .. MaxEvents
      BY <1>9 DEF LinuxOthers, Record, QueueOverflows, OtherOpen, OtherClose
    <2>2. UNCHANGED <<running, joinable, failed, recording, missed, starts>>
      BY <1>9 DEF LinuxOthers, Record, QueueOverflows, OtherOpen, OtherClose
    <2>3. LinuxTypeOK'
      BY <1>9 DEF LinuxOthers, Record, QueueOverflows, OtherOpen, OtherClose
    <2> QED
      BY <2>1, <2>2, <2>3
  <1> HIDE <1>1 DEF LinuxTypeOK, calls, thread, system, history, shared, linux, Rest
  <1> QED
    BY <1>2, <1>3, <1>4, <1>5, <1>6, <1>7, <1>8, <1>9 DEF LinuxStep, LinuxOwner, LinuxWorker

(* owner and worker stay where they may be against each other;               *)
LEMMA LinuxCallsInv ==
    ASSUME IInv, os = "linux", LinuxStep
    PROVE  CallsInv'
  <1> USE DEF IInv, TypeOK, CallsTypeOK, LinuxTypeOK, CallsInv, LinuxInv, Holding,
              Starting, Stopping, Unused, calls, thread, system, history, shared, linux
  <1>1. CASE LinuxCalls
    BY <1>1 DEF LinuxCalls, Start, Stop
  <1>2. CASE InotifyInit \/ AddWatch \/ SpawnFails
    BY <1>2 DEF InotifyInit, GiveUp, AddWatch, SpawnFails
  <1>3. CASE StartFails \/ StopClose \/ StopReset
    BY <1>3 DEF StartFails, GiveUp, StopClose, CloseNumber, StopReset
  <1>4. CASE (Spawn \/ Join("idle")) /\ UNCHANGED linux
    BY <1>4 DEF Spawn, Join
  <1>5. CASE SetPoll \/ Poll
    BY <1>5 DEF SetPoll, Poll
  <1>6. CASE ReadNothing
    BY <1>6 DEF ReadNothing, ReadsWatch
  <1>7. CASE ReadEvents \/ ReadForeign \/ (LoopTest /\ UNCHANGED linux)
    BY <1>7 DEF ReadEvents, ReadForeign, LoopTest
  <1>8. CASE Deliver \/ (Callback /\ UNCHANGED linux)
    BY <1>8 DEF Deliver, Callback
  <1>9. CASE LinuxOthers
    BY <1>9 DEF LinuxOthers, Record, QueueOverflows, OtherOpen, OtherClose
  <1> HIDE DEF IInv, TypeOK, CallsTypeOK, LinuxTypeOK, CallsInv, LinuxInv, Holding,
               Starting, Stopping, Unused, calls, thread, system, history, shared, linux
  <1> QED
    BY <1>1, <1>2, <1>3, <1>4, <1>5, <1>6, <1>7, <1>8, <1>9
    DEF LinuxStep, LinuxOwner, LinuxWorker

(* Behind a recorded change, or an overflow, the queue is not empty.         *)
LEMMA RecordedQueue ==
    ASSUME IInv, Record \/ QueueOverflows
    PROVE  queue' # <<>>
  <1>1. queue \in Seq(Nat) /\ happened + 1 \in Nat /\ Overflow \in Nat
    BY SeqTypes DEF IInv, TypeOK, CallsTypeOK, Overflow
  <1> QED
    BY <1>1, AppendProperties DEF Record, QueueOverflows

(* the descriptors are whose they are said to be.                            *)
LEMMA LinuxDescriptors ==
    ASSUME IInv, os = "linux", LinuxStep
    PROVE  LinuxInv'
  <1> USE LinuxAssumption DEF IInv, TypeOK, CallsTypeOK, LinuxTypeOK, CallsInv, LinuxInv, Holding,
              Starting, Stopping, Unused, calls, thread, system, history, shared, linux
  <1>1. CASE LinuxCalls
    BY <1>1 DEF LinuxCalls, Start, Stop
  <1>2. CASE InotifyInit
    BY <1>2 DEF InotifyInit, GiveUp, Lowest
  <1>3. CASE AddWatch \/ SpawnFails
    BY <1>3 DEF AddWatch, SpawnFails
  <1>4. CASE StartFails
    BY <1>4 DEF StartFails, GiveUp, CloseNumber
  <1>5. CASE StopClose \/ StopReset
    BY <1>5 DEF StopClose, CloseNumber, StopReset
  <1>6. CASE (Spawn \/ Join("idle")) /\ UNCHANGED linux
    BY <1>6 DEF Spawn, Join
  <1>7. CASE SetPoll \/ Poll
    BY <1>7 DEF SetPoll, Poll, PollsWatch
  <1>8. CASE ReadNothing \/ ReadEvents \/ ReadForeign \/ (LoopTest /\ UNCHANGED linux)
    BY <1>8 DEF ReadNothing, ReadEvents, ReadsWatch, ReadForeign, LoopTest
  <1>9. CASE Deliver \/ (Callback /\ UNCHANGED linux)
    BY <1>9 DEF Deliver, Callback
  <1>10. CASE LinuxOthers
    <2>1. Record \/ QueueOverflows => queue' # <<>>
      BY RecordedQueue
    <2> QED
      BY <1>10, <2>1 DEF LinuxOthers, Record, QueueOverflows, OtherOpen, OtherClose, Lowest
  <1> HIDE LinuxAssumption DEF IInv, TypeOK, CallsTypeOK, LinuxTypeOK, CallsInv, LinuxInv, Holding,
               Starting, Stopping, Unused, calls, thread, system, history, shared, linux
  <1> QED
    BY <1>1, <1>2, <1>3, <1>4, <1>5, <1>6, <1>7, <1>8, <1>9, <1>10
    DEF LinuxStep, LinuxOwner, LinuxWorker

(* --------------------------- what happens to events --------------------- *)

(* A new watch has no events yet.                                            *)
LEMMA StartEvents ==
    ASSUME IInv, queue = <<>>, Start
    PROVE  EventsInv'
  <1>1. batch = <<>> /\ wpc = "none"
    BY DEF Start, IInv, CallsInv, Unused
  <1>2. /\ happened' = 0 /\ missed' = {} /\ delivered' = <<>> /\ batch' = <<>> /\ queue' = <<>>
        /\ wpc' = "none"
    BY <1>1 DEF Start, thread, system
  <1>3. Kept' = {}
    BY <1>2 DEF Kept
  <1> QED
    BY <1>2, <1>3, EventsOfEmpty DEF EventsInv, Before

(* The system begins to record; nothing is in the buffer.                   *)
LEMMA RecordingBegins ==
    ASSUME EventsInv, batch = <<>>, UNCHANGED <<batch, queue, history>>,
           running' = running, wpc' # "callback"
    PROVE  EventsInv'
  BY EventsOfEmpty DEF EventsInv, history, Kept, Before, Increasing, Events

(* A recorded change is later than all before it.                            *)
LEMMA RecordEvents ==
    ASSUME IInv, Record
    PROVE  EventsInv'
  <1> DEFINE e == happened + 1
  <1>1. /\ happened \in Nat /\ happened < MaxEvents /\ recording
        /\ happened' = e /\ queue' = Append(queue, e) /\ missed' = missed
        /\ missed \subseteq 1 .. MaxEvents
        /\ UNCHANGED <<batch, delivered, failed, recording, running, wpc>>
    BY DEF Record, IInv, TypeOK, CallsTypeOK, calls, thread
  <1>2. EventsInv /\ queue \in Seq(Nat)
    BY SeqTypes DEF IInv
  <1>3. \A x \in Events(delivered) \cup Events(batch) \cup Events(queue) : x \in Nat /\ x < e
    BY <1>1, <1>2 DEF EventsInv, Kept
  <1>4. Events(queue)' = Events(queue) \cup {e} /\ Increasing(queue)'
    BY <1>1, <1>2, <1>3, AppendEvent DEF EventsInv, Overflow
  <1>5. Kept' = Kept \cup {e}
    BY <1>1, <1>2 DEF EventsInv, Kept
  <1>6. Events(batch)' = Events(batch) /\ Events(delivered)' = Events(delivered)
    BY <1>1
  <1>7. Before(delivered, batch)' /\ Before(batch, queue)' /\ Before(delivered, queue)'
    BY <1>2, <1>3, <1>4, <1>6 DEF EventsInv, Before
  <1>8. Increasing(delivered)' /\ Increasing(batch)'
    BY <1>1, <1>2 DEF EventsInv
  <1>9. ASSUME NEW x \in Events(delivered)', NEW k \in Kept', k < x PROVE k \in Events(delivered)'
    BY <1>1, <1>2, <1>3, <1>5, <1>6, <1>9 DEF EventsInv
  <1>10. wpc' = "callback" =>
           /\ batch' # <<>> /\ Head(batch') \in Kept'
           /\ \A k \in Kept' : k < Head(batch') => k \in Events(delivered)'
    <2>1. SUFFICES ASSUME wpc = "callback"
                   PROVE  Head(batch) \in Kept' /\ \A k \in Kept' : k < Head(batch) => k \in Events(delivered)
      BY <1>1, <1>2, <1>6 DEF EventsInv
    <2>2. Head(batch) \in Kept /\ \A k \in Kept : k < Head(batch) => k \in Events(delivered)
      BY <1>2, <2>1 DEF EventsInv
    <2>3. Head(batch) < e
      BY <1>1, <2>2 DEF Kept
    <2> QED
      BY <1>1, <1>5, <2>2, <2>3 DEF Kept
  <1>11. Events(queue)' \subseteq Kept' /\ Events(delivered)' \subseteq Kept' /\ missed' \subseteq 1 .. happened'
    BY <1>1, <1>2, <1>4, <1>5, <1>6 DEF EventsInv
  <1>12. Events(batch)' \subseteq 1 .. happened'
    BY <1>1, <1>2, <1>6 DEF EventsInv
  <1> QED
    BY <1>1, <1>2, <1>4, <1>5, <1>6, <1>7, <1>8, <1>9, <1>10, <1>11, <1>12 DEF EventsInv

(* The mark of an overflow is no event.                                     *)
LEMMA MarkEvents ==
    ASSUME IInv, queue' = Append(queue, Overflow),
           UNCHANGED <<running, wpc, batch, recording, history>>
    PROVE  EventsInv'
  <1>1. queue \in Seq(Nat) /\ Overflow \in Nat
    BY SeqTypes DEF IInv, Overflow
  <1>2. Events(queue)' = Events(queue) /\ (Increasing(queue) => Increasing(queue)')
    BY <1>1, AppendEvent
  <1>3. Kept' = Kept
    BY DEF Kept, history
  <1> QED
    BY <1>2, <1>3 DEF IInv, EventsInv, Before, history

(* The worker reads a beginning of the system's queue.                      *)
LEMMA ReadEventsEvents ==
    ASSUME IInv, batch = <<>>, NEW n \in 0 .. Len(queue),
           batch' = SubSeq(queue, 1, n), queue' = SubSeq(queue, n + 1, Len(queue)),
           UNCHANGED <<running, recording, history>>, wpc' # "callback"
    PROVE  EventsInv'
  <1>1. queue \in Seq(Nat) /\ EventsInv
    BY SeqTypes DEF IInv
  <1>2. /\ Events(queue) = Events(batch)' \cup Events(queue)'
        /\ Increasing(batch)' /\ Increasing(queue)' /\ Before(batch, queue)'
    BY <1>1, SplitEvents DEF EventsInv
  <1>3. Events(batch) = {}
    BY EventsOfEmpty
  <1>4. Kept' = Kept /\ Events(delivered)' = Events(delivered) /\ Increasing(delivered)'
    BY <1>1 DEF Kept, history, EventsInv
  <1>5. Before(delivered, batch)' /\ Before(delivered, queue)'
    BY <1>1, <1>2, <1>4 DEF EventsInv, Before
  <1>6. Events(batch)' \subseteq 1 .. happened'
    BY <1>1, <1>2 DEF EventsInv, Kept, history
  <1> QED
    BY <1>1, <1>2, <1>3, <1>4, <1>5, <1>6 DEF EventsInv, history

(* The callback gets the next event of the buffer.                          *)
LEMMA CallbackEvents ==
    ASSUME IInv, Callback
    PROVE  EventsInv'
  <1> DEFINE h == Head(batch)
  <1>1. /\ wpc = "callback" /\ wpc' = "deliver" /\ delivered' = Append(delivered, h)
        /\ batch' = Tail(batch)
        /\ UNCHANGED <<running, queue, recording, happened, missed, failed>>
    BY DEF Callback, calls, system
  <1>2. /\ EventsInv /\ batch \in Seq(Nat) /\ delivered \in Seq(Nat) /\ queue \in Seq(Nat)
        /\ happened \in Nat
    BY SeqTypes DEF IInv, TypeOK, CallsTypeOK
  <1>3. /\ batch # <<>> /\ h \in Kept /\ h \in Nat /\ h # Overflow
        /\ \A k \in Kept : k < h => k \in Events(delivered)
    BY <1>1, <1>2 DEF EventsInv, Kept, Overflow
  <1>4. /\ Events(batch) = Events(batch)' \cup {h} /\ Increasing(batch)'
        /\ \A e \in Events(batch)' : h < e
    BY <1>1, <1>2, <1>3, HeadEvent DEF EventsInv
  <1>5. \A e \in Events(delivered) : e < h
    BY <1>2, <1>4 DEF EventsInv, Before
  <1>6. Events(delivered)' = Events(delivered) \cup {h} /\ Increasing(delivered)'
    BY <1>1, <1>2, <1>3, <1>5, AppendEvent DEF EventsInv
  <1>7. Kept' = Kept
    BY <1>1 DEF Kept
  <1>8. Before(delivered, batch)' /\ Before(batch, queue)' /\ Before(delivered, queue)'
    BY ZenonT(60), <1>1, <1>2, <1>4, <1>6 DEF EventsInv, Before
  <1>9. ASSUME NEW e \in Events(delivered)', NEW k \in Kept', k < e PROVE k \in Events(delivered)'
    BY <1>2, <1>3, <1>6, <1>7, <1>9 DEF EventsInv
  <1>10. Overflow \notin {delivered'[i] : i \in DOMAIN delivered'}
    <2>1. ASSUME NEW i \in DOMAIN delivered' PROVE delivered'[i] # Overflow
      <3>1. /\ DOMAIN delivered = 1 .. Len(delivered) /\ Len(delivered) \in Nat
            /\ DOMAIN delivered' = 1 .. Len(delivered) + 1
            /\ delivered'[Len(delivered) + 1] = h
            /\ \A j \in 1 .. Len(delivered) : delivered'[j] = delivered[j]
        BY <1>1, <1>2
      <3>2. CASE i \in DOMAIN delivered
        BY <1>2, <3>1, <3>2 DEF EventsInv
      <3>3. CASE i = Len(delivered) + 1
        BY <1>3, <3>1, <3>3
      <3> QED
        BY <3>1, <3>2, <3>3
    <2> QED
      BY <2>1
  <1> QED
    BY <1>1, <1>2, <1>3, <1>4, <1>6, <1>7, <1>8, <1>9, <1>10 DEF EventsInv

(* The worker takes the next event of the buffer: all before it have been   *)
(* delivered.                                                               *)
LEMMA TakeEvent ==
    ASSUME IInv, wpc = "deliver", running, batch # <<>>, Head(batch) # Overflow,
           wpc' = "callback", UNCHANGED <<running, batch, queue, recording, history>>
    PROVE  EventsInv'
  <1> DEFINE h == Head(batch)
  <1>1. EventsInv /\ batch \in Seq(Nat) /\ ~failed
    BY SeqTypes DEF IInv, CallsInv
  <1>2. /\ h \in Nat /\ Events(batch) = Events(Tail(batch)) \cup {h}
        /\ \A e \in Events(Tail(batch)) : h < e
    BY <1>1, HeadEvent DEF EventsInv
  <1>3. Kept = Events(delivered) \cup Events(batch) \cup Events(queue) /\ Kept \subseteq Nat
    BY <1>1 DEF EventsInv, Kept
  <1>4. ASSUME NEW k \in Kept, k < h PROVE k \in Events(delivered)
    <2>1. k \notin Events(batch)
      BY <1>2, <1>3, <1>4
    <2>2. k \notin Events(queue)
      BY <1>1, <1>2, <1>3, <1>4 DEF EventsInv, Before
    <2> QED
      BY <1>3, <2>1, <2>2
  <1>5. Kept' = Kept
    BY DEF Kept, history
  <1> QED
    BY <1>1, <1>2, <1>3, <1>4, <1>5 DEF EventsInv, history, Before

(* It passes over the mark of an overflow.                                  *)
LEMMA SkipMark ==
    ASSUME IInv, batch # <<>>, Head(batch) = Overflow, batch' = Tail(batch), wpc' # "callback",
           UNCHANGED <<running, queue, recording, history>>
    PROVE  EventsInv'
  <1>1. EventsInv /\ batch \in Seq(Nat)
    BY SeqTypes DEF IInv
  <1>2. Increasing(Tail(batch)) /\ Events(batch) = Events(Tail(batch)) \cup ({Overflow} \ {Overflow})
    BY <1>1, HeadEvent DEF EventsInv
  <1>3. Events(batch)' = Events(batch) /\ Increasing(batch)'
    BY <1>2
  <1>4. Kept' = Kept
    BY DEF Kept, history
  <1> QED
    BY <1>1, <1>3, <1>4 DEF EventsInv, history, Before

(* What is read from a descriptor of somebody else is no event of the watch. *)
LEMMA ForeignEvents ==
    ASSUME IInv, os = "linux", ReadForeign
    PROVE  EventsInv'
  <1>1. /\ table[fd] = "foreign" /\ batch' = <<MaxEvents + 1>> /\ wpc' = "deliver"
        /\ wpc = "read" /\ UNCHANGED <<running, queue, recording, history>>
    BY DEF ReadForeign, calls, system
  <1>2. ~running /\ queue = <<>> /\ ~recording
    BY <1>1 DEF IInv, LinuxInv, Holding, CallsInv, Unused, Starting, Stopping, TypeOK, LinuxTypeOK
  <1>3. EventsInv /\ happened \in 0 .. MaxEvents
    BY DEF IInv, TypeOK, CallsTypeOK
  <1>4. Increasing(batch)' /\ Events(batch)' \subseteq {MaxEvents + 1}
    BY <1>1 DEF Increasing, Events
  <1>5. Kept' = Kept /\ Events(queue) = {}
    BY <1>1, <1>2, EventsOfEmpty DEF Kept, history
  <1>6. \A e \in Events(delivered) : e < MaxEvents + 1
    BY <1>3, WatchAssumption DEF EventsInv, Kept
  <1>7. Before(delivered, batch)' /\ Before(batch, queue)' /\ Before(delivered, queue)'
    BY <1>1, <1>3, <1>4, <1>5, <1>6 DEF Before, history
  <1> QED
    BY <1>1, <1>2, <1>3, <1>4, <1>5, <1>7 DEF EventsInv, history

(* The steps on Linux keep the events in order.                              *)
LEMMA LinuxEvents ==
    ASSUME IInv, os = "linux", LinuxStep
    PROVE  EventsInv'
  <1>1. EventsInv /\ CallsInv /\ LinuxInv
    BY DEF IInv
  <1>2. CASE LinuxCalls
    <2>1. CASE Start
      BY <1>1, <2>1, StartEvents DEF Start, LinuxInv, Holding
    <2>2. CASE Stop
      BY <1>1, <2>2, KeepEvents DEF Stop, thread, system, history
    <2> QED
      BY <1>2, <2>1, <2>2 DEF LinuxCalls
  <1>3. CASE AddWatch
    <2>1. batch = <<>> /\ wpc = "none"
      BY <1>1, <1>3 DEF AddWatch, CallsInv, Starting
    <2> QED
      BY <1>1, <1>3, <2>1, RecordingBegins, KeepEvents DEF AddWatch, thread, history
  <1>4. CASE InotifyInit \/ SpawnFails \/ StartFails \/ StopReset
    BY <1>1, <1>4, KeepEvents DEF InotifyInit, GiveUp, SpawnFails, StartFails, CloseNumber, StopReset,
                                  thread, system, history
  <1>5. CASE StopClose
    BY <1>1, <1>5, KeepEvents DEF StopClose, CloseNumber, CallsInv, Stopping, thread, system, history
  <1>6. CASE (Spawn \/ Join("idle")) /\ UNCHANGED linux
    BY <1>1, <1>6, KeepEvents DEF Spawn, Join, CallsInv, Starting, Stopping, system, history
  <1>7. CASE SetPoll \/ Poll \/ ReadNothing \/ (LoopTest /\ UNCHANGED linux)
    BY <1>1, <1>7, KeepEvents DEF SetPoll, Poll, ReadNothing, LoopTest, calls, system, history
  <1>8. CASE ReadEvents
    <2>1. batch = <<>>
      BY <1>1, <1>8 DEF ReadEvents, CallsInv
    <2>2. PICK n \in 1 .. Len(queue) :
             batch' = SubSeq(queue, 1, n) /\ queue' = SubSeq(queue, n + 1, Len(queue))
      BY <1>8 DEF ReadEvents
    <2>3. n \in 0 .. Len(queue)
      OBVIOUS
    <2> QED
      BY <1>8, <2>1, <2>2, <2>3, ReadEventsEvents DEF ReadEvents, calls
  <1>9. CASE ReadForeign
    BY <1>9, ForeignEvents
  <1>10. CASE Deliver
    <2>1. CASE batch # <<>> /\ running /\ Head(batch) # Overflow
      BY <1>10, <2>1, TakeEvent DEF Deliver, calls, system
    <2>2. CASE batch # <<>> /\ running /\ Head(batch) = Overflow
      BY <1>10, <2>2, SkipMark DEF Deliver, calls, system
    <2>3. CASE batch = <<>> \/ ~running
      BY <1>1, <1>10, <2>3, KeepEvents DEF Deliver, calls, system, history
    <2> QED
      BY <2>1, <2>2, <2>3
  <1>11. CASE LinuxOthers
    <2>1. CASE QueueOverflows
      BY <2>1, MarkEvents DEF QueueOverflows, calls, thread
    <2>2. CASE \E d \in Fds : OtherOpen(d) \/ OtherClose(d)
      BY <1>1, <2>2, KeepEvents DEF OtherOpen, OtherClose, shared, calls, thread, system, history
    <2> QED
      BY <1>11, <2>1, <2>2, RecordEvents DEF LinuxOthers
  <1> QED
    BY <1>2, <1>3, <1>4, <1>5, <1>6, <1>7, <1>8, <1>9, <1>10, <1>11, CallbackEvents
    DEF LinuxStep, LinuxOwner, LinuxWorker

(* --------------------------- steps on Windows --------------------------- *)

WindowsStep ==
    WindowsCalls \/ WindowsOwner \/ WindowsWorker \/ WindowsSystem \/ WindowsOthers

(* The steps on Windows keep the types of the sequences,                     *)
LEMMA WindowsSeqs ==
    ASSUME IInv, os = "windows", WindowsStep
    PROVE  SeqsOK'
  <1>1. SeqsOK
    BY DEF IInv, TypeOK, CallsTypeOK, SeqsOK
  <1> USE EmptySeqs DEF SeqsOK, calls, thread, system, history, shared, windows
  <1>2. CASE WindowsCalls
    BY <1>1, <1>2 DEF WindowsCalls, Start, Stop
  <1>3. CASE CreateFile \/ CreateEvents \/ SpawnThrows \/ SignalStop
    BY <1>1, <1>3 DEF CreateFile, CreateEvents, GiveUp, SpawnThrows, SignalStop
  <1>4. CASE CancelIo \/ JoinThread \/ CloseHandles \/ (Spawn /\ UNCHANGED windows)
    BY <1>1, <1>4 DEF CancelIo, JoinThread, Join, CloseHandles, Spawn
  <1>5. CASE IssueRead \/ Wait \/ Woken \/ (LoopTest /\ UNCHANGED windows)
    BY <1>1, <1>5 DEF IssueRead, Wait, Woken, LoopTest, WorkerGivesUp
  <1>6. CASE GetResult \/ NextEntry
    BY <1>1, <1>6 DEF GetResult, NextEntry, WorkerGivesUp
  <1>7. CASE WindowsSystem
    <2>1. queue \in Seq(0 .. MaxEvents + 1)
      BY <1>1, SeqMonotonic, WatchAssumption
    <2> QED
      BY <1>1, <1>7, <2>1 DEF WindowsSystem, Complete, Abort
  <1>8. CASE BufferOverflows
    <2>1. <<Overflow>> \in Seq(0 .. MaxEvents)
      BY WatchAssumption DEF Overflow
    <2> QED
      BY <1>1, <1>8, <2>1 DEF BufferOverflows
  <1> HIDE EmptySeqs DEF SeqsOK, calls, thread, system, history, shared, windows
  <1> QED
    BY <1>2, <1>3, <1>4, <1>5, <1>6, <1>7, <1>8, CallbackTypes, RecordTypes
    DEF WindowsStep, WindowsOwner, WindowsWorker, WindowsOthers

(* of the handles,                                                           *)
LEMMA WindowsStates ==
    ASSUME IInv, os = "windows", WindowsStep
    PROVE  WindowsTypeOK'
  <1> USE DEF IInv, TypeOK, WindowsTypeOK, calls, thread, system, history, shared, windows
  <1>2. CASE WindowsCalls
    BY <1>2 DEF WindowsCalls, Start, Stop
  <1>3. CASE CreateFile \/ CreateEvents \/ SpawnThrows \/ SignalStop
    BY <1>3 DEF CreateFile, CreateEvents, GiveUp, SpawnThrows, SignalStop
  <1>4. CASE CancelIo \/ JoinThread \/ CloseHandles \/ (Spawn /\ UNCHANGED windows)
    BY <1>4 DEF CancelIo, JoinThread, Join, CloseHandles, Spawn
  <1>5. CASE IssueRead \/ Wait \/ Woken \/ (LoopTest /\ UNCHANGED windows)
    BY <1>5 DEF IssueRead, Wait, Woken, LoopTest, WorkerGivesUp
  <1>6. CASE GetResult \/ NextEntry \/ (Callback /\ UNCHANGED windows)
    BY <1>6 DEF GetResult, NextEntry, WorkerGivesUp, Callback
  <1>7. CASE WindowsSystem
    BY <1>7 DEF WindowsSystem, Complete, Abort
  <1>8. CASE WindowsOthers
    BY <1>8 DEF WindowsOthers, Record, BufferOverflows
  <1> HIDE DEF IInv, TypeOK, WindowsTypeOK, calls, thread, system, history, shared, windows
  <1> QED
    BY <1>2, <1>3, <1>4, <1>5, <1>6, <1>7, <1>8
    DEF WindowsStep, WindowsOwner, WindowsWorker

(* and of all variables;                                                     *)
LEMMA WindowsTypes ==
    ASSUME IInv, os = "windows", os' = os, WindowsStep
    PROVE  TypeOK'
  <1> DEFINE Rest == /\ running \in BOOLEAN /\ joinable \in BOOLEAN /\ failed \in BOOLEAN
                     /\ recording \in BOOLEAN
                     /\ happened \in 0 .. MaxEvents /\ missed \subseteq 1 .. MaxEvents
                     /\ starts \in 0 .. MaxStarts
  <1>1. Rest
    BY DEF IInv, TypeOK, CallsTypeOK
  <1> SUFFICES Rest'
    BY WindowsStates, WindowsSeqs DEF TypeOK, CallsTypeOK, SeqsOK
  <1> USE <1>1, WatchAssumption DEF calls, thread, system, history, shared, windows
  <1>2. CASE WindowsCalls
    <2>1. starts' \in 0 .. MaxStarts
      BY <1>2 DEF WindowsCalls, Start, Stop
    <2>2. happened' \in 0 .. MaxEvents
      BY <1>2 DEF WindowsCalls, Start, Stop
    <2>3. missed' \subseteq 1 .. MaxEvents
      BY <1>2 DEF WindowsCalls, Start, Stop
    <2>4. running' \in BOOLEAN /\ joinable' \in BOOLEAN /\ failed' \in BOOLEAN /\ recording' \in BOOLEAN
      BY <1>2 DEF WindowsCalls, Start, Stop
    <2> QED
      BY <2>1, <2>2, <2>3, <2>4
  <1>3. CASE CreateFile \/ CreateEvents \/ SpawnThrows \/ SignalStop
    BY <1>3 DEF CreateFile, CreateEvents, GiveUp, SpawnThrows, SignalStop
  <1>4. CASE CancelIo \/ JoinThread \/ CloseHandles \/ (Spawn /\ UNCHANGED windows)
    BY <1>4 DEF CancelIo, JoinThread, Join, CloseHandles, Spawn
  <1>5. CASE IssueRead \/ Wait \/ Woken \/ (LoopTest /\ UNCHANGED windows)
    BY <1>5 DEF IssueRead, Wait, Woken, LoopTest, WorkerGivesUp
  <1>6. CASE GetResult \/ NextEntry \/ (Callback /\ UNCHANGED windows)
    BY <1>6 DEF GetResult, NextEntry, WorkerGivesUp, Callback
  <1>7. CASE WindowsSystem
    BY <1>7 DEF WindowsSystem, Complete, Abort
  <1>8. CASE Record
    BY <1>8 DEF Record
  <1>9. CASE BufferOverflows
    <2>1. {queue[i] : i \in DOMAIN queue} \subseteq 1 .. MaxEvents
      <3>1. queue \in Seq(0 .. MaxEvents) /\ \A i \in DOMAIN queue : queue[i] # Overflow
        BY <1>9 DEF BufferOverflows, IInv, WindowsInv, TypeOK, CallsTypeOK
      <3>2. ASSUME NEW i \in DOMAIN queue PROVE queue[i] \in 1 .. MaxEvents
        BY <3>1 DEF Overflow
      <3> QED
        BY <3>2
    <2>2. UNCHANGED <<running, joinable, failed, recording, happened, starts>>
      BY <1>9 DEF BufferOverflows
    <2>3. missed' = missed \cup {queue[i] : i \in DOMAIN queue}
      BY <1>9 DEF BufferOverflows
    <2> QED
      BY <2>1, <2>2, <2>3
  <1> HIDE <1>1 DEF calls, thread, system, history, shared, windows, Rest
  <1> QED
    BY <1>2, <1>3, <1>4, <1>5, <1>6, <1>7, <1>8, <1>9
    DEF WindowsStep, WindowsOwner, WindowsWorker, WindowsOthers

(* owner and worker stay where they may be against each other;               *)
LEMMA WindowsCallsInv ==
    ASSUME IInv, os = "windows", WindowsStep
    PROVE  CallsInv'
  <1> USE DEF IInv, TypeOK, CallsTypeOK, WindowsTypeOK, CallsInv, WindowsInv,
              Starting, Stopping, Unused, calls, thread, system, history, shared, windows
  <1>1. CASE WindowsCalls
    BY <1>1 DEF WindowsCalls, Start, Stop
  <1>2. CASE CreateFile \/ CreateEvents \/ SpawnThrows
    BY <1>2 DEF CreateFile, CreateEvents, GiveUp, SpawnThrows
  <1>3. CASE SignalStop \/ CancelIo \/ CloseHandles
    BY <1>3 DEF SignalStop, CancelIo, CloseHandles
  <1>4. CASE JoinThread \/ (Spawn /\ UNCHANGED windows)
    BY <1>4 DEF JoinThread, Join, Spawn
  <1>5. CASE IssueRead \/ (LoopTest /\ UNCHANGED windows)
    BY <1>5 DEF IssueRead, LoopTest, WorkerGivesUp
  <1>6. CASE Wait \/ Woken
    BY <1>6 DEF Wait, Woken, WorkerGivesUp
  <1>7. CASE GetResult
    BY <1>7 DEF GetResult, WorkerGivesUp
  <1>8. CASE NextEntry \/ (Callback /\ UNCHANGED windows)
    BY <1>8 DEF NextEntry, Callback
  <1>9. CASE WindowsSystem
    BY <1>9 DEF WindowsSystem, Complete, Abort, InFlight
  <1>10. CASE WindowsOthers
    BY <1>10 DEF WindowsOthers, Record, BufferOverflows
  <1> HIDE DEF IInv, TypeOK, CallsTypeOK, WindowsTypeOK, CallsInv, WindowsInv,
              Starting, Stopping, Unused, calls, thread, system, history, shared, windows
  <1> QED
    BY <1>1, <1>2, <1>3, <1>4, <1>5, <1>6, <1>7, <1>8, <1>9, <1>10
    DEF WindowsStep, WindowsOwner, WindowsWorker

(* What is added to the queue, or taken from it, keeps the mark alone in it. *)
LEMMA RecordedAlone ==
    ASSUME IInv, os = "windows", Record, queue # <<Overflow>>
    PROVE  \A i \in DOMAIN queue' : queue'[i] # Overflow
  <1>1. queue \in Seq(Nat) /\ happened \in Nat /\ queue' = Append(queue, happened + 1)
    BY SeqTypes DEF Record, IInv, TypeOK, CallsTypeOK
  <1>2. \A i \in DOMAIN queue : queue[i] # Overflow
    BY DEF IInv, WindowsInv
  <1>3. happened + 1 # Overflow
    BY <1>1 DEF Overflow
  <1>4. /\ DOMAIN queue = 1 .. Len(queue) /\ Len(queue) \in Nat
        /\ DOMAIN queue' = 1 .. Len(queue) + 1
        /\ queue'[Len(queue) + 1] = happened + 1
        /\ \A i \in 1 .. Len(queue) : queue'[i] = queue[i]
    BY <1>1
  <1> QED
    BY <1>2, <1>3, <1>4

(* the handles are whose they are said to be.                                *)
LEMMA WindowsHandles ==
    ASSUME IInv, os = "windows", WindowsStep
    PROVE  WindowsInv'
  <1> USE DEF IInv, TypeOK, CallsTypeOK, WindowsTypeOK, CallsInv, WindowsInv, NoHandles, AllHandles,
              InFlight, Starting, Stopping, Unused, calls, thread, system, history, shared, windows
  <1>1. CASE WindowsCalls
    BY <1>1 DEF WindowsCalls, Start, Stop
  <1>2. CASE CreateFile
    BY <1>2 DEF CreateFile, GiveUp
  <1>3. CASE CreateEvents
    BY <1>3 DEF CreateEvents, GiveUp
  <1>4. CASE SpawnThrows \/ SignalStop
    BY <1>4 DEF SpawnThrows, SignalStop
  <1>5. CASE CancelIo
    BY <1>5 DEF CancelIo
  <1>6. CASE JoinThread \/ CloseHandles \/ (Spawn /\ UNCHANGED windows)
    BY <1>6 DEF JoinThread, Join, CloseHandles, Spawn
  <1>7. CASE IssueRead
    BY <1>7 DEF IssueRead, WorkerGivesUp
  <1>8. CASE Wait
    BY <1>8 DEF Wait, WorkerGivesUp
  <1>9. CASE Woken \/ GetResult
    BY <1>9 DEF Woken, GetResult, WorkerGivesUp
  <1>10. CASE NextEntry \/ (LoopTest /\ UNCHANGED windows)
    BY <1>10 DEF NextEntry, LoopTest
  <1>11. CASE Callback /\ UNCHANGED windows
    <2>1. \A i \in DOMAIN batch' : batch'[i] # Overflow
      <3>1. batch \in Seq(Nat) /\ batch # <<>> /\ batch' = Tail(batch)
        BY <1>11, SeqTypes DEF Callback, EventsInv
      <3>2. \A i \in DOMAIN batch' : i + 1 \in DOMAIN batch /\ batch'[i] = batch[i + 1]
        BY <3>1
      <3> QED
        BY <3>2
    <2>2. WindowsInv /\ UNCHANGED <<opc, running, recording, queue, windows>> /\ wpc = "callback" /\ wpc' = "deliver"
      BY <1>11 DEF Callback
    <2> QED
      BY <2>1, <2>2
  <1>12. CASE Complete
    BY <1>12 DEF Complete
  <1>13. CASE Abort
    BY <1>13 DEF Abort
  <1>14. CASE Record /\ queue # <<Overflow>> /\ UNCHANGED windows
    <2>1. \A i \in DOMAIN queue' : queue'[i] # Overflow
      BY <1>14, RecordedAlone
    <2>2. UNCHANGED <<opc, running, recording, wpc, batch, windows>> /\ recording
      BY <1>14 DEF Record
    <2> QED
      BY <2>1, <2>2
  <1>15. CASE BufferOverflows
    BY <1>15 DEF BufferOverflows
  <1> HIDE DEF IInv, TypeOK, CallsTypeOK, WindowsTypeOK, CallsInv, WindowsInv, NoHandles, AllHandles,
              InFlight, Starting, Stopping, Unused, calls, thread, system, history, shared, windows
  <1> QED
    BY <1>1, <1>2, <1>3, <1>4, <1>5, <1>6, <1>7, <1>8, <1>9, <1>10, <1>11, <1>12, <1>13, <1>14, <1>15
    DEF WindowsStep, WindowsOwner, WindowsWorker, WindowsSystem, WindowsOthers

(* The system throws its buffer away: nothing in it was handed out.         *)
LEMMA OverflowEvents ==
    ASSUME IInv, os = "windows", BufferOverflows
    PROVE  EventsInv'
  <1>1. /\ recording /\ queue' = <<Overflow>> /\ missed' = missed \cup {queue[i] : i \in DOMAIN queue}
        /\ UNCHANGED <<running, wpc, batch, recording, happened, delivered, failed>>
        /\ queue # <<Overflow>>
    BY DEF BufferOverflows, calls, thread
  <1>2. EventsInv /\ \A i \in DOMAIN queue : queue[i] # Overflow
    BY <1>1 DEF IInv, WindowsInv
  <1>3. Events(queue) = {queue[i] : i \in DOMAIN queue} /\ Events(queue) \subseteq Kept
    BY <1>2 DEF Events, EventsInv
  <1>4. Kept' = Kept \ Events(queue) /\ missed' \subseteq 1 .. happened' /\ Kept \subseteq Nat
    <2>1. missed' = missed \cup Events(queue) /\ happened' = happened
      BY <1>1, <1>3
    <2>2. missed \subseteq 1 .. happened
      BY <1>2 DEF EventsInv
    <2>3. happened \in Nat
      BY DEF IInv, TypeOK, CallsTypeOK
    <2>4. Kept' = Kept \ Events(queue) /\ Kept \subseteq Nat
      BY <2>1, <2>3 DEF Kept
    <2>5. Events(queue) \subseteq 1 .. happened
      BY <1>3 DEF Kept
    <2> QED
      BY <2>1, <2>2, <2>4, <2>5
  <1>5. Events(queue)' = {} /\ Increasing(queue)'
    BY <1>1 DEF Events, Increasing
  <1>6. Events(delivered)' = Events(delivered) /\ Events(batch)' = Events(batch)
    BY <1>1
  <1>7. /\ Events(delivered) \cap Events(queue) = {} /\ Events(batch) \cap Events(queue) = {}
    <2>1. \A e \in Events(queue) : e \in Nat
      BY <1>3, <1>4
    <2>2. \A e \in Events(queue) : ~ (e < e)
      BY <2>1
    <2> QED
      BY <1>2, <2>2 DEF EventsInv, Before
  <1>8. wpc' = "callback" =>
          /\ batch' # <<>> /\ Head(batch') \in Kept'
          /\ \A k \in Kept' : k < Head(batch') => k \in Events(delivered)'
    <2>1. SUFFICES ASSUME wpc = "callback" PROVE Head(batch) \in Kept'
      BY <1>1, <1>2, <1>4, <1>6 DEF EventsInv
    <2>2. batch \in Seq(Nat) /\ batch # <<>> /\ Head(batch) \in Kept /\ Increasing(batch)
      BY <1>2, <2>1, SeqTypes DEF EventsInv, IInv
    <2>3. Head(batch) \in Events(batch)
      <3>1. Head(batch) # Overflow
        BY <2>2 DEF Kept, Overflow
      <3> QED
        BY <2>2, <3>1, HeadEvent
    <2> QED
      BY <1>4, <1>7, <2>2, <2>3
  <1>9. Before(delivered, batch)' /\ Before(batch, queue)' /\ Before(delivered, queue)'
    BY <1>2, <1>5, <1>6 DEF EventsInv, Before
  <1>10. Increasing(delivered)' /\ Increasing(batch)'
    BY <1>1, <1>2 DEF EventsInv
  <1>11. running' /\ ~failed' => Events(delivered)' \cup Events(batch)' \cup Events(queue)' = Kept'
    BY <1>1, <1>2, <1>4, <1>5, <1>6, <1>7 DEF EventsInv
  <1>12. Events(delivered)' \subseteq Kept' /\ \A e \in Events(delivered)', k \in Kept' : k < e => k \in Events(delivered)'
    BY <1>2, <1>4, <1>6, <1>7 DEF EventsInv
  <1> QED
    BY <1>1, <1>2, <1>4, <1>5, <1>6, <1>8, <1>9, <1>10, <1>11, <1>12 DEF EventsInv

(* A completed read brings the worker what is in the queue.                  *)
LEMMA CompleteEvents ==
    ASSUME IInv, os = "windows", Complete
    PROVE  EventsInv'
  <1>1. /\ batch = <<>> /\ queue # <<>> /\ queue' = <<>> /\ wpc # "callback"
        /\ batch' = IF queue = <<Overflow>> THEN <<>> ELSE queue
        /\ UNCHANGED <<running, wpc, recording, history>>
    BY DEF Complete, IInv, WindowsInv, CallsInv, EventsInv, InFlight, calls
  <1>2. EventsInv /\ queue \in Seq(Nat)
    BY SeqTypes DEF IInv
  <1>3. CASE queue = <<Overflow>>
    <2>1. Events(queue) = {}
      BY <1>3 DEF Events
    <2>2. Events(queue)' = {} /\ Events(batch)' = {} /\ Events(batch) = {} /\ Increasing(queue)' /\ Increasing(batch)'
      BY <1>1, <1>3, EventsOfEmpty
    <2>3. Kept' = Kept /\ Events(delivered)' = Events(delivered) /\ Increasing(delivered)'
      BY <1>1, <1>2 DEF Kept, history, EventsInv
    <2> QED
      BY <1>1, <1>2, <2>1, <2>2, <2>3 DEF EventsInv, Before, history
  <1>4. CASE queue # <<Overflow>>
    <2>1. /\ Len(queue) \in 0 .. Len(queue) /\ SubSeq(queue, 1, Len(queue)) = queue
          /\ SubSeq(queue, Len(queue) + 1, Len(queue)) = <<>>
      BY <1>2
    <2>2. batch' = SubSeq(queue, 1, Len(queue)) /\ queue' = SubSeq(queue, Len(queue) + 1, Len(queue))
      BY <1>1, <1>4, <2>1
    <2> QED
      BY <1>1, <2>1, <2>2, ReadEventsEvents
  <1> QED
    BY <1>3, <1>4

(* The steps on Windows keep the events in order.                            *)
LEMMA WindowsEvents ==
    ASSUME IInv, os = "windows", WindowsStep
    PROVE  EventsInv'
  <1>1. EventsInv /\ CallsInv /\ WindowsInv
    BY DEF IInv
  <1>2. CASE WindowsCalls
    <2>1. CASE Start
      BY <1>1, <2>1, StartEvents DEF Start, WindowsInv, Unused
    <2>2. CASE Stop
      BY <1>1, <2>2, KeepEvents DEF Stop, thread, system, history
    <2> QED
      BY <1>2, <2>1, <2>2 DEF WindowsCalls
  <1>3. CASE CreateFile \/ CreateEvents \/ SpawnThrows
    BY <1>1, <1>3, KeepEvents DEF CreateFile, CreateEvents, GiveUp, SpawnThrows, thread, system, history
  <1>4. CASE SignalStop \/ CancelIo
    BY <1>1, <1>4, KeepEvents DEF SignalStop, CancelIo, thread, system, history
  <1>5. CASE CloseHandles
    BY <1>1, <1>5, KeepEvents DEF CloseHandles, CallsInv, Stopping, thread, history
  <1>6. CASE JoinThread \/ (Spawn /\ UNCHANGED windows)
    BY <1>1, <1>6, KeepEvents DEF JoinThread, Join, Spawn, CallsInv, Starting, Stopping, system, history
  <1>7. CASE IssueRead
    <2>1. batch = <<>>
      BY <1>1, <1>7 DEF IssueRead, CallsInv
    <2>2. CASE WorkerGivesUp /\ UNCHANGED recording
      BY <1>1, <1>7, <2>2, KeepEvents DEF IssueRead, WorkerGivesUp, calls
    <2>3. CASE UNCHANGED history /\ wpc' = "wait"
      BY <1>1, <1>7, <2>1, <2>3, RecordingBegins DEF IssueRead, calls
    <2> QED
      BY <1>7, <2>2, <2>3 DEF IssueRead
  <1>8. CASE Wait \/ Woken \/ GetResult \/ (LoopTest /\ UNCHANGED windows)
    BY <1>1, <1>8, KeepEvents DEF Wait, Woken, GetResult, LoopTest, WorkerGivesUp, calls, system, history
  <1>9. CASE NextEntry
    <2>1. CASE batch # <<>> /\ running
      <3>1. Head(batch) # Overflow
        BY <1>1, <2>1, SeqTypes DEF WindowsInv, IInv
      <3> QED
        BY <1>9, <2>1, <3>1, TakeEvent DEF NextEntry, calls, system
    <2>2. CASE batch = <<>> \/ ~running
      BY <1>1, <1>9, <2>2, KeepEvents DEF NextEntry, calls, system, history
    <2> QED
      BY <2>1, <2>2
  <1>10. CASE Complete
    BY <1>10, CompleteEvents
  <1>11. CASE Abort
    BY <1>1, <1>11, KeepEvents DEF Abort, shared, calls, thread, system, history
  <1> QED
    BY <1>2, <1>3, <1>4, <1>5, <1>6, <1>7, <1>8, <1>9, <1>10, <1>11,
       CallbackEvents, RecordEvents, OverflowEvents
    DEF WindowsStep, WindowsOwner, WindowsWorker, WindowsSystem, WindowsOthers

(* ------------------------------- invariance ----------------------------- *)

(* Every step keeps the invariant.                                           *)
LEMMA NextIInv ==
    ASSUME IInv, [Next]_vars
    PROVE  IInv'
  <1>1. CASE os = "linux" /\ os' = os /\ LinuxStep
    BY <1>1, LinuxTypes, LinuxCallsInv, LinuxEvents, LinuxDescriptors DEF IInv
  <1>2. CASE os = "windows" /\ os' = os /\ WindowsStep
    BY <1>2, WindowsTypes, WindowsCallsInv, WindowsEvents, WindowsHandles DEF IInv
  <1>3. CASE UNCHANGED vars
    <2> USE DEF vars, shared, calls, thread, system, history, linux, windows
    <2>1. TypeOK' /\ CallsInv'
      BY <1>3 DEF IInv, TypeOK, CallsTypeOK, LinuxTypeOK, WindowsTypeOK, CallsInv, Starting,
                  Stopping, Unused
    <2>2. EventsInv'
      BY <1>3 DEF IInv, EventsInv, Events, Kept, Increasing, Before
    <2>3. os = "linux" => LinuxInv'
      BY <1>3 DEF IInv, LinuxInv, Holding, Unused, Starting, Stopping
    <2>4. os = "windows" => WindowsInv'
      BY <1>3 DEF IInv, WindowsInv, Unused, NoHandles, AllHandles, InFlight
    <2> QED
      BY <1>3, <2>1, <2>2, <2>3, <2>4 DEF IInv
  <1> QED
    BY <1>1, <1>2, <1>3
    DEF Next, OwnerStep, WorkerStep, SystemStep, LinuxStep, WindowsStep, vars

(* The inductive invariant holds in every state, on both systems.           *)
THEOREM Invariance == Spec => []IInv
  BY InitIInv, NextIInv, PTL DEF Spec

(* The variables keep their types: positions of calls and threads, numbers  *)
(* of descriptors, handles, events and the bounds on them.                  *)
THEOREM TypeCorrect == Spec => []TypeOK
  <1>1. IInv => TypeOK
    BY DEF IInv
  <1> QED
    BY <1>1, Invariance, PTL

(* No worker is left when stop has returned, and the std::thread that start *)
(* assigns to is not joinable.                                              *)
THEOREM NoneLeftWorking == Spec => []NoWorkerAfterStop
  <1>1. IInv => NoWorkerAfterStop
    BY DEF IInv, CallsInv, NoWorkerAfterStop, Starting, Unused
  <1> QED
    BY <1>1, Invariance, PTL

(* The worker stays in its loop until it is told to stop, or a call of its  *)
(* fails.                                                                   *)
THEOREM KeepsWatching == Spec => []WatchesUntilStopped
  <1>1. IInv => WatchesUntilStopped
    BY DEF IInv, CallsInv, WatchesUntilStopped
  <1> QED
    BY <1>1, Invariance, PTL

(* start and stop close what is theirs, all of it, and nothing in use.      *)
THEOREM OwnHandlesOnly == Spec => []ClosesItsOwn
  <1>1. IInv => ClosesItsOwn
    <2> SUFFICES ASSUME IInv PROVE ClosesItsOwn
      OBVIOUS
    <2>1. CASE os = "linux"
      BY <2>1 DEF IInv, TypeOK, LinuxTypeOK, CallsInv, LinuxInv, Holding, Unused, Starting, Stopping,
                  ClosesItsOwn, LinuxClosesItsOwn
    <2>2. CASE os = "windows"
      BY <2>2 DEF IInv, TypeOK, WindowsTypeOK, CallsInv, WindowsInv, NoHandles, AllHandles, InFlight,
                  Unused, Starting, Stopping, ClosesItsOwn, WindowsClosesItsOwn
    <2> QED
      BY <2>1, <2>2 DEF IInv
  <1> QED
    BY <1>1, Invariance, PTL

(* The callback is given the events of the watch in their order, none twice *)
(* and none left out, and those it has not got are still to come.           *)
THEOREM DeliveredInOrder == Spec => []EventsInOrder
  <1>1. IInv => EventsInOrder
    <2> SUFFICES ASSUME IInv PROVE EventsInOrder
      OBVIOUS
    <2>1. EventsInv /\ delivered \in Seq(Nat) /\ batch \in Seq(Nat) /\ queue \in Seq(Nat)
      BY SeqTypes DEF IInv
    <2>2. ToSet(delivered) = Events(delivered)
      BY <2>1 DEF EventsInv, Events, ToSet
    <2> DEFINE got == delivered \o batch
    <2>3. got \in Seq(Nat) /\ Increasing(got) /\ Events(got) = Events(delivered) \cup Events(batch)
      BY <2>1, JoinEvents DEF EventsInv
    <2> HIDE DEF got
    <2>4. Before(got, queue)
      BY <2>1, <2>3 DEF EventsInv, Before
    <2>5. Increasing(got \o queue) /\ Events(got \o queue) = Events(got) \cup Events(queue)
      BY <2>1, <2>3, <2>4, JoinEvents DEF EventsInv
    <2>6. running /\ ~failed => Events(got \o queue) = Kept
      BY <2>1, <2>3, <2>5 DEF EventsInv
    <2> QED
      BY <2>1, <2>2, <2>5, <2>6 DEF EventsInOrder, EventsInv, got
  <1> QED
    BY <1>1, Invariance, PTL
=============================================================================
