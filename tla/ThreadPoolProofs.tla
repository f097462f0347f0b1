-------------------------- MODULE ThreadPoolProofs --------------------------
(* Proofs that the pool loses, doubles and forgets no task, for any number  *)
(* of workers, clients and tasks.                                           *)
EXTENDS ThreadPool, SequenceTheorems, TLAPS

USE ThreadPoolAssumption

(* A push continues the numbering of a sequence of tasks.                   *)
LEMMA NumberedAppend ==
    ASSUME NEW s \in Seq(Tasks), NEW base \in Nat, NEW e \in Tasks,
           \A k \in 1 .. Len(s) : s[k] = base + k,
           e = base + Len(s) + 1
    PROVE  \A k \in 1 .. Len(s) + 1 : Append(s, e)[k] = base + k
  <1>1. Len(s) \in Nat
    OBVIOUS
  <1> SUFFICES ASSUME NEW k \in 1 .. Len(s) + 1 PROVE Append(s, e)[k] = base + k
    OBVIOUS
  <1>2. CASE k = Len(s) + 1
    BY <1>1, <1>2, AppendProperties
  <1>3. CASE k \in 1 .. Len(s)
    BY <1>1, <1>3, AppendProperties
  <1> QED
    BY <1>1, <1>2, <1>3

(* The invariant holds at first.                                             *)
LEMMA InitIInv == Init => IInv
  <1> SUFFICES ASSUME Init PROVE IInv
    OBVIOUS
  <1>1. TypeOK
    <2>1. <<>> \in Seq(Tasks) /\ {} \in SUBSET Tasks
      OBVIOUS
    <2> QED
      BY <2>1 DEF Init, TypeOK
  <1> QED
    BY <1>1 DEF Init, IInv, QueueInv, TaskInv, LifeInv, DrainInv, NoLostWakeup

(* A step of the pool is a step of one of its actions, or nothing changes.  *)
LEMMA Steps ==
    ASSUME [Next]_vars, NEW P,
           \A c \in Clients : Construct(c) => P,
           \A c \in Clients, w \in Workers : Spawn(c, w) => P,
           \A c \in Clients : Constructed(c) => P,
           \A c \in Clients : GetPool(c) => P,
           \A c \in Clients : Push(c) => P,
           \A c \in Clients : NotifyOne(c) => P,
           \A c \in Clients : Drop(c) => P,
           \A w \in Workers : Wait(w) => P,
           \A w \in Workers : SpuriousWakeup(w) => P,
           \A w \in Workers : Take(w) => P,
           \A w \in Workers : Run(w) => P,
           \A w \in Workers : Exit(w) => P,
           SetStop => P, NotifyAll => P, Joined => P,
           UNCHANGED vars => P
    PROVE  P
  BY DEF Next, SubmitStep, WorkerStep

(* Every step keeps the types,                                               *)
LEMMA TypeStep ==
    ASSUME IInv, [Next]_vars
    PROVE  TypeOK'
  <1> USE DEF IInv, TypeOK, Tasks, history
  <1>1. \A c \in Clients : Construct(c) => TypeOK'
    BY DEF Construct
  <1>2. \A c \in Clients, w \in Workers : Spawn(c, w) => TypeOK'
    BY DEF Spawn
  <1>3. \A c \in Clients : Constructed(c) => TypeOK'
    BY DEF Constructed
  <1>4. \A c \in Clients : GetPool(c) => TypeOK'
    BY DEF GetPool
  <1>5. \A c \in Clients : Push(c) => TypeOK'
    <2> SUFFICES ASSUME NEW c \in Clients, Push(c) PROVE TypeOK'
      OBVIOUS
    <2> DEFINE k == Len(submitted) + 1
    <2>1. k \in Tasks
      BY DEF Push
    <2>2. tasks' \in Seq(Tasks) /\ submitted' \in Seq(Tasks)
      BY <2>1 DEF Push
    <2>3. accepted' \in SUBSET Tasks
      BY <2>1 DEF Push
    <2> QED
      BY <2>2, <2>3 DEF Push
  <1>6. \A c \in Clients : NotifyOne(c) => TypeOK'
    BY DEF NotifyOne
  <1>7. \A c \in Clients : Drop(c) => TypeOK'
    BY DEF Drop
  <1>8. \A w \in Workers : Wait(w) => TypeOK'
    BY DEF Wait
  <1>9. \A w \in Workers : SpuriousWakeup(w) => TypeOK'
    BY DEF SpuriousWakeup
  <1>10. \A w \in Workers : Take(w) => TypeOK'
    BY DEF Take
  <1>11. \A w \in Workers : Run(w) => TypeOK'
    <2> SUFFICES ASSUME NEW w \in Workers, Run(w) PROVE TypeOK'
      OBVIOUS
    <2>1. running[w] \in Tasks
      BY DEF Run, TaskInv
    <2> QED
      BY <2>1 DEF Run
  <1>12. \A w \in Workers : Exit(w) => TypeOK'
    BY DEF Exit
  <1>13. SetStop => TypeOK'
    BY DEF SetStop
  <1>14. NotifyAll => TypeOK'
    BY DEF NotifyAll
  <1>15. Joined => TypeOK'
    BY DEF Joined
  <1>16. UNCHANGED vars => TypeOK'
    BY DEF vars
  <1> QED
    BY <1>1, <1>2, <1>3, <1>4, <1>5, <1>6, <1>7, <1>8, <1>9, <1>10, <1>11, <1>12, <1>13, <1>14, <1>15, <1>16, Steps

(* the order of the tasks taken and those queued,                            *)
LEMMA QueueStep ==
    ASSUME IInv, [Next]_vars
    PROVE  QueueInv'
  <1> USE DEF IInv, QueueInv, TypeOK, Tasks, history
  <1>1. \A c \in Clients : Construct(c) => QueueInv'
    BY DEF Construct
  <1>2. \A c \in Clients, w \in Workers : Spawn(c, w) => QueueInv'
    BY DEF Spawn
  <1>3. \A c \in Clients : Constructed(c) => QueueInv'
    BY DEF Constructed
  <1>4. \A c \in Clients : GetPool(c) => QueueInv'
    BY DEF GetPool
  <1>5. \A c \in Clients : Push(c) => QueueInv'
    <2> SUFFICES ASSUME NEW c \in Clients, Push(c) PROVE QueueInv'
      OBVIOUS
    <2> DEFINE k == Len(submitted) + 1
    <2>1. submitted' = Append(submitted, k) /\ tasks' = Append(tasks, k) /\ started' = started
      BY DEF Push
    <2>2. Len(submitted') = k /\ Len(tasks') = Len(tasks) + 1 /\ k <= MaxTasks
      BY <2>1 DEF Push
    <2>5. k \in Tasks /\ submitted \in Seq(Tasks) /\ tasks \in Seq(Tasks)
      BY <2>2
    <2>3. \A j \in 1 .. k : submitted'[j] = j
      BY <2>1, <2>5, AppendProperties
    <2>4. \A j \in 1 .. Len(tasks) + 1 : tasks'[j] = Len(started) + j
      <3>1. Len(started) \in Nat /\ k = Len(started) + Len(tasks) + 1
        OBVIOUS
      <3>2. \A j \in 1 .. Len(tasks) : tasks[j] = Len(started) + j
        OBVIOUS
      <3> HIDE DEF k, IInv, QueueInv, TypeOK
      <3> QED
        BY <3>1, <3>2, <2>1, <2>5, NumberedAppend
    <2> QED
      BY <2>1, <2>2, <2>3, <2>4
  <1>6. \A c \in Clients : NotifyOne(c) => QueueInv'
    BY DEF NotifyOne
  <1>7. \A c \in Clients : Drop(c) => QueueInv'
    BY DEF Drop
  <1>8. \A w \in Workers : Wait(w) => QueueInv'
    BY DEF Wait
  <1>9. \A w \in Workers : SpuriousWakeup(w) => QueueInv'
    BY DEF SpuriousWakeup
  <1>10. \A w \in Workers : Take(w) => QueueInv'
    <2> SUFFICES ASSUME NEW w \in Workers, Take(w) PROVE QueueInv'
      OBVIOUS
    <2> DEFINE k == Len(started) + 1
    <2>1. Head(tasks) = k /\ Len(tasks) > 0 /\ Len(tasks') = Len(tasks) - 1
      BY SMTT(30) DEF Take
    <2>2. started' = Append(started, k) /\ Len(started') = k
      BY <2>1 DEF Take
    <2>3. \A j \in 1 .. k : started'[j] = j
      BY <2>2
    <2>4. \A j \in 1 .. Len(tasks') : tasks'[j] = k + j
      BY <2>1 DEF Take
    <2>5. submitted' = submitted /\ Len(submitted) = Len(started') + Len(tasks')
      BY <2>1, <2>2 DEF Take
    <2> QED
      BY <2>1, <2>2, <2>3, <2>4, <2>5
  <1>11. \A w \in Workers : Run(w) => QueueInv'
    BY DEF Run
  <1>12. \A w \in Workers : Exit(w) => QueueInv'
    BY DEF Exit
  <1>13. SetStop => QueueInv'
    BY DEF SetStop
  <1>14. NotifyAll => QueueInv'
    BY DEF NotifyAll
  <1>15. Joined => QueueInv'
    BY DEF Joined
  <1>16. UNCHANGED vars => QueueInv'
    BY DEF vars
  <1> QED
    BY <1>1, <1>2, <1>3, <1>4, <1>5, <1>6, <1>7, <1>8, <1>9, <1>10, <1>11, <1>12, <1>13, <1>14, <1>15, <1>16, Steps

(* the place of every task taken,                                            *)
LEMMA TaskStep ==
    ASSUME IInv, [Next]_vars
    PROVE  TaskInv'
  <1> USE DEF IInv, TaskInv, QueueInv, TypeOK, Tasks, history
  <1>1. \A c \in Clients : Construct(c) => TaskInv'
    BY DEF Construct
  <1>2. \A c \in Clients, w \in Workers : Spawn(c, w) => TaskInv'
    BY DEF Spawn
  <1>3. \A c \in Clients : Constructed(c) => TaskInv'
    BY DEF Constructed
  <1>4. \A c \in Clients : GetPool(c) => TaskInv'
    BY DEF GetPool
  <1>5. \A c \in Clients : Push(c) => TaskInv'
    BY DEF Push
  <1>6. \A c \in Clients : NotifyOne(c) => TaskInv'
    BY DEF NotifyOne
  <1>7. \A c \in Clients : Drop(c) => TaskInv'
    BY DEF Drop
  <1>8. \A w \in Workers : Wait(w) => TaskInv'
    BY DEF Wait
  <1>9. \A w \in Workers : SpuriousWakeup(w) => TaskInv'
    BY DEF SpuriousWakeup
  <1>10. \A w \in Workers : Take(w) => TaskInv'
    <2> SUFFICES ASSUME NEW w \in Workers, Take(w) PROVE TaskInv'
      OBVIOUS
    <2> DEFINE k == Len(started) + 1
    <2>1. Head(tasks) = k /\ Len(tasks) > 0 /\ Len(tasks') = Len(tasks) - 1
      BY SMTT(30) DEF Take
    <2>2. started' = Append(started, k) /\ Len(started') = k
      BY <2>1 DEF Take
    <2>3. running' = [running EXCEPT ![w] = k] /\ ready' = ready
      BY <2>1 DEF Take
    <2>4. \A j \in 1 .. k : j \in ready \/ \E v \in Workers : running'[v] = j
      <3> SUFFICES ASSUME NEW j \in 1 .. k, j \notin ready
                   PROVE  \E v \in Workers : running'[v] = j
        OBVIOUS
      <3>1. CASE j = k
        BY <3>1, <2>3
      <3>2. CASE j # k
        <4>1. PICK v \in Workers : running[v] = j
          BY <3>2, j \in 1 .. Len(started)
        <4>2. running[w] = 0
          BY DEF Take
        <4> QED
          BY <4>1, <4>2, <2>3
      <3> QED
        BY <3>1, <3>2
    <2>5. \A v \in Workers : running'[v] # 0 <=> wpc'[v] = "running"
      BY <2>3 DEF Take
    <2>6. \A v \in Workers : running'[v] <= k /\ running'[v] \notin ready
      <3>1. k \notin ready
        OBVIOUS
      <3> QED
        BY <3>1, <2>3
    <2>7. \A u, v \in Workers : running'[u] = running'[v] /\ running'[u] # 0 => u = v
      BY SMTT(30), <2>3
    <2> QED
      BY <2>2, <2>3, <2>4, <2>5, <2>6, <2>7
  <1>11. \A w \in Workers : Run(w) => TaskInv'
    <2> SUFFICES ASSUME NEW w \in Workers, Run(w) PROVE TaskInv'
      OBVIOUS
    <2>1. /\ running' = [running EXCEPT ![w] = 0]
          /\ ready' = ready \cup {running[w]}
          /\ started' = started
          /\ running[w] \in 1 .. Len(started)
      BY DEF Run
    <2>2. \A k \in 1 .. Len(started) : k \in ready' \/ \E v \in Workers : running'[v] = k
      <3> SUFFICES ASSUME NEW k \in 1 .. Len(started), k \notin ready'
                   PROVE  \E v \in Workers : running'[v] = k
        OBVIOUS
      <3>1. PICK v \in Workers : running[v] = k
        BY <2>1
      <3> QED
        BY <3>1, <2>1
    <2>3. \A v \in Workers : running'[v] # 0 <=> wpc'[v] = "running"
      BY <2>1 DEF Run
    <2>4. \A v \in Workers : running'[v] <= Len(started) /\ running'[v] \notin ready'
      BY <2>1
    <2>5. \A u, v \in Workers : running'[u] = running'[v] /\ running'[u] # 0 => u = v
      BY <2>1
    <2> QED
      BY <2>1, <2>2, <2>3, <2>4, <2>5
  <1>12. \A w \in Workers : Exit(w) => TaskInv'
    BY DEF Exit
  <1>13. SetStop => TaskInv'
    BY DEF SetStop
  <1>14. NotifyAll => TaskInv'
    BY DEF NotifyAll
  <1>15. Joined => TaskInv'
    BY DEF Joined
  <1>16. UNCHANGED vars => TaskInv'
    BY DEF vars
  <1> QED
    BY <1>1, <1>2, <1>3, <1>4, <1>5, <1>6, <1>7, <1>8, <1>9, <1>10, <1>11, <1>12, <1>13, <1>14, <1>15, <1>16, Steps

(* what the threads' places say about the life of the pool,                  *)
LEMMA LifeStep ==
    ASSUME IInv, [Next]_vars
    PROVE  LifeInv'
  <1> USE DEF IInv, LifeInv, TypeOK, history
  <1>1. \A c \in Clients : Construct(c) => LifeInv'
    BY DEF Construct
  <1>2. \A c \in Clients, w \in Workers : Spawn(c, w) => LifeInv'
    BY DEF Spawn
  <1>3. \A c \in Clients : Constructed(c) => LifeInv'
    BY DEF Constructed
  <1>4. \A c \in Clients : GetPool(c) => LifeInv'
    BY DEF GetPool
  <1>5. \A c \in Clients : Push(c) => LifeInv'
    BY DEF Push
  <1>6. \A c \in Clients : NotifyOne(c) => LifeInv'
    BY DEF NotifyOne
  <1>7. \A c \in Clients : Drop(c) => LifeInv'
    BY DEF Drop
  <1>8. \A w \in Workers : Wait(w) => LifeInv'
    BY DEF Wait
  <1>9. \A w \in Workers : SpuriousWakeup(w) => LifeInv'
    BY DEF SpuriousWakeup
  <1>10. \A w \in Workers : Take(w) => LifeInv'
    BY DEF Take
  <1>11. \A w \in Workers : Run(w) => LifeInv'
    BY DEF Run
  <1>12. \A w \in Workers : Exit(w) => LifeInv'
    BY DEF Exit
  <1>13. SetStop => LifeInv'
    BY DEF SetStop
  <1>14. NotifyAll => LifeInv'
    BY DEF NotifyAll
  <1>15. Joined => LifeInv'
    BY DEF Joined
  <1>16. UNCHANGED vars => LifeInv'
    BY DEF vars
  <1> QED
    BY <1>1, <1>2, <1>3, <1>4, <1>5, <1>6, <1>7, <1>8, <1>9, <1>10, <1>11, <1>12, <1>13, <1>14, <1>15, <1>16, Steps

(* that a worker leaves only behind an empty queue,                          *)
LEMMA DrainStep ==
    ASSUME IInv, [Next]_vars
    PROVE  DrainInv'
  <1> USE DEF IInv, DrainInv, QueueInv, LifeInv, TypeOK, history
  <1>1. \A c \in Clients : Construct(c) => DrainInv'
    BY DEF Construct
  <1>2. \A c \in Clients, w \in Workers : Spawn(c, w) => DrainInv'
    BY DEF Spawn
  <1>3. \A c \in Clients : Constructed(c) => DrainInv'
    BY DEF Constructed
  <1>4. \A c \in Clients : GetPool(c) => DrainInv'
    BY DEF GetPool
  <1>5. \A c \in Clients : Push(c) => DrainInv'
    <2> SUFFICES ASSUME NEW c \in Clients, Push(c) PROVE DrainInv'
      OBVIOUS
    <2>1. Len(submitted') = Len(submitted) + 1 /\ started' = started /\ wpc' = wpc
      BY DEF Push
    <2>2. accepted' \subseteq 1 .. Len(submitted')
      <3>1. accepted' \subseteq accepted \cup {Len(submitted) + 1}
        BY DEF Push
      <3>2. 1 .. Len(submitted) \cup {Len(submitted) + 1} \subseteq 1 .. Len(submitted')
        BY <2>1
      <3> QED
        BY <3>1, <3>2
    <2>3. ASSUME NEW w \in Workers, wpc[w] = "exited" PROVE accepted' = accepted
      BY <2>3 DEF Push
    <2> QED
      BY <2>1, <2>2, <2>3
  <1>6. \A c \in Clients : NotifyOne(c) => DrainInv'
    BY DEF NotifyOne
  <1>7. \A c \in Clients : Drop(c) => DrainInv'
    BY DEF Drop
  <1>8. \A w \in Workers : Wait(w) => DrainInv'
    BY DEF Wait
  <1>9. \A w \in Workers : SpuriousWakeup(w) => DrainInv'
    BY DEF SpuriousWakeup
  <1>10. \A w \in Workers : Take(w) => DrainInv'
    BY DEF Take
  <1>11. \A w \in Workers : Run(w) => DrainInv'
    BY DEF Run
  <1>12. \A w \in Workers : Exit(w) => DrainInv'
    BY DEF Exit
  <1>13. SetStop => DrainInv'
    BY DEF SetStop
  <1>14. NotifyAll => DrainInv'
    BY DEF NotifyAll
  <1>15. Joined => DrainInv'
    BY DEF Joined
  <1>16. UNCHANGED vars => DrainInv'
    BY DEF vars
  <1> QED
    BY <1>1, <1>2, <1>3, <1>4, <1>5, <1>6, <1>7, <1>8, <1>9, <1>10, <1>11, <1>12, <1>13, <1>14, <1>15, <1>16, Steps

(* and that a worker is awake, or about to be woken, while a task is queued. *)
LEMMA WakeupStep ==
    ASSUME IInv, [Next]_vars
    PROVE  NoLostWakeup'
  <1> USE DEF IInv, NoLostWakeup, LifeInv, TypeOK, history
  <1>1. \A c \in Clients : Construct(c) => NoLostWakeup'
    BY DEF Construct
  <1>2. \A c \in Clients, w \in Workers : Spawn(c, w) => NoLostWakeup'
    BY DEF Spawn
  <1>3. \A c \in Clients : Constructed(c) => NoLostWakeup'
    BY DEF Constructed
  <1>4. \A c \in Clients : GetPool(c) => NoLostWakeup'
    BY DEF GetPool
  <1>5. \A c \in Clients : Push(c) => NoLostWakeup'
    BY DEF Push
  <1>6. \A c \in Clients : NotifyOne(c) => NoLostWakeup'
    BY DEF NotifyOne
  <1>7. \A c \in Clients : Drop(c) => NoLostWakeup'
    BY DEF Drop
  <1>8. \A w \in Workers : Wait(w) => NoLostWakeup'
    BY DEF Wait
  <1>9. \A w \in Workers : SpuriousWakeup(w) => NoLostWakeup'
    BY DEF SpuriousWakeup
  <1>10. \A w \in Workers : Take(w) => NoLostWakeup'
    BY DEF Take
  <1>11. \A w \in Workers : Run(w) => NoLostWakeup'
    BY DEF Run
  <1>12. \A w \in Workers : Exit(w) => NoLostWakeup'
    BY DEF Exit
  <1>13. SetStop => NoLostWakeup'
    BY DEF SetStop
  <1>14. NotifyAll => NoLostWakeup'
    BY DEF NotifyAll
  <1>15. Joined => NoLostWakeup'
    BY DEF Joined
  <1>16. UNCHANGED vars => NoLostWakeup'
    BY DEF vars
  <1> QED
    BY <1>1, <1>2, <1>3, <1>4, <1>5, <1>6, <1>7, <1>8, <1>9, <1>10, <1>11, <1>12, <1>13, <1>14, <1>15, <1>16, Steps

(* The inductive invariant holds in every state of every run.               *)
THEOREM Invariance == Spec => []IInv
  <1>1. IInv /\ [Next]_vars => IInv'
    BY TypeStep, QueueStep, TaskStep, LifeStep, DrainStep, WakeupStep DEF IInv
  <1> QED
    BY InitIInv, <1>1, PTL DEF Spec

(* Type correctness of the pool.                                            *)
THEOREM TypeCorrect == Spec => []TypeOK
  <1>1. IInv => TypeOK
    BY DEF IInv
  <1> QED
    BY Invariance, <1>1, PTL

(* Submit and the workers keep the queue: nothing is lost between the push  *)
(* of async.cpp's callers and the pop of a worker, and nothing overtakes.   *)
THEOREM NothingOvertakes == Spec => []QueueIsFifo
  <1>1. IInv => QueueIsFifo
    <2> SUFFICES ASSUME IInv PROVE QueueIsFifo
      OBVIOUS
    <2> USE DEF IInv, TypeOK, QueueInv
    <2>1. started \o tasks \in Seq(Tasks) /\ Len(started \o tasks) = Len(submitted)
      OBVIOUS
    <2>2. \A k \in 1 .. Len(submitted) : (started \o tasks)[k] = submitted[k]
      BY SMTT(30)
    <2> QED
      BY <2>1, <2>2 DEF QueueIsFifo
  <1> QED
    BY Invariance, <1>1, PTL

(* No task runs twice and none that a worker took is dropped.               *)
THEOREM EveryTaskRunsOnce == Spec => []RunsOnce
  <1>1. IInv => RunsOnce
    <2> SUFFICES ASSUME IInv PROVE RunsOnce
      OBVIOUS
    <2> USE DEF IInv, TypeOK, QueueInv, TaskInv
    <2>1. \A k \in 1 .. Len(started) :
            started[k] \in ready \/ \E w \in Workers : running[w] = started[k]
      OBVIOUS
    <2>2. \A w \in Workers : running[w] # 0 =>
            running[w] \notin ready /\ \A v \in Workers \ {w} : running[v] # running[w]
      OBVIOUS
    <2>3. \A k \in 1 .. Len(tasks) : tasks[k] \notin ready
      OBVIOUS
    <2> QED
      BY <2>1, <2>2, <2>3 DEF RunsOnce
  <1> QED
    BY Invariance, <1>1, PTL

(* notify_one after the unlock, with no worker waiting at that moment, is   *)
(* enough: a queued task always has a worker that will look at the queue.   *)
THEOREM WakeupsAreNotLost == Spec => []NoLostWakeup
  <1>1. IInv => NoLostWakeup
    BY DEF IInv
  <1> QED
    BY Invariance, <1>1, PTL

(* The destructor returns only after all work accepted before it has run.   *)
THEOREM DestructorDrains == Spec => []DrainedWhenGone
  <1>1. IInv => DrainedWhenGone
    <2> SUFFICES ASSUME IInv, pool = "gone", NEW k \in accepted PROVE k \in ready
      BY DEF DrainedWhenGone
    <2> USE DEF IInv
    <2>1. \A w \in Workers : wpc[w] = "exited" /\ running[w] = 0
      BY DEF LifeInv, TaskInv
    <2>2. k \in 1 .. Len(started)
      BY <2>1 DEF DrainInv, QueueInv, TypeOK
    <2> QED
      BY <2>1, <2>2 DEF TaskInv
  <1> QED
    BY Invariance, <1>1, PTL
=============================================================================
