---------------------------- MODULE ThreadPool ----------------------------
(* The pool behind asyncReadall and asyncWriteAll (async.cpp:7-59,          *)
(* internal.h:271-299): its lazy construction, Submit, the worker loop and  *)
(* the destructor that runs when the program ends.  A critical section of   *)
(* mutex_ is one action; what happens outside the lock is an action of its  *)
(* own, so notify_one comes after the lock is released, as in the code.     *)
EXTENDS Naturals, Sequences

CONSTANTS Workers,   \* threads of the pool
          Clients,   \* threads that call asyncReadall or asyncWriteAll
          MaxTasks   \* bound: tasks submitted in a run

ASSUME ThreadPoolAssumption == Workers # {} /\ MaxTasks \in Nat

VARIABLES
    pool,      \* the static of GetPool
    wpc,       \* worker -> where it is; "waiting" is blocked in cv_.wait
    running,   \* worker -> the task it runs, or 0
    tasks,     \* tasks_
    stop,      \* stop_
    cpc,       \* client -> where it is in Submit
    ready,     \* tasks whose future has its value
    submitted, \* history: all tasks, in the order they were pushed
    started,   \* history: all tasks, in the order workers took them
    accepted   \* history: the tasks pushed before stop_ was set

vars == <<pool, wpc, running, tasks, stop, cpc, ready, submitted, started, accepted>>
history == <<submitted, started, accepted>>

Tasks == 1 .. MaxTasks

Init ==
    /\ pool = "none"
    /\ wpc = [w \in Workers |-> "unborn"]
    /\ running = [w \in Workers |-> 0]
    /\ tasks = <<>>
    /\ stop = FALSE
    /\ cpc = [c \in Clients |-> "idle"]
    /\ ready = {}
    /\ submitted = <<>> /\ started = <<>> /\ accepted = {}

(* ------------------------------- clients ------------------------------- *)

(* The first call of GetPool constructs; later ones wait for the static.    *)
Construct(c) ==
    /\ pool = "none" /\ cpc[c] = "idle"
    /\ pool' = "building"
    /\ cpc' = [cpc EXCEPT ![c] = "building"]
    /\ UNCHANGED <<wpc, running, tasks, stop, ready, history>>

(* One emplace_back of the constructor: the worker starts at once.          *)
Spawn(c, w) ==
    /\ cpc[c] = "building" /\ wpc[w] = "unborn"
    /\ wpc' = [wpc EXCEPT ![w] = "awake"]
    /\ UNCHANGED <<pool, running, tasks, stop, cpc, ready, history>>

Constructed(c) ==
    /\ cpc[c] = "building" /\ \A w \in Workers : wpc[w] # "unborn"
    /\ pool' = "up"
    /\ cpc' = [cpc EXCEPT ![c] = "submit"]
    /\ UNCHANGED <<wpc, running, tasks, stop, ready, history>>

(* GetPool when the static exists, and also when its destructor has begun.  *)
GetPool(c) ==
    /\ pool \in {"up", "notifying", "joining"} /\ cpc[c] = "idle"
    /\ cpc' = [cpc EXCEPT ![c] = "submit"]
    /\ UNCHANGED <<pool, wpc, running, tasks, stop, ready, history>>

(* The locked part of Submit, which does not look at stop_.                 *)
Push(c) ==
    /\ cpc[c] = "submit" /\ pool # "gone"
    /\ Len(submitted) < MaxTasks
    /\ LET k == Len(submitted) + 1 IN
          /\ tasks' = Append(tasks, k)
          /\ submitted' = Append(submitted, k)
          /\ accepted' = IF stop THEN accepted ELSE accepted \cup {k}
    /\ cpc' = [cpc EXCEPT ![c] = "notify"]
    /\ UNCHANGED <<pool, wpc, running, stop, ready, started>>

(* Mutant of NotifyOne: no notification.                                    *)
NotifyNobody(c) ==
    /\ cpc[c] = "notify" /\ pool # "gone"
    /\ cpc' = [cpc EXCEPT ![c] = "holding"]
    /\ UNCHANGED <<pool, wpc, running, tasks, stop, ready, history>>

(* cv_.notify_one: some waiting worker, if there is one, is woken.          *)
NotifyOne(c) ==
    /\ cpc[c] = "notify" /\ pool # "gone"
    /\ IF \E w \in Workers : wpc[w] = "waiting"
       THEN \E w \in Workers : wpc[w] = "waiting" /\ wpc' = [wpc EXCEPT ![w] = "awake"]
       ELSE UNCHANGED wpc
    /\ cpc' = [cpc EXCEPT ![c] = "holding"]
    /\ UNCHANGED <<pool, running, tasks, stop, ready, history>>

(* The caller takes the result, or drops the future: it does not block.     *)
Drop(c) ==
    /\ cpc[c] = "holding"
    /\ cpc' = [cpc EXCEPT ![c] = "idle"]
    /\ UNCHANGED <<pool, wpc, running, tasks, stop, ready, history>>

(* ------------------------------- workers ------------------------------- *)

(* Mutant of Wait: cv_.wait without the predicate.                          *)
WaitWithoutPredicate(w) ==
    /\ wpc[w] = "awake" /\ ~stop
    /\ wpc' = [wpc EXCEPT ![w] = "waiting"]
    /\ UNCHANGED <<pool, running, tasks, stop, cpc, ready, history>>

(* In the lock, cv_.wait's predicate false: release the lock and block.     *)
Wait(w) ==
    /\ wpc[w] = "awake" /\ ~stop /\ tasks = <<>>
    /\ wpc' = [wpc EXCEPT ![w] = "waiting"]
    /\ UNCHANGED <<pool, running, tasks, stop, cpc, ready, history>>

SpuriousWakeup(w) ==
    /\ wpc[w] = "waiting"
    /\ wpc' = [wpc EXCEPT ![w] = "awake"]
    /\ UNCHANGED <<pool, running, tasks, stop, cpc, ready, history>>

(* Mutant of Take: the task pushed last is taken first.                     *)
TakeLast(w) ==
    /\ wpc[w] = "awake" /\ tasks # <<>>
    /\ wpc' = [wpc EXCEPT ![w] = "running"]
    /\ running' = [running EXCEPT ![w] = tasks[Len(tasks)]]
    /\ tasks' = SubSeq(tasks, 1, Len(tasks) - 1)
    /\ started' = Append(started, tasks[Len(tasks)])
    /\ UNCHANGED <<pool, stop, cpc, ready, submitted, accepted>>

(* Mutant of Take: the task is copied and not popped.                       *)
TakeWithoutPop(w) ==
    /\ wpc[w] = "awake" /\ tasks # <<>>
    /\ wpc' = [wpc EXCEPT ![w] = "running"]
    /\ running' = [running EXCEPT ![w] = Head(tasks)]
    /\ started' = Append(started, Head(tasks))
    /\ UNCHANGED <<pool, tasks, stop, cpc, ready, submitted, accepted>>

(* In the lock, predicate true, tasks_ not empty.                           *)
Take(w) ==
    /\ wpc[w] = "awake" /\ tasks # <<>>
    /\ wpc' = [wpc EXCEPT ![w] = "running"]
    /\ running' = [running EXCEPT ![w] = Head(tasks)]
    /\ tasks' = Tail(tasks)
    /\ started' = Append(started, Head(tasks))
    /\ UNCHANGED <<pool, stop, cpc, ready, submitted, accepted>>

(* task() outside the lock: the packaged_task makes its future ready.       *)
Run(w) ==
    /\ wpc[w] = "running"
    /\ ready' = ready \cup {running[w]}
    /\ running' = [running EXCEPT ![w] = 0]
    /\ wpc' = [wpc EXCEPT ![w] = "awake"]
    /\ UNCHANGED <<pool, tasks, stop, cpc, history>>

(* Mutant of Exit: a stopped worker leaves whatever is queued.              *)
ExitAtOnce(w) ==
    /\ wpc[w] = "awake" /\ stop
    /\ wpc' = [wpc EXCEPT ![w] = "exited"]
    /\ UNCHANGED <<pool, running, tasks, stop, cpc, ready, history>>

Exit(w) ==
    /\ wpc[w] = "awake" /\ stop /\ tasks = <<>>
    /\ wpc' = [wpc EXCEPT ![w] = "exited"]
    /\ UNCHANGED <<pool, running, tasks, stop, cpc, ready, history>>

(* ------------------------------ destructor ----------------------------- *)

SetStop ==
    /\ pool = "up"
    /\ stop' = TRUE
    /\ pool' = "notifying"
    /\ UNCHANGED <<wpc, running, tasks, cpc, ready, history>>

(* Mutant of NotifyAll: only one worker is told.                            *)
StopNotifiesOne ==
    /\ pool = "notifying"
    /\ IF \E w \in Workers : wpc[w] = "waiting"
       THEN \E w \in Workers : wpc[w] = "waiting" /\ wpc' = [wpc EXCEPT ![w] = "awake"]
       ELSE UNCHANGED wpc
    /\ pool' = "joining"
    /\ UNCHANGED <<running, tasks, stop, cpc, ready, history>>

NotifyAll ==
    /\ pool = "notifying"
    /\ wpc' = [w \in Workers |-> IF wpc[w] = "waiting" THEN "awake" ELSE wpc[w]]
    /\ pool' = "joining"
    /\ UNCHANGED <<running, tasks, stop, cpc, ready, history>>

(* Mutant of Joined: the threads are detached.                              *)
Detached ==
    /\ pool = "joining"
    /\ pool' = "gone"
    /\ UNCHANGED <<wpc, running, tasks, stop, cpc, ready, history>>

(* Every join has returned; the members are destroyed.                      *)
Joined ==
    /\ pool = "joining" /\ \A w \in Workers : wpc[w] = "exited"
    /\ pool' = "gone"
    /\ UNCHANGED <<wpc, running, tasks, stop, cpc, ready, history>>

WorkerStep(w) == Wait(w) \/ Take(w) \/ Run(w) \/ Exit(w)
SubmitStep(c) ==
    \/ \E w \in Workers : Spawn(c, w)
    \/ Constructed(c) \/ Push(c) \/ NotifyOne(c)

Next ==
    \/ \E c \in Clients : Construct(c) \/ GetPool(c) \/ SubmitStep(c) \/ Drop(c)
    \/ \E w \in Workers : WorkerStep(w) \/ SpuriousWakeup(w)
    \/ SetStop \/ NotifyAll \/ Joined

Spec == Init /\ [][Next]_vars

(* A thread that can run does: workers (the tasks are finite file calls),   *)
(* a client inside Submit, the destructor once it has begun.  Nobody has to *)
(* call, to end the program, or to be woken without reason.                 *)
FairSpec ==
    /\ Spec
    /\ \A w \in Workers : WF_vars(WorkerStep(w))
    /\ \A c \in Clients : WF_vars(SubmitStep(c))
    /\ WF_vars(NotifyAll) /\ WF_vars(Joined)

(* ------------------------------ properties ----------------------------- *)

TypeOK ==
    /\ pool \in {"none", "building", "up", "notifying", "joining", "gone"}
    /\ wpc \in [Workers -> {"unborn", "awake", "waiting", "running", "exited"}]
    /\ running \in [Workers -> Tasks \cup {0}]
    /\ tasks \in Seq(Tasks)
    /\ stop \in BOOLEAN
    /\ cpc \in [Clients -> {"idle", "building", "submit", "notify", "holding"}]
    /\ ready \in SUBSET Tasks
    /\ submitted \in Seq(Tasks) /\ started \in Seq(Tasks)
    /\ accepted \in SUBSET Tasks

(* No task is lost, doubled or overtaken in the queue: workers have taken a *)
(* first part of what was submitted, in that order, and the rest is queued. *)
QueueIsFifo == submitted = started \o tasks

(* A task is run by one worker, once: it is queued, or running at exactly   *)
(* one worker, or its future is ready, and never two of these.              *)
RunsOnce ==
    /\ \A k \in 1 .. Len(started) :
          started[k] \in ready \/ \E w \in Workers : running[w] = started[k]
    /\ \A w \in Workers : running[w] # 0 =>
          running[w] \notin ready /\ \A v \in Workers \ {w} : running[v] # running[w]
    /\ \A k \in 1 .. Len(tasks) : tasks[k] \notin ready

(* No lost wakeup: when a task is queued and nobody is stopping the pool,   *)
(* some worker is not asleep or a notification is on its way.               *)
NoLostWakeup ==
    tasks # <<>> /\ ~stop =>
        \/ \E w \in Workers : wpc[w] \in {"awake", "running"}
        \/ \E c \in Clients : cpc[c] = "notify"

(* The destructor drains: when the joins have returned, every task pushed   *)
(* before stop_ was set has run.                                            *)
DrainedWhenGone == pool = "gone" => accepted \subseteq ready

(* The future of every call made before the program ends becomes ready.     *)
FutureIsReady == \A k \in Tasks : k \in accepted ~> k \in ready

(* The destructor does not hang: join returns for every worker.             *)
DestructorReturns == stop ~> pool = "gone"

(* ------------------------- inductive invariant ------------------------- *)

(* Tasks are numbered in the order of their pushes: those up to             *)
(* Len(started) have been taken, the others are queued.                     *)
QueueInv ==
    /\ Len(submitted) = Len(started) + Len(tasks)
    /\ Len(submitted) <= MaxTasks
    /\ \A k \in 1 .. Len(submitted) : submitted[k] = k
    /\ \A k \in 1 .. Len(started) : started[k] = k
    /\ \A k \in 1 .. Len(tasks) : tasks[k] = Len(started) + k

TaskInv ==
    /\ ready \subseteq 1 .. Len(started)
    /\ \A k \in 1 .. Len(started) : k \in ready \/ \E w \in Workers : running[w] = k
    /\ \A w \in Workers :
          /\ running[w] # 0 <=> wpc[w] = "running"
          /\ running[w] <= Len(started)
          /\ running[w] \notin ready
    /\ \A v, w \in Workers : running[v] = running[w] /\ running[v] # 0 => v = w

(* What the place of a client or a worker says about the pool.              *)
LifeInv ==
    /\ stop <=> pool \in {"notifying", "joining", "gone"}
    /\ \A c \in Clients :
          /\ cpc[c] = "building" => pool = "building"
          /\ cpc[c] \in {"submit", "notify"} => pool \notin {"none", "building"}
    /\ \A c, d \in Clients : cpc[c] = "building" /\ cpc[d] = "building" => c = d
    /\ \A w \in Workers :
          /\ wpc[w] = "unborn" => pool \in {"none", "building"}
          /\ wpc[w] = "exited" => stop
          /\ pool = "gone" => wpc[w] = "exited"

(* A worker that has left never leaves an accepted task in the queue.       *)
DrainInv ==
    /\ accepted \subseteq 1 .. Len(submitted)
    /\ \A w \in Workers : wpc[w] = "exited" =>
          \A k \in accepted : k <= Len(started)

IInv == TypeOK /\ QueueInv /\ TaskInv /\ LifeInv /\ DrainInv /\ NoLostWakeup
============================================================================
