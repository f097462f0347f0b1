---------------------------- MODULE WatchCalls ----------------------------
(* What the two implementations of FileWatcher (watcher.cpp) share: the     *)
(* beginning of start, the flag running, the join, and the worker's outer   *)
(* loop and callback.  What follows #if in start, stop and the worker is in *)
(* LinuxWatcher and WindowsWatcher, whose variables these actions do not    *)
(* mention.                                                                 *)
EXTENDS Naturals, Sequences, FiniteSets

CONSTANTS
    QueueLimit, \* the system's bound on the events it keeps for a watch
    MaxEvents,  \* bound: changes in the directory under one watch
    MaxStarts   \* bound: successful and failed calls of start, in a run

Overflow == 0   \* what the system keeps in place of events it had to drop

ASSUME WatchAssumption ==
    QueueLimit \in Nat \ {0} /\ MaxEvents \in Nat /\ MaxStarts \in Nat

VARIABLES
    opc,       \* the owner: where it is in start or stop
    running,   \* Impl::running
    joinable,  \* Impl::worker.joinable()
    starts,    \* number of start calls
    wpc,       \* the worker thread: where it is in its loop
    batch,     \* the worker: events of buf not yet looked at
    recording, \* system: are changes of the directory being recorded?
    queue,     \* system: events recorded and not handed out
    happened,  \* history: number of events recorded for the present watch
    missed,    \* history: those the system threw away again
    delivered, \* history: events of the present watch given to the callback
    failed     \* history: did a system call of the worker fail?

calls == <<opc, running, joinable, starts>>
thread == <<wpc, batch>>
system == <<recording, queue>>
history == <<happened, missed, delivered, failed>>
shared == <<calls, thread, system, history>>

CallsInit ==
    /\ opc = "idle" /\ running = FALSE /\ joinable = FALSE /\ starts = 0
    /\ wpc = "none" /\ batch = <<>>
    /\ recording = FALSE /\ queue = <<>>
    /\ happened = 0 /\ missed = {} /\ delivered = <<>> /\ failed = FALSE

(* -------------------------------- owner -------------------------------- *)

(* start while isWatching() returns false, and changes nothing.             *)
Start ==
    /\ opc = "idle" /\ ~running /\ starts < MaxStarts
    /\ starts' = starts + 1
    /\ running' = TRUE
    /\ happened' = 0 /\ missed' = {} /\ delivered' = <<>> /\ failed' = FALSE
    /\ opc' = "init"
    /\ UNCHANGED <<joinable, thread, system>>

(* start returns false.                                                     *)
GiveUp ==
    /\ running' = FALSE
    /\ opc' = "idle"
    /\ UNCHANGED <<joinable, starts, thread, history>>

Spawn ==
    /\ opc = "spawn"
    /\ wpc' = "loop" /\ batch' = <<>>
    /\ joinable' = TRUE
    /\ opc' = "idle"
    /\ UNCHANGED <<running, starts, system, history>>

(* stop by the program or by the destructor.                                *)
Stop ==
    /\ opc = "idle" /\ running
    /\ running' = FALSE
    /\ opc' = "stopping"
    /\ UNCHANGED <<joinable, starts, thread, system, history>>

(* Mutant of Join: the worker is detached.                                  *)
Detach(next) ==
    /\ opc = "join"
    /\ joinable' = FALSE
    /\ opc' = next
    /\ UNCHANGED <<running, starts, thread, system, history>>

Join(next) ==
    /\ opc = "join"
    /\ joinable => wpc = "exited"
    /\ joinable' = FALSE
    /\ wpc' = "none" /\ batch' = <<>>
    /\ opc' = next
    /\ UNCHANGED <<running, starts, system, history>>

(* -------------------------------- worker ------------------------------- *)

(* Mutant of LoopTest: the loop does not look at running.                   *)
LoopForEver ==
    /\ wpc = "loop"
    /\ wpc' = "look"
    /\ UNCHANGED <<calls, batch, system, history>>

LoopTest ==
    /\ wpc = "loop"
    /\ wpc' = IF running THEN "look" ELSE "exited"
    /\ UNCHANGED <<calls, batch, system, history>>

(* Mutant of Callback: one event per read is looked at.                     *)
CallbackOnce ==
    /\ wpc = "callback"
    /\ delivered' = Append(delivered, Head(batch))
    /\ batch' = <<>>
    /\ wpc' = "deliver"
    /\ UNCHANGED <<calls, system, happened, missed, failed>>

(* The callback returns; stop may have begun while it ran.                  *)
Callback ==
    /\ wpc = "callback"
    /\ delivered' = Append(delivered, Head(batch))
    /\ batch' = Tail(batch)
    /\ wpc' = "deliver"
    /\ UNCHANGED <<calls, system, happened, missed, failed>>

(* ----------------------------- environment ----------------------------- *)

(* A change in the watched directory, and room for its event.               *)
Record ==
    /\ recording /\ happened < MaxEvents /\ Len(queue) < QueueLimit
    /\ happened' = happened + 1
    /\ queue' = Append(queue, happened + 1)
    /\ UNCHANGED <<calls, thread, recording, missed, delivered, failed>>
-----------------------------------------------------------------------------
CallsTypeOK ==
    /\ running \in BOOLEAN /\ joinable \in BOOLEAN /\ failed \in BOOLEAN
    /\ recording \in BOOLEAN
    /\ batch \in Seq(0 .. MaxEvents + 1) /\ queue \in Seq(0 .. MaxEvents)
    /\ happened \in 0 .. MaxEvents /\ missed \subseteq 1 .. MaxEvents
    /\ delivered \in Seq(1 .. MaxEvents + 1)
    /\ starts \in 0 .. MaxStarts

(* The events in s, without the system's mark; those recorded for the watch *)
(* and not thrown away by the system; events in the order they happened.    *)
Events(s) == {s[i] : i \in DOMAIN s} \ {Overflow}
Kept == (1 .. happened) \ missed
Increasing(s) ==
    \A i, j \in DOMAIN s : i < j /\ s[i] # Overflow /\ s[j] # Overflow => s[i] < s[j]
Before(s, t) == \A e \in Events(s), f \in Events(t) : e < f

Starting == opc \in {"init", "addWatch", "createEvents", "spawn", "closeNoWatch", "closeNoThread"}
Stopping == opc \in {"stopping", "reset", "cancel", "join", "closeHandles"}
Unused == opc = "idle" /\ ~running

(* Inductive: there is a worker from the end of start to the join of stop,  *)
(* and it ends before it is told to only if a system call failed.           *)
CallsInv ==
    /\ joinable <=> wpc # "none"
    /\ Starting => running /\ ~joinable /\ ~failed
    /\ Stopping => ~running
    /\ Unused \/ opc = "closeHandles" => ~joinable
    /\ opc = "idle" /\ running => joinable
    /\ wpc = "exited" => ~running \/ failed
    /\ failed => wpc \in {"none", "exited"}
    /\ wpc \in {"none", "loop", "look", "poll", "read"} => batch = <<>>

(* Inductive: the callback's events, the buffer's and the system's follow   *)
(* each other; nothing is lost between them while the object is watching.   *)
EventsInv ==
    /\ Increasing(delivered) /\ Increasing(batch) /\ Increasing(queue)
    /\ Before(delivered, batch) /\ Before(batch, queue) /\ Before(delivered, queue)
    /\ Overflow \notin {delivered[i] : i \in DOMAIN delivered}
    /\ Events(delivered) \subseteq Kept /\ Events(queue) \subseteq Kept
    /\ missed \subseteq 1 .. happened
    /\ recording => Events(batch) \subseteq 1 .. happened
    /\ \A e \in Events(delivered), k \in Kept : k < e => k \in Events(delivered)
    /\ wpc = "callback" =>
          /\ batch # <<>> /\ Head(batch) \in Kept
          /\ \A k \in Kept : k < Head(batch) => k \in Events(delivered)
    /\ running /\ ~failed => Events(delivered) \cup Events(batch) \cup Events(queue) = Kept
=============================================================================
