---------------------------- MODULE LinuxWatcher ----------------------------
(* FileWatcher on Linux: the worker's poll/read/callback loop, the inotify  *)
(* instance, and the descriptor table, which the rest of the process uses   *)
(* too.  One access to a shared field or one system call per action,        *)
(* because stop closes the descriptor while the worker may still use it.    *)
EXTENDS WatchCalls

CONSTANTS
    Fds,        \* descriptor numbers of the process
    OthersOpen  \* do other threads open files of their own meanwhile?

None == 0       \* inotifyFd = -1

ASSUME LinuxAssumption == Fds \subseteq Nat \ {None} /\ OthersOpen \in BOOLEAN

VARIABLES
    fd,     \* Impl::inotifyFd; -1 is None
    pfd,    \* the worker: pfd.fd
    table,  \* kernel: descriptor -> what it is open on
    stolen  \* history: did the worker read a file of somebody else?

linux == <<fd, pfd, table, stolen>>

LinuxInit ==
    /\ fd = None /\ pfd = None
    /\ table = [d \in Fds |-> "free"]
    /\ stolen = FALSE

(* open(2) and inotify_init1 give the lowest free number.                   *)
Lowest(d) == table[d] = "free" /\ \A e \in Fds : table[e] = "free" => d <= e

(* close(2) on a number: an inotify instance goes with its last descriptor, *)
(* but a poll or read in progress keeps the instance it has looked up.      *)
CloseNumber(d) ==
    /\ table' = IF d \in Fds THEN [table EXCEPT ![d] = "free"] ELSE table
    /\ IF d \in Fds /\ table[d] = "watch"
       THEN recording' = FALSE /\ queue' = <<>>
       ELSE UNCHANGED system

(* -------------------------------- owner -------------------------------- *)

(* It gives a descriptor or fails.                                          *)
InotifyInit ==
    /\ opc = "init"
    /\ \/ /\ \E d \in Fds :
                /\ Lowest(d)
                /\ table' = [table EXCEPT ![d] = "watch"]
                /\ fd' = d
          /\ opc' = "addWatch"
          /\ UNCHANGED <<running, joinable, starts, thread, history>>
       \/ fd' = None /\ GiveUp /\ UNCHANGED table
    /\ UNCHANGED <<system, pfd, stolen>>

AddWatch ==
    /\ opc = "addWatch"
    /\ \/ opc' = "spawn" /\ recording' = TRUE
       \/ opc' = "closeNoWatch" /\ UNCHANGED recording
    /\ UNCHANGED <<running, joinable, starts, thread, queue, history, linux>>

SpawnFails ==
    /\ opc = "spawn"
    /\ opc' = "closeNoThread"
    /\ UNCHANGED <<running, joinable, starts, thread, system, history, linux>>

(* wd < 0, or the constructor of std::thread throws: the descriptor is      *)
(* closed; only the second path resets inotifyFd.                           *)
StartFails ==
    /\ opc \in {"closeNoWatch", "closeNoThread"}
    /\ CloseNumber(fd)
    /\ fd' = IF opc = "closeNoThread" THEN None ELSE fd
    /\ GiveUp
    /\ UNCHANGED <<pfd, stolen>>

StopClose ==
    /\ opc = "stopping"
    /\ CloseNumber(fd)
    /\ opc' = "reset"
    /\ UNCHANGED <<running, joinable, starts, thread, history, fd, pfd, stolen>>

StopReset ==
    /\ opc = "reset"
    /\ fd' = None
    /\ opc' = "join"
    /\ UNCHANGED <<running, joinable, starts, thread, system, history, pfd, table, stolen>>

(* -------------------------------- worker ------------------------------- *)

SetPoll ==
    /\ wpc = "look"
    /\ pfd' = fd
    /\ wpc' = "poll"
    /\ UNCHANGED <<calls, batch, system, history, fd, table, stolen>>

PollsWatch == pfd \in Fds /\ table[pfd] = "watch"

(* Mutant of Poll: pfd.events is not set, so poll never reports events.     *)
PollForNothing ==
    /\ wpc = "poll"
    /\ wpc' = "loop"
    /\ UNCHANGED <<calls, batch, system, history, linux>>

(* poll on pfd.fd reports events, and also a number that is not open        *)
(* (POLLNVAL) or that has become a regular file's (always readable).  After *)
(* 200 ms without events it gives up; it may have looked up the instance    *)
(* before stop closed its number, and then waits that long for nothing.     *)
Poll ==
    /\ wpc = "poll"
    /\ \/ pfd \in Fds /\ (PollsWatch => queue # <<>>) /\ wpc' = "read"
       \/ (PollsWatch => queue = <<>>) /\ wpc' = "loop"
    /\ UNCHANGED <<calls, batch, system, history, linux>>

ReadsWatch == fd \in Fds /\ table[fd] = "watch"

(* read(impl->inotifyFd): the field is read again, after poll.  The buffer  *)
(* of 4096 bytes holds some of the events, at least one.                    *)
ReadEvents ==
    /\ wpc = "read"
    /\ ReadsWatch
    /\ \E n \in 1 .. Len(queue) :
          /\ batch' = SubSeq(queue, 1, n)
          /\ queue' = SubSeq(queue, n + 1, Len(queue))
    /\ wpc' = "deliver"
    /\ UNCHANGED <<calls, recording, history, linux>>

(* Nothing there, a number that is not open, -1, or the end of a foreign    *)
(* file: len <= 0, break.                                                   *)
ReadNothing ==
    /\ wpc = "read"
    /\ ReadsWatch => queue = <<>>
    /\ wpc' = "exited"
    /\ UNCHANGED <<calls, batch, system, history, linux>>

(* The number is by now another file's: its bytes are consumed, and its own *)
(* reader does not get them.  They are in the buffer (batch), but Deliver   *)
(* drops them: running was reset before the close, and the loop over the    *)
(* buffer looks at it first (:35, :190).                                    *)
ReadForeign ==
    /\ wpc = "read"
    /\ fd \in Fds /\ table[fd] = "foreign"
    /\ stolen' = TRUE
    /\ wpc' = "deliver" /\ batch' = <<MaxEvents + 1>>
    /\ UNCHANGED <<calls, system, history, fd, pfd, table>>

(* Mutant of Deliver: an event without a name is reported too.              *)
DeliverNameless ==
    /\ wpc = "deliver"
    /\ \/ batch # <<>> /\ running
          /\ wpc' = "callback" /\ UNCHANGED batch
       \/ (batch = <<>> \/ ~running)
          /\ wpc' = "loop" /\ batch' = <<>>
    /\ UNCHANGED <<calls, system, history, linux>>

(* One round of the for loop: running is tested before each event, and an   *)
(* event without a name (len = 0, the kernel's IN_Q_OVERFLOW) is skipped.   *)
Deliver ==
    /\ wpc = "deliver"
    /\ \/ batch # <<>> /\ running /\ Head(batch) # Overflow
          /\ wpc' = "callback" /\ UNCHANGED batch
       \/ batch # <<>> /\ running /\ Head(batch) = Overflow
          /\ wpc' = "deliver" /\ batch' = Tail(batch)
       \/ (batch = <<>> \/ ~running)
          /\ wpc' = "loop" /\ batch' = <<>>
    /\ UNCHANGED <<calls, system, history, linux>>

(* ----------------------------- environment ----------------------------- *)

(* The kernel drops an event for which there is no room, and leaves one     *)
(* IN_Q_OVERFLOW at the end of the queue instead.                           *)
QueueOverflows ==
    /\ recording /\ happened < MaxEvents /\ Len(queue) = QueueLimit
    /\ queue' = Append(queue, Overflow)
    /\ UNCHANGED <<calls, thread, recording, history, linux>>

(* Other threads of the process open and close regular files.               *)
OtherOpen(d) ==
    /\ OthersOpen /\ Lowest(d)
    /\ table' = [table EXCEPT ![d] = "foreign"]
    /\ UNCHANGED <<shared, fd, pfd, stolen>>

OtherClose(d) ==
    /\ table[d] = "foreign"
    /\ table' = [table EXCEPT ![d] = "free"]
    /\ UNCHANGED <<shared, fd, pfd, stolen>>

LinuxCalls == (Start \/ Stop) /\ UNCHANGED linux
LinuxOwner ==
    \/ InotifyInit \/ AddWatch \/ SpawnFails \/ StartFails \/ StopClose \/ StopReset
    \/ (Spawn \/ Join("idle")) /\ UNCHANGED linux
LinuxWorker ==
    \/ SetPoll \/ Poll \/ ReadEvents \/ ReadNothing \/ ReadForeign \/ Deliver
    \/ (LoopTest \/ Callback) /\ UNCHANGED linux
LinuxOthers ==
    \/ Record /\ UNCHANGED linux
    \/ QueueOverflows
    \/ \E d \in Fds : OtherOpen(d) \/ OtherClose(d)
-----------------------------------------------------------------------------
LinuxTypeOK ==
    /\ opc \in {"idle", "init", "addWatch", "spawn", "closeNoWatch", "closeNoThread",
               "stopping", "reset", "join"}
    /\ wpc \in {"none", "loop", "look", "poll", "read", "deliver", "callback", "exited"}
    /\ fd \in Fds \cup {None} /\ pfd \in Fds \cup {None}
    /\ table \in [Fds -> {"free", "watch", "foreign"}]
    /\ stolen \in BOOLEAN

(* The descriptor that start and stop close is the one inotify_init1 gave   *)
(* them and not one that has become somebody else's; none is left open.     *)
LinuxClosesItsOwn ==
    /\ opc \in {"stopping", "closeNoWatch", "closeNoThread"} /\ fd # None =>
           table[fd] = "watch"
    /\ (opc = "idle" /\ ~running) \/ opc = "init" => \A d \in Fds : table[d] # "watch"

(* Inductive: the descriptor is the watch's exactly while start or stop has *)
(* it to close or the object is watching, and the worker's poll is on it.   *)
Holding ==
    \/ opc \in {"addWatch", "spawn", "closeNoWatch", "closeNoThread", "stopping"}
    \/ opc = "idle" /\ running
LinuxInv ==
    /\ Holding => /\ fd \in Fds /\ table[fd] = "watch"
                  /\ \A d \in Fds : table[d] = "watch" => d = fd
    /\ ~Holding => /\ \A d \in Fds : table[d] # "watch"
                   /\ queue = <<>> /\ ~recording
    /\ running /\ wpc = "poll" => pfd = fd
    /\ running /\ wpc = "read" => queue # <<>>
=============================================================================
