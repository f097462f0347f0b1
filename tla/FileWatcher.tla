---------------------------- MODULE FileWatcher ----------------------------
(* FileWatcher (watcher.cpp) on the two systems that have one: calls of     *)
(* start and stop by the owner of the object, and what the user sees of     *)
(* them, through isWatching() and the callback.                             *)
EXTENDS LinuxWatcher, WindowsWatcher, SequencesExt

CONSTANT Systems    \* the systems of the run
ASSUME SystemsAssumption == Systems \subseteq {"linux", "windows"}

VARIABLE os         \* which #if is compiled

vars == <<os, shared, linux, windows>>

Init == os \in Systems /\ CallsInit /\ LinuxInit /\ WindowsInit

OwnerStep ==
    \/ os = "linux" /\ LinuxOwner /\ UNCHANGED <<os, windows>>
    \/ os = "windows" /\ WindowsOwner /\ UNCHANGED <<os, linux>>
WorkerStep ==
    \/ os = "linux" /\ LinuxWorker /\ UNCHANGED <<os, windows>>
    \/ os = "windows" /\ WindowsWorker /\ UNCHANGED <<os, linux>>
SystemStep ==
    os = "windows" /\ WindowsSystem /\ UNCHANGED <<os, linux>>

Next ==
    \/ os = "linux" /\ (LinuxCalls \/ LinuxOthers) /\ UNCHANGED <<os, windows>>
    \/ os = "windows" /\ (WindowsCalls \/ WindowsOthers) /\ UNCHANGED <<os, linux>>
    \/ OwnerStep \/ WorkerStep \/ SystemStep

Spec == Init /\ [][Next]_vars

(* A call of start or stop that was made goes on, and so does the worker:   *)
(* poll returns after 200 ms and callbacks return (file.h:126).  Windows    *)
(* completes a read that has something to give and ends one that is         *)
(* cancelled.                                                               *)
FairSpec ==
    Spec /\ WF_vars(OwnerStep) /\ WF_vars(WorkerStep) /\ WF_vars(SystemStep)

(* ------------------------------ properties ----------------------------- *)

TypeOK ==
    /\ CallsTypeOK
    /\ os = "linux" => LinuxTypeOK
    /\ os = "windows" => WindowsTypeOK

(* The callback gets the events of the watch in the order of the changes,   *)
(* none twice, none invented and none left out; and while the watch is on,  *)
(* what it has not got yet is in the buffer or in the system's queue.       *)
EventsInOrder ==
    LET underWay == delivered \o batch \o queue
    IN /\ Increasing(delivered) /\ ToSet(delivered) \subseteq Kept
       /\ \A e \in ToSet(delivered), k \in Kept : k < e => k \in ToSet(delivered)
       /\ running /\ opc = "idle" /\ ~failed =>
             Increasing(underWay) /\ Events(underWay) = Kept

(* api.md:420: stop waits for the worker.  Once stop has returned, and when *)
(* start fails or is about to create a thread, there is no worker left that *)
(* could call back, or whose std::thread would be overwritten while it is   *)
(* joinable.                                                                *)
NoWorkerAfterStop ==
    (opc = "idle" /\ ~running) \/ opc \in {"init", "spawn"} => wpc = "none" /\ ~joinable

(* start and stop close descriptors and handles of the watch and no others, *)
(* leave none open, and on Windows close none that is in use.               *)
ClosesItsOwn ==
    IF os = "linux" THEN LinuxClosesItsOwn ELSE WindowsClosesItsOwn

(* While the owner has not called stop the worker keeps watching: it leaves *)
(* its loop (isWatching() would still say TRUE) only when it is being       *)
(* stopped, or when a system call it depends on fails on Windows.           *)
WatchesUntilStopped == running /\ joinable /\ ~failed => wpc # "exited"

(* A change that was recorded reaches the callback, unless the system drops *)
(* it, the worker gives up, or the watch is stopped.                        *)
EventsDelivered ==
    \A k \in 1 .. MaxEvents :
        happened >= k ~> k \in ToSet(delivered) \cup missed \/ failed \/ ~running

(* start and stop return: the join does not hang.                           *)
StopReturns == opc # "idle" ~> opc = "idle"

(* Calls are independent of each other and may be made at once on different *)
(* files (docs/api.md:441): the worker reads from the watch's descriptor    *)
(* only, and takes no bytes from a file that another thread has opened.     *)
WorkerReadsItsOwn == ~stolen

(* ------------------------- inductive invariant ------------------------- *)

IInv ==
    /\ os \in {"linux", "windows"}
    /\ TypeOK /\ CallsInv /\ EventsInv
    /\ os = "linux" => LinuxInv
    /\ os = "windows" => WindowsInv
=============================================================================
