--------------------------- MODULE WindowsWatcher ---------------------------
(* FileWatcher on Windows: the worker asks for changes by an overlapped     *)
(* ReadDirectoryChangesW and waits for its event or for the one of stop.    *)
(* One system call per action; the system completes, or aborts, the read at *)
(* a moment of its own, and writes its result into the worker's buffer.     *)
EXTENDS WatchCalls

VARIABLES
    dirHandle,    \* Impl::dirHandle: "none" or "open"
    stopEvent,    \* Impl::stopEvent, auto-reset: "none", "reset" or "set"
    overlapEvent, \* Impl::overlapEvent, reset by hand
    io            \* the overlapped read: "idle", "pending", "cancelling", "done", "aborted"

windows == <<dirHandle, stopEvent, overlapEvent, io>>

WindowsInit ==
    /\ dirHandle = "none" /\ stopEvent = "none" /\ overlapEvent = "none"
    /\ io = "idle"

InFlight == io \in {"pending", "cancelling"}

(* -------------------------------- owner -------------------------------- *)

CreateFile ==
    /\ opc = "init"
    /\ \/ /\ dirHandle' = "open"
          /\ opc' = "createEvents"
          /\ UNCHANGED <<running, joinable, starts, thread, history>>
       \/ dirHandle' = "none" /\ GiveUp
    /\ UNCHANGED <<system, stopEvent, overlapEvent, io>>

(* If one of the two cannot be made, everything made so far is closed.      *)
CreateEvents ==
    /\ opc = "createEvents"
    /\ \/ /\ stopEvent' = "reset" /\ overlapEvent' = "reset"
          /\ opc' = "spawn"
          /\ UNCHANGED <<running, joinable, starts, thread, history, dirHandle>>
       \/ /\ dirHandle' = "none" /\ stopEvent' = "none" /\ overlapEvent' = "none"
          /\ GiveUp
    /\ UNCHANGED <<system, io>>

(* The constructor of std::thread throws: start calls stop, as if watching. *)
SpawnThrows ==
    /\ opc = "spawn"
    /\ running' = FALSE
    /\ opc' = "stopping"
    /\ UNCHANGED <<joinable, starts, thread, system, history, windows>>

(* Mutant of SignalStop: the handles are closed first, as on Linux.         *)
CloseFirst ==
    /\ opc = "stopping"
    /\ dirHandle' = "none" /\ stopEvent' = "none" /\ overlapEvent' = "none"
    /\ opc' = "join"
    /\ UNCHANGED <<running, joinable, starts, thread, system, history, io>>

SignalStop ==
    /\ opc = "stopping"
    /\ stopEvent' = "set"
    /\ opc' = "cancel"
    /\ UNCHANGED <<running, joinable, starts, thread, system, history, dirHandle,
                   overlapEvent, io>>

(* CancelIoEx asks for the end of the read and does not wait for it.        *)
CancelIo ==
    /\ opc = "cancel"
    /\ io' = IF io = "pending" THEN "cancelling" ELSE io
    /\ opc' = "join"
    /\ UNCHANGED <<running, joinable, starts, thread, system, history, dirHandle,
                   stopEvent, overlapEvent>>

(* A thread has ended when its reads have.                                  *)
JoinThread == Join("closeHandles") /\ ~InFlight /\ UNCHANGED windows

CloseHandles ==
    /\ opc = "closeHandles"
    /\ dirHandle' = "none" /\ stopEvent' = "none" /\ overlapEvent' = "none"
    /\ io' = "idle"
    /\ recording' = FALSE /\ queue' = <<>>
    /\ opc' = "idle"
    /\ UNCHANGED <<running, joinable, starts, thread, history>>

(* -------------------------------- worker ------------------------------- *)

WorkerGivesUp == failed' = TRUE /\ wpc' = "exited" /\ UNCHANGED <<happened, missed, delivered>>

(* ResetEvent and ReadDirectoryChangesW.  From the first one on, and also   *)
(* between two, the system records the changes.                             *)
IssueRead ==
    /\ wpc = "look"
    /\ overlapEvent' = "reset"
    /\ \/ /\ io' = "pending" /\ recording' = TRUE
          /\ wpc' = "wait"
          /\ UNCHANGED history
       \/ WorkerGivesUp /\ UNCHANGED <<io, recording>>
    /\ UNCHANGED <<calls, batch, queue, dirHandle, stopEvent>>

(* WaitForMultipleObjects: the first of the events that is set; stopEvent   *)
(* is reset by the wait.  The read may still be in flight then.             *)
Wait ==
    /\ wpc = "wait"
    /\ \/ /\ overlapEvent = "set"
          /\ wpc' = "woken"
          /\ UNCHANGED <<stopEvent, history>>
       \/ /\ overlapEvent # "set" /\ stopEvent = "set"
          /\ stopEvent' = "reset"
          /\ wpc' = "exited"
          /\ UNCHANGED history
       \/ WorkerGivesUp /\ UNCHANGED stopEvent
    /\ UNCHANGED <<calls, batch, system, dirHandle, overlapEvent, io>>

Woken ==
    /\ wpc = "woken"
    /\ wpc' = IF running THEN "result" ELSE "exited"
    /\ UNCHANGED <<calls, batch, system, history, windows>>

(* Mutant of GetResult: an overflow (no bytes) ends the loop.               *)
OverflowBreaks ==
    /\ wpc = "result"
    /\ \/ /\ wpc' = IF batch = <<>> THEN "exited" ELSE "deliver"
          /\ UNCHANGED <<batch, history>>
       \/ WorkerGivesUp /\ batch' = <<>>
    /\ io' = "idle"
    /\ UNCHANGED <<calls, system, dirHandle, stopEvent, overlapEvent>>

(* GetOverlappedResult; no bytes mean that events were lost: read again.    *)
(* The read is done: it is cancelled only after running is false, which     *)
(* Woken has seen.                                                          *)
GetResult ==
    /\ wpc = "result"
    /\ \/ /\ wpc' = IF batch = <<>> THEN "loop" ELSE "deliver"
          /\ UNCHANGED <<batch, history>>
       \/ WorkerGivesUp /\ batch' = <<>>
    /\ io' = "idle"
    /\ UNCHANGED <<calls, system, dirHandle, stopEvent, overlapEvent>>

(* One round of while (running); the last entry leaves the loop.            *)
NextEntry ==
    /\ wpc = "deliver"
    /\ \/ batch # <<>> /\ running /\ wpc' = "callback" /\ UNCHANGED batch
       \/ (batch = <<>> \/ ~running) /\ wpc' = "loop" /\ batch' = <<>>
    /\ UNCHANGED <<calls, system, history, windows>>

(* ------------------------------- system -------------------------------- *)

(* The read is given what was recorded, or nothing after an overflow.       *)
Complete ==
    /\ InFlight /\ queue # <<>>
    /\ batch' = IF queue = <<Overflow>> THEN <<>> ELSE queue
    /\ queue' = <<>>
    /\ io' = "done" /\ overlapEvent' = "set"
    /\ UNCHANGED <<calls, wpc, recording, history, dirHandle, stopEvent>>

(* The end of a cancelled read, or of one whose thread comes to its end.    *)
Abort ==
    /\ io = "cancelling" \/ (io = "pending" /\ wpc = "exited")
    /\ io' = "aborted" /\ overlapEvent' = "set"
    /\ UNCHANGED <<shared, dirHandle, stopEvent>>

(* Between two reads the system's buffer may become too small: it drops all *)
(* that is in it, and what follows until the next read.                     *)
BufferOverflows ==
    /\ recording /\ io # "pending" /\ happened < MaxEvents
    /\ Len(queue) = QueueLimit /\ queue # <<Overflow>>
    /\ missed' = missed \cup {queue[i] : i \in DOMAIN queue}
    /\ queue' = <<Overflow>>
    /\ UNCHANGED <<calls, thread, recording, happened, delivered, failed, windows>>

WindowsCalls == (Start \/ Stop) /\ UNCHANGED windows
WindowsOwner ==
    \/ CreateFile \/ CreateEvents \/ SpawnThrows \/ SignalStop \/ CancelIo
    \/ JoinThread \/ CloseHandles
    \/ Spawn /\ UNCHANGED windows
WindowsWorker ==
    \/ IssueRead \/ Wait \/ Woken \/ GetResult \/ NextEntry
    \/ (LoopTest \/ Callback) /\ UNCHANGED windows
WindowsSystem == Complete \/ Abort
WindowsOthers ==
    \/ Record /\ queue # <<Overflow>> /\ UNCHANGED windows
    \/ BufferOverflows
-----------------------------------------------------------------------------
WindowsTypeOK ==
    /\ opc \in {"idle", "init", "createEvents", "spawn", "stopping", "cancel", "join",
               "closeHandles"}
    /\ wpc \in {"none", "loop", "look", "wait", "woken", "result", "deliver", "callback",
               "exited"}
    /\ dirHandle \in {"none", "open"}
    /\ stopEvent \in {"none", "reset", "set"} /\ overlapEvent \in {"none", "reset", "set"}
    /\ io \in {"idle", "pending", "cancelling", "done", "aborted"}

(* As long as the worker or a read of its uses the handles they are open;   *)
(* when nobody watches, none is.                                            *)
WindowsClosesItsOwn ==
    LET open == dirHandle = "open" /\ stopEvent # "none" /\ overlapEvent # "none"
    IN /\ wpc # "none" \/ InFlight => open
       /\ (opc = "idle" /\ ~running) \/ opc = "init" =>
              dirHandle = "none" /\ stopEvent = "none" /\ overlapEvent = "none"

(* Inductive: the handles are open from the end of start to the end of      *)
(* stop, and a read in flight has the buffer and the event to itself.       *)
NoHandles == dirHandle = "none" /\ stopEvent = "none" /\ overlapEvent = "none"
AllHandles == dirHandle = "open" /\ stopEvent # "none" /\ overlapEvent # "none"
WindowsInv ==
    /\ Unused \/ opc = "init" => NoHandles
    /\ opc = "createEvents" => dirHandle = "open" /\ stopEvent = "none" /\ overlapEvent = "none"
    /\ Unused \/ opc \in {"init", "createEvents"} => io = "idle" /\ queue = <<>> /\ ~recording
    /\ ~Unused /\ opc \notin {"init", "createEvents"} => AllHandles
    /\ running => stopEvent # "set"
    /\ wpc \in {"loop", "look", "deliver", "callback"} \/ opc = "spawn" => io = "idle"
    /\ wpc \in {"none", "woken", "result"} => ~InFlight
    /\ InFlight => batch = <<>> /\ overlapEvent = "reset"
    /\ (\E i \in DOMAIN queue : queue[i] = Overflow) => queue = <<Overflow>>
    /\ \A i \in DOMAIN batch : batch[i] # Overflow
=============================================================================
