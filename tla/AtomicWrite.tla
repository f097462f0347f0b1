---------------------------- MODULE AtomicWrite ----------------------------
(* File::writeAllAtomic (file_write.cpp:34-64) called by threads of several *)
(* processes on one destination, one system call per action, while other    *)
(* threads call File::readall (file_read.cpp:7-43) on it, processes crash   *)
(* and are restarted under the same pid, and the power fails.               *)
EXTENDS PosixFs, FiniteSets

CONSTANTS
    Writers, Readers,  \* threads inside writeAllAtomic, inside readall
    Pids, Proc,        \* processes; Proc[t] is the process of thread t
    Values, Size,      \* values to be written; Size[v] is the length of v in blocks
    MaxSize,           \* bound: blocks of the longest value
    Durables,          \* values of the parameter durable that callers use
    Attempts,          \* MoveFileExW is tried this often (5); rename once
    Windows,           \* are open files protected against rename and remove?
    Faults,            \* what may fail: subset of {"io", "crash", "power"}
    MaxCalls,          \* bound: calls per life of a process
    Dest               \* the destination's name

(* Mutant of Temp: no pid in the name of the temporary file.                *)
TempWithoutPid(p, c) == <<CHOOSE q \in Pids : TRUE, c>>

(* MakeTempPath: the pid and the counter make the name.                     *)
Temp(p, c) == <<p, c>>
TempNames == {Temp(p, c) : p \in Pids, c \in 0 .. MaxCalls - 1}
Names == {Dest} \cup TempNames
Blocks == Values \cup {Hole}
Content(v) == [k \in 1 .. Size[v] |-> v]
Contents == {Content(v) : v \in Values}
IsWhole(s) == \E v \in Values : s = Content(v)

(* Without an fsync nothing is promised after a power loss (file.h:205-206).*)
ASSUME AtomicWriteAssumption ==
    /\ NoInode \notin Inodes
    /\ Dest \notin TempNames
    /\ Proc \in [Writers \cup Readers -> Pids]
    /\ MaxSize \in Nat
    /\ Size \in [Values -> 0 .. MaxSize]
    /\ Attempts \in Nat \ {0}
    /\ Windows \in BOOLEAN
    /\ Durables \subseteq BOOLEAN
    /\ MaxCalls \in Nat
    /\ "power" \in Faults => Durables \subseteq {TRUE}

(* The markers of the register are no contents of a file.                   *)
ASSUME MarkersAssumption == \A v \in Values : Content(v) \notin {NoInode, Hole}

VARIABLES
    counter,  \* pid -> static counter of MakeTempPath
    pc,       \* writer -> the next system call of its writeAllAtomic
    op,       \* writer -> arguments and tempPath
    ino,      \* writer -> the inode the temporary file was opened as
    written,  \* writer -> total of WriteFull; the offset of the descriptor
    attempt,  \* writer -> attempt of ReplaceAtomically
    result,   \* writer -> what its last call returned
    rpc,      \* reader -> the next step of its readall
    rino,     \* reader -> the inode it has open
    rsize,    \* reader -> size
    rbuf,     \* reader -> what ReadFull has stored
    rresult   \* reader -> "ok" with rbuf, or "fail"

writerVars == <<counter, pc, op, ino, written, attempt, result>>
readerVars == <<rpc, rino, rsize, rbuf, rresult>>
vars == <<fsVars, writerVars, readerVars>>

NoOp == [tmp |-> Dest, val |-> Hole, durable |-> FALSE]
PCs == {"idle", "open", "write", "flush", "close", "rename",
        "removeOpen", "unwind", "remove"}
(* Where the Fd object of the call still owns the descriptor.               *)
OwnsFd(t) == pc[t] \in {"write", "flush", "close", "removeOpen", "unwind"}
Reading(r) == rpc[r] \in {"size", "read"}
OpenInodes == {ino[t] : t \in {u \in Writers : OwnsFd(u)}}
                 \cup {rino[r] : r \in {q \in Readers : Reading(q)}}

Init ==
    /\ \/ dir = [n \in Names |-> NoInode] /\ data = [i \in Inodes |-> <<>>]
       \/ \E i \in Inodes, v \in Values :
             /\ dir = [n \in Names |-> IF n = Dest THEN i ELSE NoInode]
             /\ data = [j \in Inodes |-> IF j = i THEN Content(v) ELSE <<>>]
    /\ durDir = dir
    /\ synced = Inodes
    /\ counter = [p \in Pids |-> 0]
    /\ pc = [t \in Writers |-> "idle"]
    /\ op = [t \in Writers |-> NoOp]
    /\ ino = [t \in Writers |-> NoInode]
    /\ written = [t \in Writers |-> 0]
    /\ attempt = [t \in Writers |-> 0]
    /\ result = [t \in Writers |-> "none"]
    /\ rpc = [r \in Readers |-> "idle"]
    /\ rino = [r \in Readers |-> NoInode]
    /\ rsize = [r \in Readers |-> 0]
    /\ rbuf = [r \in Readers |-> <<>>]
    /\ rresult = [r \in Readers |-> "none"]

Goto(t, from, to) == pc[t] = from /\ pc' = [pc EXCEPT ![t] = to]

(* The call of t returns res; its locals are gone.                          *)
Return(t, from, res) ==
    /\ Goto(t, from, "idle")
    /\ result' = [result EXCEPT ![t] = res]
    /\ op' = [op EXCEPT ![t] = NoOp]
    /\ ino' = [ino EXCEPT ![t] = NoInode]
    /\ written' = [written EXCEPT ![t] = 0]
    /\ attempt' = [attempt EXCEPT ![t] = 0]
    /\ UNCHANGED <<counter, readerVars>>

(* ------------------------------- writers ------------------------------- *)

(* Mutant of Begin: the counter is read but not advanced.                   *)
BeginWithoutFetchAdd(t, v, d) ==
    /\ counter[Proc[t]] < MaxCalls
    /\ Goto(t, "idle", "open")
    /\ op' = [op EXCEPT ![t] = [tmp |-> Temp(Proc[t], counter[Proc[t]]), val |-> v, durable |-> d]]
    /\ result' = [result EXCEPT ![t] = "none"]
    /\ UNCHANGED <<fsVars, counter, ino, written, attempt, readerVars>>

(* Mutant of Begin: the destination itself is opened, as writeAll does.     *)
BeginInPlace(t, v, d) ==
    /\ counter[Proc[t]] < MaxCalls
    /\ Goto(t, "idle", "open")
    /\ op' = [op EXCEPT ![t] = [tmp |-> Dest, val |-> v, durable |-> d]]
    /\ counter' = [counter EXCEPT ![Proc[t]] = @ + 1]
    /\ result' = [result EXCEPT ![t] = "none"]
    /\ UNCHANGED <<fsVars, ino, written, attempt, readerVars>>

(* The call, up to MakeTempPath: fetch_add on the counter of the process.   *)
Begin(t, v, d) ==
    /\ counter[Proc[t]] < MaxCalls
    /\ Goto(t, "idle", "open")
    /\ op' = [op EXCEPT ![t] = [tmp |-> Temp(Proc[t], counter[Proc[t]]), val |-> v, durable |-> d]]
    /\ counter' = [counter EXCEPT ![Proc[t]] = @ + 1]
    /\ result' = [result EXCEPT ![t] = "none"]
    /\ UNCHANGED <<fsVars, ino, written, attempt, readerVars>>

OpenTemp(t) ==
    /\ Goto(t, "open", "write")
    /\ \E i \in Inodes :
          /\ OpenTrunc(op[t].tmp, i, OpenInodes)
          /\ ino' = [ino EXCEPT ![t] = i]
    /\ UNCHANGED <<counter, op, written, attempt, result, readerVars>>

OpenTempFails(t) ==
    /\ "io" \in Faults
    /\ Return(t, "open", "fail")
    /\ UNCHANGED fsVars

(* One WriteFd of WriteFull: at least one block, perhaps not all of them.   *)
WriteSome(t, len) ==
    /\ Goto(t, "write", "write")
    /\ written[t] + len <= Size[op[t].val]
    /\ WriteAt(ino[t], written[t], len, op[t].val)
    /\ written' = [written EXCEPT ![t] = @ + len]
    /\ UNCHANGED <<counter, op, ino, attempt, result, readerVars>>

(* Mutant of WriteFullDone: one WriteFd is taken to have written all.       *)
WriteFullWithoutLoop(t) ==
    /\ pc[t] = "write" /\ (written[t] > 0 \/ Size[op[t].val] = 0)
    /\ Goto(t, "write", IF op[t].durable THEN "flush" ELSE "close")
    /\ UNCHANGED <<fsVars, counter, op, ino, written, attempt, result, readerVars>>

WriteFullDone(t) ==
    /\ pc[t] = "write" /\ written[t] = Size[op[t].val]
    /\ Goto(t, "write", IF op[t].durable THEN "flush" ELSE "close")
    /\ UNCHANGED <<fsVars, counter, op, ino, written, attempt, result, readerVars>>

(* Mutant of FlushTemp: the flush leaves the kernel's cache as it is.       *)
FlushWithoutFsync(t) ==
    /\ Goto(t, "flush", "close")
    /\ UNCHANGED <<fsVars, counter, op, ino, written, attempt, result, readerVars>>

FlushTemp(t) ==
    /\ Goto(t, "flush", "close")
    /\ Fsync(ino[t])
    /\ UNCHANGED <<counter, op, ino, written, attempt, result, readerVars>>

(* Mutant of WriteOrFlushFails: the result of WriteFull is not looked at.   *)
WriteErrorIgnored(t) ==
    /\ "io" \in Faults
    /\ Goto(t, "write", "close") /\ written[t] < Size[op[t].val]
    /\ UNCHANGED <<fsVars, counter, op, ino, written, attempt, result, readerVars>>

(* WriteFull or FlushToDisk fails: remove is called with the Fd open.       *)
WriteOrFlushFails(t) ==
    /\ "io" \in Faults
    /\ \/ Goto(t, "write", "removeOpen") /\ written[t] < Size[op[t].val]
       \/ Goto(t, "flush", "removeOpen")
    /\ UNCHANGED <<fsVars, counter, op, ino, written, attempt, result, readerVars>>

(* Mutant of CloseTemp: a failed close returns without the remove.          *)
CloseErrorKeepsTemp(t) ==
    /\ \/ Goto(t, "close", "rename")
       \/ "io" \in Faults /\ Goto(t, "close", "unwind")
    /\ UNCHANGED <<fsVars, counter, op, ino, written, attempt, result, readerVars>>

(* CloseFd: the descriptor is given up whatever close() returns.            *)
CloseTemp(t) ==
    /\ \/ Goto(t, "close", "rename")
       \/ "io" \in Faults /\ Goto(t, "close", "remove")
    /\ UNCHANGED <<fsVars, counter, op, ino, written, attempt, result, readerVars>>

(* Windows refuses to replace a file that a descriptor has open.            *)
MayReplace == ~Windows \/ dir[Dest] = NoInode \/ dir[Dest] \notin OpenInodes

Rename(t) ==
    /\ MayReplace
    /\ RenameOver(op[t].tmp, Dest)
    /\ Return(t, "rename", "ok")

(* Mutant of RenameFails: attempts are not counted.                         *)
RenameRetriedForEver(t) ==
    /\ "io" \in Faults \/ ~MayReplace
    /\ Goto(t, "rename", "rename")
    /\ UNCHANGED <<fsVars, counter, op, ino, written, attempt, result, readerVars>>

RenameFails(t) ==
    /\ "io" \in Faults \/ ~MayReplace
    /\ attempt' = [attempt EXCEPT ![t] = @ + 1]
    /\ Goto(t, "rename", IF attempt[t] + 1 < Attempts THEN "rename" ELSE "remove")
    /\ UNCHANGED <<fsVars, counter, op, ino, written, result, readerVars>>

RemoveTemp(t) ==
    /\ Unlink(op[t].tmp)
    /\ Return(t, "remove", "fail")

(* With the descriptor open, Windows refuses and the error is ignored.      *)
RemoveTempOpen(t) ==
    /\ Goto(t, "removeOpen", "unwind")
    /\ IF Windows THEN UNCHANGED fsVars ELSE Unlink(op[t].tmp)
    /\ UNCHANGED <<counter, op, ino, written, attempt, result, readerVars>>

(* ~Fd on the way out of a failed call.                                     *)
Unwind(t) ==
    /\ Return(t, "unwind", "fail")
    /\ UNCHANGED fsVars

(* ------------------------------- readers ------------------------------- *)

RGoto(r, from, to) == rpc[r] = from /\ rpc' = [rpc EXCEPT ![r] = to]

ReadOpen(r) ==
    /\ dir[Dest] # NoInode
    /\ RGoto(r, "idle", "size")
    /\ rino' = [rino EXCEPT ![r] = dir[Dest]]
    /\ rbuf' = [rbuf EXCEPT ![r] = <<>>]
    /\ rresult' = [rresult EXCEPT ![r] = "none"]
    /\ UNCHANGED <<fsVars, writerVars, rsize>>

(* readall has no value to give: no file, or a call on it failed.           *)
ReadFails(r, from) ==
    /\ RGoto(r, from, "idle")
    /\ rino' = [rino EXCEPT ![r] = NoInode]
    /\ rsize' = [rsize EXCEPT ![r] = 0]
    /\ rbuf' = [rbuf EXCEPT ![r] = <<>>]
    /\ rresult' = [rresult EXCEPT ![r] = "fail"]
    /\ UNCHANGED <<fsVars, writerVars>>

ReadOpenFails(r) == ("io" \in Faults \/ dir[Dest] = NoInode) /\ ReadFails(r, "idle")

ReadSize(r) ==
    /\ RGoto(r, "size", "read")
    /\ rsize' = [rsize EXCEPT ![r] = Len(data[rino[r]])]
    /\ UNCHANGED <<fsVars, writerVars, rino, rbuf, rresult>>

ReadSizeFails(r) == "io" \in Faults /\ ReadFails(r, "size")

(* One ReadFd of ReadFull: len blocks from the descriptor's offset on.      *)
ReadSome(r, len) ==
    /\ RGoto(r, "read", "read")
    /\ Len(rbuf[r]) + len <= rsize[r]
    /\ Len(rbuf[r]) + len <= Len(data[rino[r]])
    /\ rbuf' = [rbuf EXCEPT ![r] = @ \o SubSeq(data[rino[r]], Len(@) + 1, Len(@) + len)]
    /\ UNCHANGED <<fsVars, writerVars, rino, rsize, rresult>>

ReadDone(r) ==
    /\ Len(rbuf[r]) = rsize[r]
    /\ RGoto(r, "read", "idle")
    /\ rino' = [rino EXCEPT ![r] = NoInode]
    /\ rsize' = [rsize EXCEPT ![r] = 0]
    /\ rresult' = [rresult EXCEPT ![r] = "ok"]
    /\ UNCHANGED <<fsVars, writerVars, rbuf>>

(* ReadFull ends early: an error, or the file has become shorter.           *)
ReadShort(r) ==
    /\ Len(rbuf[r]) < rsize[r]
    /\ "io" \in Faults \/ Len(data[rino[r]]) <= Len(rbuf[r])
    /\ ReadFails(r, "read")

(* ------------------------------- failures ------------------------------ *)

(* The threads in ws and rs vanish with their processes ps, which may be    *)
(* started again under their old pids with their counters at 0.             *)
Die(ps) ==
    LET Dead(t) == Proc[t] \in ps
    IN /\ counter' = [p \in Pids |-> IF p \in ps THEN 0 ELSE counter[p]]
       /\ pc' = [t \in Writers |-> IF Dead(t) THEN "idle" ELSE pc[t]]
       /\ op' = [t \in Writers |-> IF Dead(t) THEN NoOp ELSE op[t]]
       /\ ino' = [t \in Writers |-> IF Dead(t) THEN NoInode ELSE ino[t]]
       /\ written' = [t \in Writers |-> IF Dead(t) THEN 0 ELSE written[t]]
       /\ attempt' = [t \in Writers |-> IF Dead(t) THEN 0 ELSE attempt[t]]
       /\ result' = [t \in Writers |-> IF Dead(t) THEN "none" ELSE result[t]]
       /\ rpc' = [r \in Readers |-> IF Dead(r) THEN "idle" ELSE rpc[r]]
       /\ rino' = [r \in Readers |-> IF Dead(r) THEN NoInode ELSE rino[r]]
       /\ rsize' = [r \in Readers |-> IF Dead(r) THEN 0 ELSE rsize[r]]
       /\ rbuf' = [r \in Readers |-> IF Dead(r) THEN <<>> ELSE rbuf[r]]
       /\ rresult' = [r \in Readers |-> IF Dead(r) THEN "none" ELSE rresult[r]]

Crash(p) ==
    /\ "crash" \in Faults
    /\ Die({p})
    /\ UNCHANGED fsVars

PowerLoss ==
    /\ "power" \in Faults
    /\ \E cut \in [Inodes \ synced -> 0 .. MaxSize] : LosePower(cut)
    /\ Die(Pids)

Commit ==
    /\ "power" \in Faults
    /\ JournalCommit
    /\ UNCHANGED <<writerVars, readerVars>>

WriterStep(t) ==
    \/ OpenTemp(t) \/ OpenTempFails(t)
    \/ \E len \in 1 .. MaxSize : WriteSome(t, len)
    \/ WriteFullDone(t) \/ FlushTemp(t) \/ WriteOrFlushFails(t) \/ CloseTemp(t)
    \/ Rename(t) \/ RenameFails(t)
    \/ RemoveTemp(t) \/ RemoveTempOpen(t) \/ Unwind(t)

ReaderStep(r) ==
    \/ ReadOpenFails(r) \/ ReadSize(r) \/ ReadSizeFails(r)
    \/ \E len \in 1 .. MaxSize : ReadSome(r, len)
    \/ ReadDone(r) \/ ReadShort(r)

Next ==
    \/ \E t \in Writers :
          (\E v \in Values, d \in Durables : Begin(t, v, d)) \/ WriterStep(t)
    \/ \E r \in Readers : ReadOpen(r) \/ ReaderStep(r)
    \/ \E p \in Pids : Crash(p)
    \/ PowerLoss
    \/ Commit

Spec == Init /\ [][Next]_vars

(* Threads that have not called yet need not; a call that was made is       *)
(* scheduled on.  No fairness for crashes, and none for opening a file to   *)
(* read: nobody has to read.                                                *)
FairSpec ==
    /\ Spec
    /\ \A t \in Writers : WF_vars(WriterStep(t))
    /\ \A r \in Readers : WF_vars(Reading(r) /\ ReaderStep(r))

(* ------------------------------ properties ----------------------------- *)

ReturnValues == {"none", "ok", "fail"}
TypeOK ==
    /\ FsTypeOK(Names, Blocks)
    /\ counter \in [Pids -> 0 .. MaxCalls]
    /\ pc \in [Writers -> PCs]
    /\ op \in [Writers -> [tmp : Names, val : Blocks, durable : BOOLEAN]]
    /\ ino \in [Writers -> Inodes \cup {NoInode}]
    /\ written \in [Writers -> Nat]
    /\ attempt \in [Writers -> 0 .. Attempts]
    /\ result \in [Writers -> ReturnValues]
    /\ rpc \in [Readers -> {"idle", "size", "read"}]
    /\ rino \in [Readers -> Inodes \cup {NoInode}]
    /\ rsize \in [Readers -> Nat]
    /\ rbuf \in [Readers -> Seq(Blocks)]
    /\ rresult \in [Readers -> ReturnValues]

(* The destination holds one complete written value, now and after a power  *)
(* loss at any instant: file.h:204-206, never empty or incomplete.          *)
DestWhole ==
    /\ dir[Dest] # NoInode => IsWhole(data[dir[Dest]])
    /\ durDir[Dest] # NoInode => IsWhole(data[durDir[Dest]])

(* Calls in progress, of one process or of several, never write into each   *)
(* other's temporary file (the pid and the counter of MakeTempPath).        *)
TempsExclusive ==
    \A t, u \in Writers : t # u /\ OwnsFd(t) /\ OwnsFd(u) => ino[t] # ino[u]

(* The file a readall has open stays as it was when its size was taken, so  *)
(* what is in its buffer is a prefix of it: no torn or short read.          *)
SnapshotRead ==
    \A r \in Readers : rpc[r] = "read" =>
        /\ Len(data[rino[r]]) = rsize[r]
        /\ Len(rbuf[r]) <= rsize[r]
        /\ rbuf[r] = SubSeq(data[rino[r]], 1, Len(rbuf[r]))

(* Where no process dies and remove is not refused, a temporary file is the *)
(* file of a call in progress: nothing is left behind when calls return     *)
(* (test_file.cpp:399-403, and every failure path of writeAllAtomic).       *)
NoResidue ==
    \A n \in TempNames : dir[n] # NoInode =>
        \E t \in Writers : pc[t] \notin {"idle", "open"} /\ op[t].tmp = n

(* A call that returned false has not changed the file, and one that        *)
(* returned true has: the destination is replaced by the step that makes a  *)
(* call return true, with the value of that call, and by no other step but  *)
(* a power loss.                                                            *)
ReplacedOnlyBySuccess ==
    [][dir'[Dest] # dir[Dest] =>
          \/ \E t \in Writers :
                /\ result[t] = "none" /\ result'[t] = "ok"
                /\ data'[dir'[Dest]] = Content(op[t].val)
          \/ \A t \in Writers : pc'[t] = "idle" /\ result'[t] = "none"]_vars

(* Every call returns: the retries of ReplaceAtomically are bounded, even   *)
(* if readers hold the destination open all the time.                       *)
CallsReturn == \A t \in Writers : pc[t] # "idle" ~> pc[t] = "idle"

(* Implementation of the register: a write takes effect with its rename, a  *)
(* read when it opens the file.                                             *)
Value == IF dir[Dest] = NoInode THEN NoInode ELSE data[dir[Dest]]
Stable == IF durDir[Dest] = NoInode THEN NoInode ELSE data[durDir[Dest]]
WritesUnderWay == [t \in Writers |-> IF pc[t] = "idle" THEN Hole ELSE Content(op[t].val)]
ReadsUnderWay == [r \in Readers |-> IF Reading(r) THEN data[rino[r]] ELSE Hole]
Answers == [r \in Readers |-> IF rresult[r] = "ok" THEN rbuf[r] ELSE Hole]
Register == INSTANCE FileRegister WITH
    Missing <- NoInode,
    Idle <- Hole,
    value <- Value,
    stable <- Stable,
    writing <- WritesUnderWay,
    looking <- ReadsUnderWay,
    answer <- Answers
ImplementsRegister == Register!Spec

(* ------------------------- inductive invariant ------------------------- *)

Fill(n, v) == [k \in 1 .. n |-> v]
(* The call of t has opened its temporary file / the file is still named.   *)
HasTemp(t) == pc[t] \notin {"idle", "open"}
Named(t) == pc[t] \in {"write", "flush", "close", "rename", "removeOpen", "remove"}
Filling(t) == pc[t] \in {"write", "flush", "close", "rename"}

(* The name a call has drawn is of its process, below the counter, and no   *)
(* other call in progress has it.                                           *)
NamesInv ==
    /\ \A t \in Writers : pc[t] # "idle" =>
          /\ op[t].val \in Values
          /\ \E c \in 0 .. MaxCalls - 1 :
                c < counter[Proc[t]] /\ op[t].tmp = Temp(Proc[t], c)
    /\ \A t, u \in Writers :
          t # u /\ pc[t] # "idle" /\ pc[u] # "idle" => op[t].tmp # op[u].tmp

(* An inode has one name, in the cache and on disk, and a rename onto the   *)
(* destination is all the two directories can differ by for one inode.      *)
LinksInv ==
    /\ \A m, n \in Names : dir[m] # NoInode /\ dir[m] = dir[n] => m = n
    /\ \A m, n \in Names : durDir[m] # NoInode /\ durDir[m] = durDir[n] => m = n
    /\ \A m, n \in Names : dir[m] # NoInode /\ dir[m] = durDir[n] /\ m # Dest => m = n

(* The temporary file of a call is its own, and holds what it has written.  *)
TempsInv ==
    /\ \A t \in Writers : HasTemp(t) =>
          /\ ino[t] \in Inodes
          /\ \A n \in Names : dir[n] = ino[t] \/ durDir[n] = ino[t] => n = op[t].tmp
    /\ \A t \in Writers : Named(t) => dir[op[t].tmp] = ino[t]
    /\ \A t, u \in Writers : t # u /\ HasTemp(t) /\ HasTemp(u) => ino[t] # ino[u]
    /\ \A t \in Writers : Filling(t) =>
          /\ data[ino[t]] = Fill(written[t], op[t].val)
          /\ written[t] <= Size[op[t].val]
          /\ pc[t] # "write" => written[t] = Size[op[t].val]
          /\ "power" \in Faults /\ pc[t] \in {"close", "rename"} => ino[t] \in synced
    /\ \A t \in Writers : "power" \in Faults /\ pc[t] # "idle" => op[t].durable
    /\ \A t \in Writers : pc[t] # "remove" => attempt[t] < Attempts
    /\ \A t \in Writers : pc[t] \in {"idle", "open"} => written[t] = 0

DestInv ==
    /\ DestWhole
    /\ "power" \in Faults => {dir[Dest], durDir[Dest]} \subseteq synced \cup {NoInode}

ReadersInv ==
    /\ \A r \in Readers : Reading(r) =>
          /\ rino[r] \in Inodes
          /\ IsWhole(data[rino[r]])
          /\ \A n \in Names : dir[n] = rino[r] => n = Dest
          /\ \A t \in Writers : HasTemp(t) => ino[t] # rino[r]
          /\ rpc[r] = "size" => rbuf[r] = <<>>
    /\ SnapshotRead

(* A call in progress has not returned anything.                            *)
ResultsInv ==
    /\ \A t \in Writers : pc[t] # "idle" => result[t] = "none"
    /\ \A r \in Readers : Reading(r) => rresult[r] = "none"

(* A call whose remove has been answered has no file left to its name.      *)
ResidueInv ==
    /\ NoResidue
    /\ \A t \in Writers : pc[t] = "unwind" => dir[op[t].tmp] = NoInode

IInv == TypeOK /\ NamesInv /\ LinksInv /\ TempsInv /\ DestInv /\ ReadersInv
=============================================================================
