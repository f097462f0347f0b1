# A TLA+ model of My::File

This directory holds TLA+ specifications of the C++ file library in
`src/MyFile/`, the TLC configurations that check them on small instances, and
TLAPS proofs of the theorems that matter most. The specifications are written
from the code; line numbers in comments refer to it (`file_write.cpp:34` is
`src/MyFile/file_write.cpp`, line 34). `PROJECT.json` maps every definition to
the lines it stands for, and lists runs, mutants, findings, hazards, theorems.

## 1. The system

`My::File` is a library of mostly static functions. There is no server and no
global state but four things: the counter of `MakeTempPath`, the thread pool of
the asynchronous calls, the error handler, and the table of CRC-32. Everything
else meets in the file system: threads of a process, other processes, crashes
and power losses come between the system calls of a function.

| part | state it keeps | operations | what is hard about it |
|---|---|---|---|
| atomic replacement (`file_write.cpp`, `platform.cpp`) | static counter; a temporary file per call | `writeAllAtomic`, `MakeTempPath`, `ReplaceAtomically`, `FlushToDisk`; also used by line editing | names that must not meet, failures after the file exists, crash, power loss, readers in between, retries on Windows |
| thread pool (`async.cpp`, `internal.h:271`) | queue, `stop_`, mutex, condition variable, workers | `GetPool`, `Submit`, worker loop, destructor; `asyncReadall`, `asyncWriteAll` | lost wakeups, draining at exit, joins |
| file watcher (`watcher.cpp`) | `running`, `callback`, `worker`; `inotifyFd`, or a directory handle and two events on Windows | `start`, `stop`, `isWatching`, destructor, worker loop | owner and worker share descriptor and handles without a lock; the system's queue is bounded; descriptor numbers are reused; a read may be in flight when its thread leaves |
| streaming reader (`internal.h:166`, `file_read.cpp`) | block buffer, `overflow_`, `eof_`, `error_`, `tailReturned_` | `nextView`, `next`; `readLine`, `readLines`, `readAllLines`, `forEachLine`, `head` | lines across blocks, short reads, errors in the middle of a line |
| `tail` (`file_read.cpp:359`) | position, starts found | backward block scan | a newline at the end, block boundaries |
| `lineCount` (`file_info.cpp:45`) | counter, last byte | block loop | last line without a newline |
| whole-file and range reading (`file_read.cpp`) | none | `readall`, `readBytes`, `readRange` | size and content are read in separate calls; 64-bit arithmetic of `readRange` |
| direct writing (`file_write.cpp`) | none | `writeAll`, `writeBytes`, `appendAll` | truncated before it is written |
| line index (`line_index.cpp`) | anchors, size, mtime, digests, a cache of one second | constructor, `lineStart`, `validate`; `readLine` with an index | stale when the file changes; the stamp is asked for by name, the rest by descriptor; one-line files |
| line editing (`file_edit.cpp`) | none | `insert*`, `delete*`, `replaceLine`, `RewriteRange` | offsets found on one descriptor, used on another |
| writer (`writer.cpp`) | buffer, `poisoned`, `autoCommit_` | `write*`, `insert*`, `commit`, destructor, moves | a commit that fails half-way and is retried |
| mapped reading (`mmap_file.cpp`) | address, size | constructor, moves, `unmap` | size taken before the file is opened |
| hashing (`hash_glob.cpp`) | block buffer of `Hasher`; CRC table | `update`, `finalize`, `fileHash`, ... | block boundaries; the table's unsynchronised first use |
| glob and directories (`hash_glob.cpp`, `file_info.cpp`) | none | `GlobMatch`, `listFiles`, `walk`, `globFiles`, `copy`, `move`, ... | backtracking of the matcher; errors of iterators |
| SIMD search (`platform.cpp:228`) | dispatch pointers | `FindNl`, `CountNl` | the rest after the last full vector |
| error reporting (`platform.cpp:145`) | global handler | `setErrorHandler`, `PrintError` | replaced without synchronisation |

How they interact. All file functions sit on the platform layer (descriptors
owned by `Fd`, loops `ReadFull` and `WriteFull`). `RewriteRange` ends in
`ReplaceAtomically`, as `writeAllAtomic` does. The asynchronous calls put
`readall` and `writeAll` into the pool's queue and hand back futures. The watcher
calls the user from its own thread. `readLine` with an index trusts `validate`.

### What makes each part correct

- *Atomic replacement*: the destination is a register. It holds one whole value
  at any moment, also after a crash or a power loss (durable writes); a call
  that returns false has changed nothing and left nothing behind; two calls
  never share a temporary file; `readall` answers with one value.
- *Pool*: each task accepted runs exactly once, tasks are taken in the order of
  their submission, futures become ready, the destructor drains and returns.
- *Watcher*: events arrive completely and in order while the watch is on; after
  `stop` there is no worker; only own descriptors are closed and read.
- *Reading*: answers are the lines `docs/api.md:135-143, 438-439` defines, for
  any block boundaries and short reads; a failure is a refusal.
- *Index*: an index answers with the line the file has now, or not at all (a
  change may go unnoticed for a second).
- *Editing*: the edit is applied to the content its offsets were taken from.
- *Writer*: what `commit` reports is what the file has; a retry is harmless.

The hazards, each at its line, are in `PROJECT.json`, with the properties that
are about them, or the reason why none is.

## 2. Modules

| module | models | about |
|---|---|---|
| `PosixFs` | the file system the code calls (external) | directory and inodes, in the cache and on disk; `open`, `write`, `fsync`, `rename`, `unlink`, what a power loss leaves |
| `FileRegister` | (abstract specification) | one register: a write takes effect at one instant or not at all, a read answers with a value of one instant |
| `AtomicWrite` | `writeAllAtomic`, `MakeTempPath`, `ReplaceAtomically`, `Fd`; `readall` | one system call per action; implements `FileRegister` |
| `ThreadPool` | `ThreadPool`, `GetPool`, `Submit` | one critical section per action, the condition variable as a set of sleepers |
| `WatchCalls` | `FileWatcher`, what both systems share | `running`, the join, the outer loop, the callback |
| `LinuxWatcher` | `FileWatcher` on inotify, and the kernel's descriptor table | one access to a shared field, or one system call, per action |
| `WindowsWatcher` | `FileWatcher` on `ReadDirectoryChangesW` | the same; the system completes or aborts the overlapped read |
| `FileWatcher` | | the two as alternatives; what the user sees |
| `Lines` | (reference) | what the lines of a file are |
| `ReadCall` | what the reading calls share | argument checks, open, descriptor, answer, and what the documentation promises of each call |
| `LineReader` | `LineReader`, `readLine`, `readLines`, `readAllLines`, `forEachLine`, `head` | one `read` or one branch of `nextView` per action |
| `TailScan` | `tail` | one block, then one `read`, per action |
| `LineCount` | `lineCount` | one block per action |
| `LineIndex` | `LineIndex`, `readLine` with an index | one system call of the constructor, of `validate` and of `readLine` per action, the clock, other programs that write the file or rename another one over it |
| `Reading` | `LineReader`, `TailScan` and `LineCount` as alternatives of one call | properties of the answers |
| `NlScan` | `FindNl`, `CountNl` | lanes of two widths and the rest, as functions; `LineCount` counts with it |
| `Glob` | `GlobMatch` | the loop that goes back to the last star, as a recursive function, and the meaning of a pattern |
| `SharedFile` | the one file several threads are at (external) | the files a name has stood for; bytes that are read and written |
| `Edits` | (reference) | what a line edit is to make of a text, on its pieces |
| `LineEdit` | `insertAt` ... `replaceLine`, `FindLineStartFd`, `RewriteRange` | one system call per action |
| `DirectWrite` | `writeAll`, `writeBytes`, `appendAll`; the writing of `commit` | open, each `write(2)`, close, by several threads |
| `Hasher` | `Hasher` | blocks, pending bytes, padding, without the arithmetic |
| `WholeRead` | `readall`, `readRange`, `filesEqual`, `fileHash`, `fileCrc32`, `fileXxHash64`, `readMapped` | one system call per action |
| `Writer` | `File::write`, `append`, `insert`, `Writer` | the life of a `Writer`, from `insert`'s `readall` to the destructor |
| `Sharing` | `LineEdit`, `WholeRead` or `Writer` of one thread, against `DirectWrite` of another and replacements by a program | properties of edits, reads and writes |
| `AtomicWriteProofs` | | theorems about `AtomicWrite`, the implementation of `FileRegister` included |
| `ThreadPoolProofs` | | theorems about `ThreadPool` |
| `FileWatcherProofs` | | theorems about `FileWatcher`, on both systems |
| `LinesProofs` | | lemmas about `Lines`: sets of numbers in order, newlines of a part of a file, where lines start and end |
| `ReadingProofs` | | theorems about `Reading` and `NlScan` |
| `LineIndexProofs` | | theorems about `LineIndex` |
| `SharingProofs` | | theorems about the edits, the direct writes and the `Writer` in `Sharing` |
| `SharedReadProofs` | | theorems about the reads in `Sharing`, and about `Hasher` |
| `MCAtomicWrite`, `MCFileWatcher`, `MCReading`, `MCLineIndex`, `MCSharing` | | values of the constants for TLC (`ThreadPool` needs none) |

### AtomicWrite

`pc[t]` is the next system call of writer `t`: *open, write, flush, close,
rename*, and on the failure paths *removeOpen, unwind, remove*. `removeOpen` is
the `remove` that `writeAllAtomic` calls while its `Fd` still owns the
descriptor, `unwind` the destructor of `Fd` after it; POSIX does not care,
Windows refuses the removal. `op[t]` holds the arguments and the temporary
name, `written[t]` the progress of `WriteFull`, which writes any positive number
of blocks per call. The counter is per process and restarts at 0 after a crash.
A reader opens, asks for the size, reads in pieces and gives up if it got less.
`PosixFs` keeps two directories, `dir` (what processes see) and `durDir` (what a
power loss leaves): the journal commits the whole directory at some moment
(`JournalCommit`), data reaches the disk only with `fsync`, and a power loss cuts
every inode that is not synced to any prefix. That is the weakest file system
under which the library's promise for durable writes can be kept, and the one
its comments have in mind (`file.h:204-207`).

Abstracted: a value is a number of equal blocks named after it, so that a mixture
or a part of a value is recognised; the check that the destination is not a
directory is one of the ways to fail; `Attempts` is 5 in the code on Windows and
2 in the run; failing calls have no error codes.

### ThreadPool

`pool` is the life of the static object, `cpc[c]` the place of a client in
`GetPool` and `Submit`, `wpc[w]` that of a worker. `cv_.wait` is three things: a
test of the predicate under the lock, sleeping (`Wait`), and waking, by a
notification or without reason (`SpuriousWakeup`), after which the predicate is
tested again. `notify_one` wakes any one sleeper, or nobody. The clients race for
the construction; one builds, the others wait for it (the guarantee of C++ for
static locals). `SetStop` may happen whenever the pool is up: static
destruction does not wait for calls of `Submit` that are under way. Calls made
after the destructor has returned use a destroyed object and are excluded; a
task pushed after `stop_` was set is not counted as accepted, since nobody
promises it anything. A constructor whose thread creation throws is left out
(the program terminates).

### FileWatcher

`os` is the `#if` that is compiled. The owner (`opc`) and the worker (`wpc`) take
one access to a shared field, or one system call, per step; `queue` is what the
system has recorded and not handed out, `batch` what the worker has in its
buffer. One thread owns the watcher. `stop` from inside the callback is left out
(the worker would join itself), and so is the kind of an event.

*Linux.* `table` is the process's descriptor table: other threads open and close
files in it, and the lowest free number is given out. The kernel's queue drops
events when it is full and ends in a nameless overflow event. The read that
empties the queue may take any part of it (the buffer is 4096 bytes). `running`
is accessed as an atomic, as the code declares it; `inotifyFd` is a plain `int`
that owner and worker race for: the model gives the worker the old or the new
value, the outcomes a word access can have.

*Windows.* `io` is the overlapped read: `IssueRead` starts it, the system
completes it when there is something to give (`Complete`, which writes into
`batch` and sets `overlapEvent`), or aborts it after `CancelIoEx` or when its
thread ends (`Abort`). `Wait` prefers `overlapEvent`, as `WaitForMultipleObjects`
does, and resets `stopEvent`. The system records changes from the first read on;
when its buffer is full it drops all of it and completes the next read with no
bytes, after which the code reads again. Any system call of the worker may fail.
`closeHandles` comes after the join, so no table of handles is needed:
`ClosesItsOwn` says that none is closed while the worker or its read is there.

### Reading

A call is chosen in `Init` with its arguments and a file of up to `MaxLen` bytes,
and runs to its answer. `seen` are the lines got so far. `Promised(c, f)` is the
answer the documentation gives, in terms of `Lines(f)`. `read` returns any
positive number of bytes up to a block, and may fail at any time. The three
implementations share the descriptor's position and the answer and have nothing
else in common, so `Reading` composes them as alternatives. `readLines` with a
range and with a list are one action: both read up to the highest number and
check afterwards. The handler of `forEachLine` is the number of the line at
which it stops. A descriptor that is a directory fails in its first `read`.

### LineIndex

A name and a descriptor are told apart. `file` and `mtime` are what the name leads to.
A descriptor (`fd`) is on that file, or, if another one has been renamed over the
name since, on `old`. Other programs write the file in place (`Write`), replace it by
one with a stamp of its own, which may be older (`Replace`), or go on writing the one
that was replaced (`WriteOld`), between any two system calls. The constructor opens,
takes the size by descriptor, the stamp by name, the digests and each block by
descriptor; `validate` asks for size and stamp by name, opens, and reads head and
tail; `readLine` opens anew. Every one of these calls may fail, with what the code
makes of it: no size is size 0, no stamp (the error is not looked at) is one that no
file has, a head or tail that is not read is the digest 0.

The clock `now` counts steps of the file system's time stamps. `StampsMeet` says
whether two states of the file may have one stamp, `Replaces` whether other files are
renamed over it; the theorems about `AnswerIsPresent`, `RefusedForCause` and
`NoWildRead` hold with both. `met` is a history: `"hidden"` is a change of which the
stamp of the index cannot tell, since the file was replaced before the constructor
asked for the stamp, or the new stamp is that of the index.

A digest is modelled by the bytes digested, and 0 by `Unread`. The stamp that is
stored and compared is the result of `FileClockToSystem`, which adds the difference of
two clock readings: `2 * stamp + jitter`, with a jitter too small to take one stamp for
another; the constructor's difference is the measure of those of `validate`, so its own
is 0. What a scan computes is written on all the bytes it was given, block by block,
since the boundaries of blocks only change where `FindNl` resumes. Skipping and
reading in `readLine` is one step from the first `read` to the last: nothing is claimed
of the answer to a call during which the file changes (`Settled`, `Untouched`), so
steps of others in between would show nothing. Seeks in the file do not fail. An index whose constructor could
not open or read is not valid, and its members are not used. `lineStart` is asked for
by `readLine` only, behind `validate`; what it does to a caller of its own is in the list
of section 3.

### Sharing

`versions` are the files the one name has stood for, the present one last; a
descriptor is the number of the version it was opened on, so a rename does not
disturb who has the old file open, and a truncation or a write does. The owner
makes one call (`EditInit`, `ReadInit`) or lives through one `Writer`
(`WriterInit`); meanwhile the other thread makes calls of `writeAll` and
`appendAll`, whose `open`, each `write(2)` and `close` are steps of their own, and
another program replaces the file by `writeAllAtomic`. That is one step here,
since `AtomicWrite` implements `FileRegister`; likewise the temporary file of an
edit is a content only, since nobody else has it (`TempsExclusive`).

*LineEdit.* `ed.pc` is the next system call: the search on the first descriptor
(`goal`: line `n`, the next one, or `n` again when there is no next), `FdSize`, the
look at the old line's end on a second one, and `RewriteRange` on a third:
the range is checked against the size, the head is copied (and has to be
complete), the text is put, the tail is copied up to where the file ends now.
`n + 1` wraps at `SizeMax`. `fail` removes the temporary file.

*WholeRead.* `rd.seen` are the files a call has looked at, with the sizes they
had. `readRange` adds in the width of `size_t` (`ReadSizeMax`) and compares with
`max_size` (`StringMax`). `filesEqual` and `readMapped` ask for the size by name.
The mapping is looked at once. `Hasher`'s state is the sequence of blocks worked
into it, so that digests are equal only if the blocks, the padding and the
length are.

*Writer.* `w.buffer`, `append`, `poisoned` and `autoCommit` are the fields of
`Impl` and `Writer`. `MoveAssign` is an assignment from another `Writer`: its
`Impl` comes in, the buffer here is dropped. `commit` with an empty buffer writes
an empty file, as the code does. The destructor commits, or reports, or drops.

### NlScan and Glob

Pure functions: no state. `ScanIsExact` and `GlobIsExact` in `MCReading` compare
them with their definitions on all blocks of up to 8 bytes, with lanes of 4 and
2, and on all patterns of up to 5 characters and names of up to 4. They are
assumptions that TLC evaluates in the run `reading`; `LineCount` counts with
`CountNl`, so `AnswerIsExact` depends on it as well. How `CpuidInit` finds the
level is left out: the level is a constant.

## 3. What TLC checks

| run | instance | what it shows | distinct states |
|---|---|---|---|
| `atomic_threads` | 2 writers in one process, a reader in another, 2 values (an empty one, one of 2 blocks), 2 calls, any call fails | the inductive invariant of the proofs; nothing left behind; the file changes exactly when a call succeeds | 49,528 |
| `atomic_crash` | writers in two processes that die anywhere and come back with the same pid; durable writes, power loss at any step | no shared temporary file, reads are snapshots, the destination is whole, now and after a loss; implements `FileRegister` | 231,254 |
| `atomic_windows` | open files cannot be replaced or removed; 2 attempts | every call returns | 90,382 |
| `pool` | 3 workers, 2 clients, 3 tasks | order, once, no lost wakeup, drained; futures become ready; the destructor returns | 39,559 |
| `watcher` | both systems; 2 descriptor numbers, queue of 2, 4 changes, 2 starts | order, completeness, no worker after stop, own descriptors, handles that outlive their use; stop returns | 21,019 |
| `reading` | every file of up to 5 bytes over a newline and two others, blocks of 2, 22 calls | answers as promised; refusals have a cause; a cut line is the last and after an error; every call returns | 206,001 |
| `index` | four files of up to 3 bytes, granularity 1 and 2, digests of 1 byte, a second of 2 ticks, clock up to 2; clock readings that differ or not; 2 writes or replacements with any stamp; any call fails | an answer is of the present file once the last change is a second old, or the change is hidden from the stamp and left size and ends; offsets stay in bounds likewise; refusals have a cause | 4,698,085 |
| `sharing` | every file of up to 3 bytes over one letter and the newline (4 of them in the life of a `Writer`), blocks of 2; 30 edits, 22 reads, 3 sorts of `Writer` with 3 operations; 2 calls of others (1 at a `Writer`); strings of at most 4 bytes; any call fails | edits, reads and commits are exact alone and of one file together; appends keep; nothing is left behind or forgotten | 3,768,847 |
| `watcher_close` | Linux, one start, one change | *violated*: the worker reads somebody else's file | |
| `tail_blocks` | as `reading`, `tail` | *violated*: `tail` loses lines | |
| `edit_error` | as `sharing`, edits only, nobody else | *violated*: an edit after a failed read edits something else | |
| `index_replaced` | as `index`, two files of the same size and ends, each with a stamp of its own; clock up to 3 | *violated*: old answers for good | |

All runs disable the deadlock check: every model ends, when the bounded number
of calls is made, the pool is gone, or the call has its answer. That nothing
gets stuck before is what the liveness properties say.

Bounds, and why they suffice. Two writers and one reader are enough for each
pair of calls to meet at each pair of steps; more writers only repeat pairs, and
the theorems hold for any number. A value of 2 blocks can be torn, an empty one
looks like a truncated file. Two calls per process (one per
life of it, where it can die and come back) make a second call meet the temporary file
of a first. Four inodes let both writers, the destination and a
reader's old file exist at once. `atomic_crash` has three: two temporary files and the
destination, or a file left by a crash, one being written and the destination, or the
reader's old file in the place of one of them; with a fourth the run takes too long, and
a thread that finds no free inode waits. Three workers and three tasks leave one worker
asleep while two run and one task waits. Two descriptor numbers: the watch's and
one more that can take its place. Five bytes in blocks of two are three blocks:
first, middle and last; short reads also give blocks of one. For the index, three
newlines make an anchor in the middle and one at the end for granularity 2, `a` with
a newline in the middle has a last line without one, and the sizes 0, 1 and 3 with
digests of one byte leave something undigested, or not. Two changes are
one during and one after the construction, or two in it; a clock up to 2 (two steps
are a second) lets a change, a second of memory, and a call after it fit in; that of
`index_replaced` goes up to 3, for a stamp of its own before and after the change.
For the watchers, 4 changes against a queue of 2 give an overflow and events on
both sides of it, and 2 starts a watch after a stopped or failed one. For
`sharing`, three bytes in blocks of two are two blocks, and up to three lines, with
and without a newline at the end; edits and ranges name lines and offsets on both
sides of the end of the file, 0 and the greatest `size_t`. Two calls of others are
a truncation or a replacement before, and an append after, any step. The other
thread writes one byte `b`, the edit and the `Writer` `x`, and nobody else does, so
that it is seen whose byte is where. Three operations at a `Writer` are a write, a
commit that fails, and its retry, or an insertion after two others. A block of
`Hasher` is 2 bytes, of which 1 is for the length: files of 0 to 3 bytes leave
nothing or one byte pending, with and without room for the length. A string holds
4 bytes, so that a file that others append to may be too long for one.

Symmetry is used for safety only: inodes are interchangeable, and so are the
writers when they are in one process. `ImplementsRegister` is a safety property
(`FileRegister` states no fairness), and its refinement mapping only names the
content of the destination and not the inode.

Fairness. `AtomicWrite`: a thread inside `writeAllAtomic` is scheduled, whatever
readers do; nobody has to call, to crash or to open a file for reading.
`ThreadPool`: workers, a client inside `Submit`, and the destructor once begun
are scheduled; tasks are finite file operations, so `Run` ends. No fairness for
spurious wakeups. `FileWatcher`: the owner inside a call and the worker are
scheduled; `poll` returns after 200 ms, and callbacks are to be short
(`file.h:126`); Windows completes a read that has something to give and ends
one that is cancelled. `Reading`: the calling thread is scheduled, and no system call
has to fail for it to end. `Sharing` states no fairness: its properties are
safety, and its loops are those of `ReadFull` and `WriteFull`.

Each property has a mutant in the module of the code it guards, a plausible bug
such as a dropped `fsync` or a cached flag that is not reset; TLC finds the
property violated when the mutant replaces the action.

### Where the code differs from what is said of it

With a run of its own, whose property is what is said:

1. `watcher_close`: `stop` closes the descriptor before it joins the worker
   (`watcher.cpp:44, 49`). Between `poll` and `read` the worker can be left with a
   number that another thread's `open` was given, and takes bytes from that file, while
   calls are said to be independent of each other (`docs/api.md:441`). It reports none
   of them as an event: `running` is reset before the close (`:35`) and tested before
   each event (`:190`). The other properties of the watcher hold even so.
2. `tail_blocks`: `tail` skips a newline per block instead of per file
   (`file_read.cpp:415`); see `docs/api.md:143`. It concerns files longer than 128 KiB
   that end with a newline; if the last line reaches back over a block, it may
   be missing altogether. The passing run states exactness for all other calls
   of `tail`, and for these that every line it returns is one, in order.
3. `edit_error`: a read error in the search for line `n + 1` looks like the end of
   the file (`file_edit.cpp:20`), so the edit goes on with the end of the file and
   returns true; see `docs/api.md:440`. `EditIsExact` excepts a failed read.
4. `index_replaced`: the constructor asks for the time stamp by name
   (`line_index.cpp:66`) and for everything else by a descriptor opened before
   (`:61`). A file renamed over the name in between, as `writeAllAtomic` and line edits
   do it, gives an index of the old file with the stamp of the new one; with the same
   size and ends it is valid for good, against `docs/api.md:366`.

Without one, seen while modelling; where a property would meet it, the property
excepts it and its comment says so:

- `readLine` answers with a cut line after a read error (`file_read.cpp:94`, against
  `docs/api.md:440`). `AnswerIsExact` excepts `readLine` and `forEachLine` after a
  failed read.
- `filesEqual` compares the sizes by name and then opens: if the file is replaced
  in between by a longer one that begins like the other, it answers true of two
  files that never were equal (`hash_glob.cpp:166`, `docs/api.md:214`).
  `readMapped` maps more than the file has in the same way. `ReadIsOfOneMoment`
  excepts exactly these.
- `readRange` with a length near 2^64 wraps and is refused, not cut to the file
  (`file_read.cpp:514`; `tests/test_file.cpp:1738` wants it cut).
- `readall` and `readRange` refuse a file, or a part of one, that is longer than a
  string may be (`file_read.cpp:27-32, 511-515`); with 64 bits no file is.
- A failed `commit` in append mode keeps the whole buffer, so the retry that
  `README.md:184` offers repeats what had been written; a second `commit` of an
  overwriting `Writer` with nothing new empties the file; a move assignment drops a
  waiting buffer, which the destructor would have committed (`writer.cpp:36`).
- A `*` in a file name is matched literally by a `*` of the pattern before that is
  a wildcard: `a*` does not match `a*b` (`hash_glob.cpp:12`). `GlobIsExact` is about
  names without one.
- `fileXxHash64` leaves out a multiplication where it merges the accumulators, so
  its value is not xxHash64's for 32 bytes and more (`hash_glob.cpp:461-464`); as a
  fingerprint it works.
- On Windows `start` returns before the worker's first read: changes in between are
  not reported; a failing system call ends the worker while `isWatching()` stays
  true; and the worker may leave with a read in flight into its stack
  (`watcher.cpp:125`), which the end of the thread aborts a little later.
- A change that leaves the size, the time stamp and the 64 bytes at each end as they
  were is not noticed at all (`line_index.cpp:205`), against `docs/api.md:366` and the
  comment at `:194`; the repository's own `README.md:129` admits it. `AnswerIsPresent`
  excepts it (`"hidden"` and `Alike`), and `ChangeIsNoticed` is proved of files without it.
- A file that grows between the constructor's `fstat` (`line_index.cpp:64`) and its scan
  may lose the anchor of a line (`:131-132`): `lineCount` counts a line for which
  `lineStart` (`:147, :153`) reads past the end of the offsets, against
  `docs/api.md:362` and the comment at `:129-130`. `readLine` asks `validate` first, which
  refuses such an index unless the change is hidden from its stamp (`NoWildRead`).
- `validate` compares two points of time that were converted with clock readings of
  their own (`platform.cpp:134-138`, `line_index.cpp:186-187`), so it may refuse a file
  that has not changed, against `tests/test_file.cpp:774`; an index counts no line in a
  file of one line without a newline (`line_index.cpp:126`, against `file.h:31`).
  `RefusedForCause` excepts both.
- `deleteLine`, `deleteLines`, `insertBeforeLine` and `insertAfterLine` take the empty
  piece behind a last newline for a line and return true (`file_edit.cpp:30-31`), which
  `replaceLine` refuses, and `docs/api.md:190, 439` of all. `Edits` follows the code, so
  `EditIsExact` says what these calls do there.
- On Linux `recursive` does not watch subdirectories (`docs/api.md:419` says it
  does, `file.h:125` that it does not).

## 4. What is proved

The theorems hold for all values of the constants: any number of threads,
processes, values, blocks, calls, attempts, faults, workers, tasks, events,
descriptors; files, lines, ranges and buffers of any length; any block size, lane
width, granularity. The only assumptions are the named `ASSUME`s of the modules.
They relate sizes and names of constants (`Nl` is not among the other bytes,
blocks and queues hold at least one thing, requests have the types of the
arguments of the calls, positions and lines given to a `Writer` fit a `size_t`, a file
is shorter than the greatest `size_t`, its size being an `off_t`, which is signed),
they say of `AtomicWrite` with power losses that writes are durable and that a
value's content is not taken for one of the marks the register uses
(`MarkersAssumption`), and of `LineIndex` that two clocks that are read one after
the other differ by less than a step of the file system's stamps. TLC evaluates
all of them in the runs. Three theorems have a hypothesis of their own.
`NothingIsLeftBehind` is about systems on which no process dies, the power stays, and
an open file can be removed (`"crash"` and `"power"` are not in `Faults`, and not
`Windows`), since the code does leave files behind otherwise. `InsertsExact` is about
buffers that are shorter than the greatest `size_t` (`BufferFits`), as every
`std::string` is (`max_size`); the model does not bound them. `InPlaceChangesAreNoticed` is about
a file over which no other is renamed and which has no stamp twice (`~Replaces`,
`~StampsMeet`): `index_replaced` shows that it needs the first, and the list in section 3
has what happens without the second.

Every argument has the same shape: a conjunction that is inductive, one lemma per
action that it survives, and the properties as consequences. What that
conjunction has to say beyond the property is the content of the argument.

*AtomicWrite* (`IInv`; `DestinationIsWhole`, `TempsAreExclusive`, `ReadsASnapshot`).
A name drawn from the counter belongs to one call in progress (`NamesInv`: it
carries the process, and a number below the counter); an inode has one name, in
the cache and on disk, except that a rename may not have reached the disk
(`LinksInv`); so the file a call opens is in no other call, and holds what the call
has written (`TempsInv`); it is complete when it is renamed, and synced if power
can fail (`DestInv`); and a file that was the destination is never opened for
writing again, since no temporary name leads to it, so readers see it unchanged
(`ReadersInv`). With that each step is a step of `FileRegister` or changes nothing
there (`IsARegister`): the rename is the write, the `open` of a reader takes its
value, a crash forgets calls, a power loss goes back to a value the disk had.
`OnlySuccessReplaces` and `NothingIsLeftBehind` follow from the same invariant.

*ThreadPool* (`IInv`). Tasks are numbered as they are pushed; `QueueInv` says that
those up to `Len(started)` have been taken and the rest is queued, `TaskInv` where a
task taken is, `LifeInv` what the place of a thread says about the life of the
pool, `DrainInv` that a worker leaves only behind an empty queue. `NothingOvertakes`,
`EveryTaskRunsOnce`, `WakeupsAreNotLost` and `DestructorDrains` follow.

*FileWatcher* (`IInv`). `CallsInv` places owner and worker against each other: there
is a thread to join from the end of `start` to the join in `stop`, and the worker
leaves before it is told to only after a failed call. `LinuxInv` and `WindowsInv` say
whose the descriptors and handles are at each point of the owner, whatever number
the worker has loaded. `EventsInv` says that the events the callback got, those in
the worker's buffer and those in the queue follow each other, and together are all
that were recorded and not dropped, as long as the watch is on; the mark of an
overflow is in the order of none of them. `NoneLeftWorking`, `OwnHandlesOnly`,
`KeepsWatching` and `DeliveredInOrder` follow, for both systems.

*NlScan.* `CountNlIsExact` and `FindNlIsExact`: positions before the last full vector
are lanes of vectors, one each (division with remainder), so the counts of the
lanes are the newlines, and the first lane hit of the first vector hit is the
first newline; the wide loop, the narrow loop and the rest take up where the one
before has ended.

*Reading* (`Inv`). For the streaming reader: the bytes kept in `overflow_` and the
ones in the block are the file's, from the start of a line on, without a newline
among those kept (`BytesInv`); that start is the one behind as many newlines as
lines have been handed out (`BetweenLines`), unless the last line had no newline
(`BehindTheLast`). A line is handed out when its newline, or the end, is found: it
is `LineAt` of its start, and by the rank of the start among the newlines it is
the next of `Lines` (`LineThere`). For `lineCount`: what has been counted is the
number of newlines before the position. For `tail`: backwards, each start found is
one, and the k-th from the end if no newline has been skipped wrongly
(`BackwardsInv`); forwards, the starts left and the lines read are the last `n`
(`ForwardsInv`). `AnswersAreExact`, `RefusalsHaveACause`, `LinesAreWhole` and
`ScanFindsStarts` follow.

*LineIndex* (`IndexInv`). The constructor mixes what it asks by name and what it reads
by descriptor, so the argument is about the stamp: if no change is hidden from it, no
file was put under the name between the open and the question for the stamp, and since
the stamp is taken before the scan, a present file with that stamp and size is the one
the anchors are of (`PresentInv`), whatever changed between the other steps. What
`validate` has found so far is true of the present file, if that is older than the
call (`CheckedInv`), and what it remembers was true when it looked (`TrustInv`). A
constructor that met no change has an anchor in bounds for every line (`BuildInv`,
`AnchorOfLine`: the anchor that is taken off at the end of the file is nobody's), and
so has one that met a change, if the stamp tells of it and `validate` passed the index.
From the anchor, the newline that is skipped to is the one before the line
(`LineFromAnchor`). `AnswersArePresent`, `RefusalsHaveACause` and `ReadsInBounds` follow.
Where files are not replaced and no stamp comes twice, no change is hidden
(`StampInv`), and `InPlaceChangesAreNoticed` follows from the first of them.

*Sharing* (`IInv`; for reads `Reads`, for edits `Exact`). `EditInv`: the temporary file is a beginning of
the version that is open with the text spliced in, as long as nobody truncates that
one; with its steps `EditsOneVersion` and `EditsLeaveNothing`. `PutInv` and `IntactInv`:
what a thread has appended is in the file behind what it found, in order, which
other appends do not disturb (`AppendsSurvive`, by a map of positions). `WriterInv`
and `OwnerWrote`: what the `Writer` has put is the part of the buffer that was
written (`CommitsWhole`, `WriterForgetsNothing`, `InsertRewrites`). `SeenInv`, `GotInv` and
`HasherInv`: what a read has got is a part of one version it has looked at, which
only grew since; the answer is that of the file at that length (`ReadsOneMoment`).
`UpdateHashes` and `FinalizeDigests` are about `Hasher` alone: blocks and pending bytes
depend on the bytes and not on how they are cut into calls of `update`.

*Edits and insertions* (`EditsExact`, `InsertsExact`). `Edited` says what an edit is to do
in terms of the lines of a text put together again; the code goes through blocks
and counts newlines. Between them stand the cuts of a file, its ends of lines: `Cut(f, i)` is
the i-th newline (`CutsAre`, `NthIs`), and the pieces from one cut to another, put together,
are the bytes between them (`PiecesFlatten`, by the first of the partial results of
`FlattenSeq` that would be wrong). So an edit is a splice between two cuts (`BetweenIs`).
`ExactInv`, with `IInv`, follows the code while nobody else changes the file: a search has
still to pass as many newlines as are missing to its goal (`SearchInv`), also where
the number of the line behind the last one wraps (`NextLine`); a range that is found
is the one asked for (`RangeFound`), a refusal says that the lines are not there
(`RefusedIs`), the byte `replaceLine` looks at is the newline it must keep; and what
`Rename` puts under the path is that splice. The insertions of a `Writer` search in one piece and
splice at one cut (`InsertDoes`).

What the proofs changed in the models. `Promised` used a `CASE` that had no case
for some requests that the code refuses; it now has. `EventsInOrder` was false for a
queue of one, which the mark of an overflow fills; it now speaks of events
without the marks. `ReadIsOfOneMoment` said nothing of files that do not fit a
string; `StringMax` is now small enough in the run for the refusal to happen.
A file of `SizeMax` bytes would have a last line with a number that wraps, which
`EditIsExact` does not survive; no file has that size, and `SharingAssumption` says so.
An `EditRequests` with a `last` of its own for edits of one line, or with a text for
`deleteLines`, was no call of the code; it now has neither.
Sequences of positions are written with `InOrder`, which says what their order is.

Every safety property that a passing run checks is a theorem. Only evaluated by TLC,
and why:

- Liveness (`CallsReturn`, `FutureIsReady`, `DestructorReturns`, `EventsDelivered`,
  `StopReturns`, `CallReturns`): beyond the prover.
- `GlobMatch`, a recursive function, on bounded inputs (`GlobIsExact`).

## 5. Plan

What is left, in this order:

1. `GlobMatch` against the meaning of patterns, by the position of the last star.
2. The first use of the CRC-32 table by two threads.

## 6. Not modelled, and why

- Arithmetic of SHA-256, CRC-32 and xxHash64: words of 32 and 64 bits, about which
  TLC can enumerate nothing useful. The table of CRC-32 (`hash_glob.cpp:74`) is
  taken for complete: two first calls at once race for it.
- Functions that are one call of `std::filesystem` with its error reported
  (`exists`, `size`, `copy`, `copyLarge`, `move`, `remove`, directories), and the
  iterations of `listFiles`, `walk`, `globFiles`: what can happen inside is the
  operating system's. `touch` opens without truncating, so it cannot lose anything.
- Error reporting: no property is about it. `setErrorHandler` replaces a plain
  function pointer, which `PrintError` tests and then calls, without synchronisation.
- A `Hasher` used again after `finalize`; the moves and `unmap` of
  `MemoryMappedFile`; a mapping that is looked at again after the file was cut
  short, which `README.md` of the repository says crashes.
- Formatting and wording, path encoding, `IsDirectory`, SIMD intrinsics as such and
  their choice at start; on Windows, the non-atomic append of the C runtime.
- Vendored googletest, the tests, the empty `main.cpp`.

## 7. Running it

    tlc -workers 2 -config pool.cfg ThreadPool.tla
    tlc -workers 2 -config reading.cfg MCReading.tla
    tlc -workers 2 -config sharing.cfg MCSharing.tla
    tlc -workers 2 -config index.cfg MCLineIndex.tla
    tlapm AtomicWriteProofs.tla

`PROJECT.json` names the module of every configuration. Each of the modules whose name
ends in `Proofs` is checked by `tlapm` alone; `SharingProofs` and `ReadingProofs` take some
minutes.
