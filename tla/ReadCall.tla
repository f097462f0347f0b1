------------------------------ MODULE ReadCall ------------------------------
(* A call of the reading API (src/MyFile/file_read.cpp, file_info.cpp) on a  *)
(* file nobody changes meanwhile: what was asked, what has been collected,   *)
(* and the answer.  How the bytes are read is in LineReader, TailScan and    *)
(* LineCount, which share these variables.                                   *)
EXTENDS Lines

CONSTANTS Calls,   \* the calls made: a set of [api, lines, n]
          Block    \* kIoBlockSize

ASSUME BlockAssumption == Block \in Nat \ {0}

VARIABLES file,     \* the bytes of the file
          call,     \* the call in progress
          pc,       \* the point it has reached
          offset,   \* the position of its descriptor
          seen,     \* the lines it has got from the file so far
          answer,   \* its answer
          failed    \* history: some open, seek or read has failed

callVars == <<file, call, pc, offset, seen, answer, failed>>

Apis == {"readLine", "readLines", "readAllLines", "forEachLine", "head",
         "tail", "lineCount"}

\* lines: the line numbers asked for, in the caller's order (readLines, both
\* overloads; an empty or reversed range is one with a 0).  n: the number of
\* readLine, how many for head and tail, the line at which the handler of
\* forEachLine stops (0: it never does).
CallsAssumption ==
    \A c \in Calls : /\ c.api \in Apis
                     /\ c.lines \in Seq(Nat)
                     /\ c.n \in Nat
ASSUME CallsAssumption

LastLine(c) == Max(ToSet(c.lines))

\* The checks before the file is opened: line 0 does not exist, and no lines
\* are read without looking at the file.
Rejected(c) ==
    \/ c.api = "readLine" /\ c.n = 0
    \/ c.api = "readLines" /\ 0 \in ToSet(c.lines)

NothingAsked(c) ==
    \/ c.api \in {"head", "tail"} /\ c.n = 0
    \/ c.api = "readLines" /\ c.lines = <<>>

Running == [is |-> "running"]
Refused == [is |-> "refused"]     \* nullopt or false
Ok(v) == [is |-> "ok", value |-> v]

Succeeded == answer.is = "ok"

StartWith(f, c) ==
    /\ file = f
    /\ call = c
    /\ pc = "open"
    /\ offset = 0
    /\ seen = <<>>
    /\ answer = Running
    /\ failed = FALSE

Finish(a) == pc' = "done" /\ answer' = a

\* Everything up to the open.
Answered == Rejected(call) \/ NothingAsked(call)
AnswerAtOnce ==
    /\ pc = "open" /\ Answered
    /\ Finish(IF Rejected(call) THEN Refused ELSE Ok(<<>>))
    /\ UNCHANGED <<file, call, offset, seen, failed>>

\* The file cannot be opened, is a directory, or its size is not to be had.
OpenFails ==
    /\ pc = "open" /\ ~Answered
    /\ failed' = TRUE
    /\ Finish(Refused)
    /\ UNCHANGED <<file, call, offset, seen>>

\* read(2) of at most n bytes, which may return fewer: those after the
\* position, which it moves.
Got(n) == {SubSeq(file, offset + 1, offset + k) :
              k \in 1 .. Min({n, Len(file) - offset})}
-----------------------------------------------------------------------------
(* What the documentation promises of each call (docs/api.md:135-143).      *)
Promised(c, f) ==
    LET all == Lines(f)
    IN  CASE c.api = "readLine" ->
                IF c.n \in DOMAIN all THEN Ok(<<all[c.n]>>) ELSE Refused
          [] c.api = "readLines" ->
                IF ToSet(c.lines) \subseteq DOMAIN all
                THEN Ok([i \in DOMAIN c.lines |-> all[c.lines[i]]])
                ELSE Refused
          [] c.api = "readAllLines" \/ (c.api = "forEachLine" /\ c.n = 0) ->
                Ok(all)
          [] c.api = "head" \/ (c.api = "forEachLine" /\ c.n # 0) ->
                Ok(SubSeq(all, 1, Min({c.n, Len(all)})))
          [] c.api = "tail" ->
                Ok(SubSeq(all, Max({1, Len(all) - c.n + 1}), Len(all)))
          [] c.api = "lineCount" -> Ok(Len(all))
-----------------------------------------------------------------------------
(* Inductive: what holds of every call.                                      *)

IsLine(i, l) == i <= Len(Lines(file)) /\ l = Lines(file)[i]

CallTypes ==
    /\ file \in Seq(Byte) /\ call \in Calls
    /\ offset \in 0 .. Len(file)
    /\ seen \in Seq(Seq(Byte))
    /\ failed \in BOOLEAN
    /\ pc = "open" => offset = 0 /\ seen = <<>> /\ ~failed
    /\ pc # "done" => answer = Running
    /\ pc \notin {"open", "done"} => ~Answered
=============================================================================
