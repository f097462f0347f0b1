----------------------------- MODULE LineIndex -----------------------------
(* LineIndex (line_index.cpp) and File::readLine with an index              *)
(* (file_read.cpp:108-191), while other programs write the file in place or *)
(* rename another one over its name.  A name leads to the present file; a   *)
(* descriptor stays with the file it was opened on.  Time passes in steps   *)
(* of the file system's time stamps.                                        *)
EXTENDS Lines

CONSTANTS
    Files,          \* what the file may be
    MaxLine,        \* bound: the lines asked for
    Granularities,  \* values of the constructor's parameter
    Digest,         \* bytes at each end that are digested (64)
    Second,         \* how long a validation is remembered
    Jitters,        \* how far apart FileClockToSystem's two clocks are read
    MaxTime,        \* bound: the clock
    MaxWrites,      \* bound: how often other programs write or replace the file
    Replaces,       \* whether other files are renamed over the name
    StampsMeet      \* whether two states of the file may have one time stamp

ASSUME LineIndexAssumption ==
    /\ Files \subseteq Seq(Byte) /\ MaxLine \in Nat
    /\ Granularities \subseteq Nat \ {0}
    /\ Digest \in Nat \ {0} /\ Second \in Nat \ {0} /\ MaxTime \in Nat
    /\ MaxWrites \in Nat
    /\ Jitters \subseteq {0, 1}
    /\ Replaces \in BOOLEAN /\ StampsMeet \in BOOLEAN

VARIABLES
    now,
    file, mtime,  \* the file under the name, and its time stamp
    changed,      \* history: when it last became another
    writes,       \* history: how often other programs wrote
    fd, old,      \* the open descriptor: "none", on the file under the name
                  \* ("path"), or on one that is no longer there ("old")
    bpc, scanned, \* the constructor: its next step, the bytes it was given
    index,        \* the members of the LineIndex
    cached,       \* cachedValid_, cachedTime_
    pc,           \* readLine or validate: its next step
    asked,        \* which of them, the line number, and when the call began
    since, head,  \* validate: now, headHash
    answer,       \* what the last call returned
    fault,        \* history: what made the last call refuse without a reason
                  \* in the file: a system "call", the "clock", or "none"
    met           \* history of the index: the file changed "during" or "after"
                  \* the construction, a change is "hidden" from the stamp, a
                  \* call of the constructor had a "failure"

fileVars == <<now, file, mtime, changed, writes>>
fdVars == <<fd, old>>
buildVars == <<bpc, scanned, index>>
callVars == <<pc, asked, since, head, answer, fault>>
vars == <<fileVars, fdVars, buildVars, cached, callVars, met>>

\* What the descriptor reads.
Opened == IF fd = "old" THEN old ELSE file

OpenPath == fd' = "path" /\ old' = <<>>
Close == fd' = "none" /\ old' = <<>>

NoAnswer == [is |-> "none"]
Refused == [is |-> "refused"]
Valid == [is |-> "valid"]
Wild == [is |-> "wild"]          \* offsets_ indexed out of its bounds
Ok(line) == [is |-> "ok", line |-> line]

NoStamp == -1                    \* last_write_time failed
Unread == <<>>                   \* a digest that was not taken

NoIndex == [valid |-> FALSE, size |-> 0, stamp |-> 0, head |-> Unread, tail |-> Unread,
            granularity |-> 1, offsets |-> <<>>, totalLines |-> 0]

Init ==
    /\ now = 0 /\ mtime = 0 /\ changed = 0 /\ writes = 0 /\ file \in Files
    /\ fd = "none" /\ old = <<>>
    /\ bpc = "open" /\ scanned = <<>> /\ index = NoIndex
    /\ cached = [valid |-> FALSE, since |-> 0]
    /\ pc = "idle" /\ asked = [call |-> "readLine", line |-> 0, began |-> 0]
    /\ since = 0 /\ head = Unread
    /\ answer = NoAnswer /\ fault = "none"
    /\ met = {}
-----------------------------------------------------------------------------
(* The world.                                                               *)

Tick ==
    /\ now < MaxTime
    /\ now' = now + 1
    /\ UNCHANGED <<file, mtime, changed, writes, fdVars, buildVars, cached, callVars, met>>

StampTaken == bpc \in {"head", "tail", "scan"} \/ index.valid

\* The stamp of the index does not tell of a change that has the same one, nor
\* of another file under the name before the constructor asks for the stamp.
Hidden(stamp, replaced) ==
    \/ replaced /\ bpc \in {"size", "stat"}
    \/ StampTaken /\ stamp = index.stamp \div 2

Becomes(f, stamp, replaced) ==
    /\ writes < MaxWrites /\ writes' = writes + 1
    /\ file' = f /\ mtime' = stamp /\ changed' = now
    /\ met' = met \cup (CASE bpc = "open" -> {}
                         [] bpc = "built" -> {"after"}
                         [] OTHER -> {"during"})
                  \cup (IF Hidden(stamp, replaced) THEN {"hidden"} ELSE {})

\* Another program writes the file in place,
Write ==
    /\ StampsMeet \/ mtime < now
    /\ \E f \in Files \ {file} : Becomes(f, now, FALSE)
    /\ UNCHANGED <<now, fdVars, buildVars, cached, callVars>>

\* renames another file over it, which keeps the stamp of its own last write,
Replace ==
    /\ Replaces
    /\ \E f \in Files, stamp \in IF StampsMeet THEN 0 .. now ELSE {now} \ {mtime} :
          Becomes(f, stamp, TRUE)
    /\ IF fd = "path" THEN fd' = "old" /\ old' = file ELSE UNCHANGED fdVars
    /\ UNCHANGED <<now, buildVars, cached, callVars>>

\* or goes on writing the one that was replaced.
WriteOld ==
    /\ fd = "old"
    /\ writes < MaxWrites /\ writes' = writes + 1
    /\ old' \in Files \ {old}
    /\ UNCHANGED <<now, file, mtime, changed, fd, buildVars, cached, callVars, met>>
-----------------------------------------------------------------------------
(* The constructor.                                                         *)

\* FileClockToSystem: the difference of two clocks that are read one after the
\* other is added, so the same time stamp is not always the same point of time.
\* The constructor's difference is the measure of those of validate.
FileClockToSystem(stamp, jitter) == 2 * stamp + jitter

\* ComputeHeadTailHash of a file that had size bytes; the digest of some bytes
\* stands for the bytes, and a file too short for them is not digested.
HeadOf(f, size) ==
    LET n == Min({Digest, size})
    IN  IF n <= Len(f) THEN SubSeq(f, 1, n) ELSE Unread

TailOf(f, size, headHash) ==
    IF size <= Digest THEN headHash
    ELSE IF size <= Len(f) THEN SubSeq(f, size - Digest + 1, size) ELSE Unread

EndsWithNl(f) == f # <<>> /\ f[Len(f)] = Nl

\* An anchor for the lines 1, g + 1, 2g + 1, ...
Anchors(f, g) ==
    LET starts == <<0>> \o InOrder(NewlinesIn(f, 0, Len(f)))
    IN  [k \in 1 .. (Len(starts) - 1) \div g + 1 |-> starts[(k - 1) * g + 1]]

\* Mutant: the last anchor is taken off wherever it is.
OffsetsWithoutLast(f, g, size) ==
    LET all == Anchors(f, g)
    IN  IF EndsWithNl(f) THEN SubSeq(all, 1, Len(all) - 1) ELSE all

\* An anchor at the end of the file has no line: it is taken off.
OffsetsOf(f, g, size) ==
    LET all == Anchors(f, g)
    IN  IF EndsWithNl(f) /\ all[Len(all)] >= size
        THEN SubSeq(all, 1, Len(all) - 1) ELSE all

\* Mutant: a last line without a newline is not counted.
TotalNewlines(f) == Cardinality(NewlinesIn(f, 0, Len(f)))

TotalLines(f) ==
    LET newlines == Cardinality(NewlinesIn(f, 0, Len(f)))
    IN  IF ~EndsWithNl(f) /\ newlines >= 1 THEN newlines + 1 ELSE newlines

BuildOpen ==
    /\ bpc = "open"
    /\ \E g \in Granularities : index' = [index EXCEPT !.granularity = g]
    /\ OpenPath
    /\ bpc' = "size"
    /\ UNCHANGED <<fileVars, scanned, cached, callVars, met>>

\* By the descriptor; a failing call is taken for an empty file.
BuildSize ==
    /\ bpc = "size"
    /\ \/ index' = [index EXCEPT !.size = Len(Opened)] /\ UNCHANGED met
       \/ index' = [index EXCEPT !.size = 0] /\ met' = met \cup {"failure"}
    /\ bpc' = "stat"
    /\ UNCHANGED <<fileVars, fdVars, scanned, cached, callVars>>

\* By the name; the error is not looked at.
BuildStat ==
    /\ bpc = "stat"
    /\ \/ index' = [index EXCEPT !.stamp = FileClockToSystem(mtime, 0)] /\ UNCHANGED met
       \/ index' = [index EXCEPT !.stamp = NoStamp] /\ met' = met \cup {"failure"}
    /\ bpc' = "head"
    /\ UNCHANGED <<fileVars, fdVars, scanned, cached, callVars>>

BuildHead ==
    /\ bpc = "head"
    /\ \/ index' = [index EXCEPT !.head = HeadOf(Opened, index.size)] /\ UNCHANGED met
       \/ /\ index.size > 0
          /\ index' = [index EXCEPT !.head = Unread] /\ met' = met \cup {"failure"}
    /\ bpc' = "tail"
    /\ UNCHANGED <<fileVars, fdVars, scanned, cached, callVars>>

BuildTail ==
    /\ bpc = "tail"
    /\ \/ /\ index' = [index EXCEPT !.tail = TailOf(Opened, index.size, index.head)]
          /\ UNCHANGED met
       \/ /\ index.size > Digest
          /\ index' = [index EXCEPT !.tail = Unread] /\ met' = met \cup {"failure"}
    /\ bpc' = "scan"
    /\ UNCHANGED <<fileVars, fdVars, scanned, cached, callVars>>

\* A read gives some of the bytes that follow.
ScanRead ==
    /\ bpc = "scan" /\ index.size > 0
    /\ \E n \in Len(scanned) + 1 .. Len(Opened) :
          scanned' = scanned \o SubSeq(Opened, Len(scanned) + 1, n)
    /\ UNCHANGED <<fileVars, fdVars, bpc, index, cached, callVars, met>>

\* Nothing follows, or nothing is scanned.
ScanEnds ==
    /\ bpc = "scan"
    /\ index.size = 0 \/ Len(Opened) <= Len(scanned)
    /\ index' =
          IF index.size = 0 THEN [index EXCEPT !.valid = TRUE]
          ELSE [index EXCEPT !.valid = TRUE,
                    !.offsets = OffsetsOf(scanned, index.granularity, index.size),
                    !.totalLines = TotalLines(scanned)]
    /\ bpc' = "built" /\ scanned' = <<>> /\ Close
    /\ UNCHANGED <<fileVars, cached, callVars, met>>

\* The file cannot be opened or read: the index is not valid, and what it holds
\* is not used.
BuildFails ==
    /\ bpc = "open" \/ (bpc = "scan" /\ index.size > 0)
    /\ bpc' = "built" /\ scanned' = <<>> /\ Close
    /\ UNCHANGED <<fileVars, index, cached, callVars, met>>
-----------------------------------------------------------------------------
(* readLine with the index, and validate, which it calls.                   *)

Return(a) == pc' = "idle" /\ answer' = a

Ask ==
    /\ pc = "idle" /\ bpc = "built"
    /\ \E call \in {"readLine", "validate"}, n \in 0 .. MaxLine :
        /\ call = "validate" => n = 0
        /\ asked' = [call |-> call, line |-> n, began |-> now]
        /\ IF index.valid /\ (call = "validate" \/ n \in 1 .. index.totalLines)
           THEN pc' = "validate" /\ answer' = NoAnswer
           ELSE Return(Refused)
    /\ fault' = "none"
    /\ UNCHANGED <<fileVars, fdVars, buildVars, cached, since, head, met>>

Remembered == cached.valid /\ now - cached.since < Second

\* validate returns true.
Passed == IF asked.call = "validate" THEN Return(Valid) ELSE pc' = "open" /\ UNCHANGED answer

\* Mutant: what was seen is taken for as young as the end of the call.
AcceptLate ==
    /\ cached' = [valid |-> TRUE, since |-> now]
    /\ Passed
    /\ since' = 0 /\ head' = Unread

Accept ==
    /\ cached' = [valid |-> TRUE, since |-> since]
    /\ Passed
    /\ since' = 0 /\ head' = Unread

Refuse ==
    /\ cached' = [valid |-> FALSE, since |-> since]
    /\ Return(Refused)
    /\ since' = 0 /\ head' = Unread

\* Mutant: a hit makes the cache young again.
UseCacheAndRenew ==
    /\ pc = "validate" /\ Remembered
    /\ cached' = [valid |-> TRUE, since |-> now]
    /\ Passed
    /\ UNCHANGED <<fileVars, fdVars, buildVars, asked, since, head, fault, met>>

UseCache ==
    /\ pc = "validate" /\ Remembered
    /\ Passed
    /\ UNCHANGED <<fileVars, fdVars, buildVars, cached, asked, since, head, fault, met>>

Look ==
    /\ pc = "validate" /\ ~Remembered
    /\ since' = now
    /\ pc' = "size"
    /\ UNCHANGED <<fileVars, fdVars, buildVars, cached, asked, head, answer, fault, met>>

ValidateSize ==
    /\ pc = "size"
    /\ IF index.size = Len(file)
       THEN pc' = "stamp" /\ UNCHANGED <<cached, since, head, answer>>
       ELSE Refuse
    /\ UNCHANGED <<fileVars, fdVars, buildVars, asked, fault, met>>

\* Of an empty file nothing else is compared.
ValidateStamp ==
    /\ pc = "stamp"
    /\ \E j \in Jitters :
          IF index.stamp # FileClockToSystem(mtime, j)
          THEN /\ Refuse
               /\ fault' = IF index.stamp \div 2 = mtime THEN "clock" ELSE "none"
          ELSE /\ UNCHANGED fault
               /\ IF index.size = 0 THEN Accept
                  ELSE pc' = "digest" /\ UNCHANGED <<cached, since, head, answer>>
    /\ UNCHANGED <<fileVars, fdVars, buildVars, asked, met>>

ValidateOpen ==
    /\ pc = "digest"
    /\ OpenPath
    /\ pc' = "head"
    /\ UNCHANGED <<fileVars, buildVars, cached, asked, since, head, answer, fault, met>>

ValidateHead ==
    /\ pc = "head"
    /\ \/ head' = HeadOf(Opened, index.size) /\ UNCHANGED fault
       \/ head' = Unread /\ fault' = "call"
    /\ pc' = "tail"
    /\ UNCHANGED <<fileVars, fdVars, buildVars, cached, asked, since, answer, met>>

ValidateTail ==
    /\ pc = "tail"
    /\ \E tail \in {TailOf(Opened, index.size, head), Unread} :
        /\ IF tail = TailOf(Opened, index.size, head) THEN UNCHANGED fault
           ELSE index.size > Digest /\ fault' = "call"
        /\ IF head = index.head /\ tail = index.tail THEN Accept ELSE Refuse
    /\ Close
    /\ UNCHANGED <<fileVars, buildVars, asked, met>>

\* lineStart, and the file is opened anew.
ReadOpen ==
    /\ pc = "open"
    /\ IF (asked.line - 1) \div index.granularity + 1 \in DOMAIN index.offsets
       THEN OpenPath /\ pc' = "read" /\ UNCHANGED answer
       ELSE Return(Wild) /\ UNCHANGED fdVars
    /\ UNCHANGED <<fileVars, buildVars, cached, asked, since, head, fault, met>>

\* From the anchor the lines before are skipped.  What changes while the line is
\* read makes no difference to the properties below, which are about calls that
\* no change meets.
LineFrom(f, anchor, skip) ==
    LET nls == InOrder(NewlinesIn(f, anchor, Len(f)))
    IN  IF skip = 0 THEN Ok(LineAt(f, anchor))
        ELSE IF skip <= Len(nls) THEN Ok(LineAt(f, nls[skip]))
        ELSE Refused

ReadLine ==
    /\ pc = "read"
    /\ LET g == index.granularity
           anchor == index.offsets[(asked.line - 1) \div g + 1]
       IN  Return(LineFrom(Opened, anchor, (asked.line - 1) % g))
    /\ Close
    /\ UNCHANGED <<fileVars, buildVars, cached, asked, since, head, fault, met>>

\* A system call of validate or of readLine fails.
CallFails ==
    /\ \/ pc \in {"size", "stamp", "digest"} /\ Refuse
       \/ pc \in {"open", "read"} /\ Return(Refused) /\ UNCHANGED <<cached, since, head>>
    /\ Close
    /\ fault' = "call"
    /\ UNCHANGED <<fileVars, buildVars, asked, met>>

Next ==
    \/ Tick \/ Write \/ Replace \/ WriteOld
    \/ BuildOpen \/ BuildSize \/ BuildStat \/ BuildHead \/ BuildTail
    \/ ScanRead \/ ScanEnds \/ BuildFails
    \/ Ask \/ UseCache \/ Look \/ ValidateSize \/ ValidateStamp
    \/ ValidateOpen \/ ValidateHead \/ ValidateTail
    \/ ReadOpen \/ ReadLine \/ CallFails

Spec == Init /\ [][Next]_vars
-----------------------------------------------------------------------------
(* What can go wrong.                                                       *)

Returned == pc = "idle"
HasLine(n) == n \in DOMAIN Lines(file)

\* The index is what the constructor makes of f.
IndexOf(f) ==
    /\ index.size = Len(f) /\ index.totalLines = TotalLines(f)
    /\ f # <<>> => index.offsets = OffsetsOf(f, index.granularity, Len(f))

Right ==
    IF asked.call = "validate" THEN IndexOf(file)
    ELSE HasLine(asked.line) /\ answer.line = Lines(file)[asked.line]

\* No change since the constructor began, and none since a second before the call.
Untouched == met \cap {"during", "after"} = {}
Settled == changed + Second <= asked.began

\* The file and the index agree in all that validate compares; a digest that
\* the constructor could not take agrees with one that cannot be taken.
Alike ==
    /\ index.size = Len(file) /\ index.stamp \div 2 = mtime
    /\ index.head \in {Unread, HeadOf(file, index.size)}
    /\ index.tail \in {Unread, TailOf(file, index.size, HeadOf(file, index.size))}

\* A line that readLine returns is that line of the file as it is, and an index
\* that validate passes is the index of it, if the file has not changed since
\* the index was built, or for a second before the call (docs/api.md:366: a
\* change is noticed within a second): neither the memory of validate nor a
\* constructor that met a change makes it answer from old offsets any longer.
\* It takes a change that is hidden from the stamp of the index, and a file of
\* the same size and ends, to be answered otherwise.
AnswerIsPresent ==
    Returned /\ answer.is \in {"ok", "valid"} /\ (Untouched \/ Settled)
        => Right \/ ("hidden" \in met /\ Alike)

\* An unchanged file passes validate, and every line of it is given, dense or
\* sparse, the last one with and without a newline; but for a file without any
\* newline, whose line is not counted (line_index.cpp:126), for clocks that
\* differ (fault "clock") and for failing calls.
RefusedForCause ==
    Returned /\ answer.is = "refused" /\ met = {} /\ index.valid /\ fault = "none"
        => /\ asked.call = "readLine"
           /\ ~HasLine(asked.line) \/ NewlinesIn(file, 0, Len(file)) = {}

\* The offsets are indexed outside only by an index that met a change while it
\* was built, and a change that is hidden from its stamp: validate keeps
\* readLine from every other index that counts a line without an anchor.
NoWildRead == answer = Wild => {"hidden", "during"} \subseteq met

\* "A change of the file is noticed after a second at the latest", also one of
\* the same size and time stamp (docs/api.md:366): a line that readLine returns
\* is that line of the file as it is, unless the file has changed since a second
\* before the call.  It holds of a file that is only written in place, each time
\* with another stamp.
ChangeIsNoticed == Returned /\ answer.is = "ok" /\ Settled => Right
-----------------------------------------------------------------------------
(* The inductive invariant.                                                 *)

IndexTypes ==
    /\ now \in Nat /\ mtime \in Nat /\ mtime <= now /\ changed \in Nat /\ changed <= now
    /\ writes \in Nat
    /\ file \in Seq(Byte) /\ old \in Seq(Byte) /\ scanned \in Seq(Byte)
    /\ fd \in {"none", "path", "old"}
    /\ bpc \in {"open", "size", "stat", "head", "tail", "scan", "built"}
    /\ index \in [valid : BOOLEAN, size : Nat, stamp : Int, head : Seq(Byte), tail : Seq(Byte),
                  granularity : Nat \ {0}, offsets : Seq(Nat), totalLines : Nat]
    /\ cached \in [valid : BOOLEAN, since : Nat]
    /\ pc \in {"idle", "validate", "size", "stamp", "digest", "head", "tail", "open", "read"}
    /\ asked \in [call : {"readLine", "validate"}, line : Nat, began : Nat]
    /\ since \in Nat /\ head \in Seq(Byte)
    /\ met \subseteq {"during", "after", "hidden", "failure"}

Checking == pc \in {"size", "stamp", "digest", "head", "tail"}

\* When what is true: calls follow the construction, and nothing in the index
\* or the memory of validate is from the future.
StagesInv ==
    /\ bpc = "open" => met = {} /\ index = NoIndex
    /\ bpc # "built" => pc = "idle" /\ answer = NoAnswer /\ ~index.valid /\ index.totalLines = 0
    /\ bpc # "scan" => scanned = <<>>
    /\ index.size = 0 => index.totalLines = 0
    /\ cached.valid => index.valid
    /\ pc # "idle" => index.valid
    /\ pc # "idle" /\ asked.call = "readLine" => asked.line \in 1 .. index.totalLines
    /\ pc \in {"open", "read"} => asked.call = "readLine"
    /\ Checking => asked.began <= since
    /\ asked.began <= now /\ since <= now /\ cached.since <= now
    /\ "hidden" \in met => ~Untouched

\* Each line the index counts has an anchor.
InBounds ==
    \A n \in 1 .. index.totalLines :
        (n - 1) \div index.granularity + 1 \in DOMAIN index.offsets

Prefix(s, f) == Len(s) <= Len(f) /\ s = SubSeq(f, 1, Len(s))

\* The anchors are of f, if the size is.
Indexed(f) ==
    /\ index.size = 0 => index.totalLines = 0
    /\ index.size # 0 => /\ index.totalLines = TotalLines(f)
                         /\ index.offsets = OffsetsOf(f, index.granularity, index.size)

\* A constructor that meets no change makes an index of one file, if it has the
\* size of it.
BuildInv ==
    "during" \notin met =>
        /\ bpc \notin {"open", "built"} => fd # "old" /\ Prefix(scanned, file)
        /\ bpc \in {"stat", "head", "tail", "scan"} => index.size \in {0, Len(file)}
        /\ index.valid => InBounds
        /\ index.valid /\ Untouched => index.size \in {0, Len(file)} /\ Indexed(file)

\* If no change is hidden from it, the stamp tells whether the anchors are of
\* the present file, though the constructor asks for it by the name and reads
\* by a descriptor.
PresentInv ==
    "hidden" \notin met =>
        /\ bpc \in {"size", "stat"} => fd # "old"
        /\ StampTaken /\ index.stamp \div 2 = mtime =>
            /\ bpc # "built" => fd # "old" /\ Prefix(scanned, file)
            /\ index.valid => Indexed(file)
            /\ pc \in {"stamp", "digest", "head", "tail"} => index.size = Len(file)

\* The members of an index that met nothing.
PristineInv ==
    met = {} =>
        /\ bpc \in {"stat", "head", "tail", "scan"} \/ index.valid => index.size = Len(file)
        /\ StampTaken => index.stamp \div 2 = mtime
        /\ bpc \in {"tail", "scan"} \/ index.valid => index.head = HeadOf(file, index.size)
        /\ bpc = "scan" \/ index.valid => index.tail = TailOf(file, index.size, index.head)

\* What validate has found so far is true of the present file, if that is older
\* than the call of validate.
CheckedInv ==
    changed < since \/ Untouched =>
        /\ pc \in {"stamp", "digest", "head", "tail"} => index.size = Len(file)
        /\ pc \in {"digest", "head", "tail"} => index.stamp \div 2 = mtime
        /\ pc \in {"head", "tail"} => fd # "old"
        /\ pc = "tail" => head \in {Unread, HeadOf(file, index.size)}
        /\ pc = "tail" /\ fault = "none" => head = HeadOf(file, index.size)

\* What validate remembers was true when it looked.
Trusted == IndexOf(file) \/ ("hidden" \in met /\ Alike)

TrustInv ==
    /\ cached.valid /\ (changed < cached.since \/ Untouched) => Trusted
    /\ pc \in {"open", "read"} /\ (Settled \/ Untouched) => Trusted
    /\ pc = "read" /\ (Settled \/ Untouched) => fd # "old"
    /\ cached.valid \/ pc \in {"digest", "head", "tail", "open", "read"} =>
          InBounds \/ {"hidden", "during"} \subseteq met

\* From an index of a file that is only written in place, with another stamp
\* each time, no change is hidden.
StampInv == "hidden" \notin met /\ (StampTaken => index.stamp \div 2 <= mtime)

IndexInv ==
    /\ IndexTypes /\ StagesInv /\ BuildInv /\ PresentInv /\ PristineInv /\ CheckedInv
    /\ TrustInv /\ AnswerIsPresent /\ RefusedForCause /\ NoWildRead
=============================================================================
