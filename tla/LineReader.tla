----------------------------- MODULE LineReader -----------------------------
(* detail::LineReader (internal.h:166-258) and the loops of its callers.     *)
(* The reader fills a block with read(2), hands out one line per call of     *)
(* next, and keeps in overflow the beginning of a line that crosses blocks.  *)
EXTENDS ReadCall

VARIABLES chunk,         \* the bytes start_..end_ of the buffer, unread by next
          overflow,      \* overflow_
          eof,           \* eof_
          error,         \* error_
          tailReturned   \* tailReturned_: overflow_ was handed out

readerVars == <<chunk, overflow, eof, error, tailReturned>>

ReaderApis == {"readLine", "readLines", "readAllLines", "forEachLine", "head"}

ReaderIdle ==
    /\ chunk = <<>>
    /\ overflow = <<>>
    /\ eof = FALSE
    /\ error = FALSE
    /\ tailReturned = FALSE

\* LineReader::open
Open ==
    /\ pc = "open" /\ ~Answered
    /\ pc' = "caller"
    /\ UNCHANGED <<file, call, offset, seen, answer, failed, readerVars>>
-----------------------------------------------------------------------------
(* The callers: when they ask for another line, and what they answer.       *)

WantsMore ==
    CASE call.api \in {"readLine", "head"} -> Len(seen) < call.n
      [] call.api = "readLines" -> Len(seen) < LastLine(call)
      [] call.api = "readAllLines" -> TRUE
      [] call.api = "forEachLine" -> call.n = 0 \/ Len(seen) # call.n

\* Mutant: tailReturned_ is not looked at.
NextKeepsOverflow ==
    /\ pc = "caller" /\ WantsMore
    /\ tailReturned' = FALSE
    /\ pc' = "scan"
    /\ UNCHANGED <<file, call, offset, seen, answer, failed, chunk, overflow,
                   eof, error>>

\* next, and the head of nextView.
Next_ ==
    /\ pc = "caller" /\ WantsMore
    /\ overflow' = IF tailReturned THEN <<>> ELSE overflow
    /\ tailReturned' = FALSE
    /\ pc' = "scan"
    /\ UNCHANGED <<file, call, seen, answer, failed, offset, chunk, eof, error>>

\* The caller's loop ends: it has its lines (pc "caller"), or next returned
\* false (pc "false").
Answer(api, a) ==
    /\ call.api = api
    /\ pc = "false" \/ (pc = "caller" /\ ~WantsMore)
    /\ Finish(a)
    /\ UNCHANGED <<file, call, offset, seen, failed, readerVars>>

\* readLine does not look at error() when it has its line.
AnswerReadLine ==
    Answer("readLine",
           IF Len(seen) = call.n THEN Ok(<<seen[call.n]>>) ELSE Refused)

AnswerReadLines ==
    Answer("readLines",
           IF error \/ Len(seen) < LastLine(call) THEN Refused
           ELSE Ok([i \in DOMAIN call.lines |-> seen[call.lines[i]]]))

AnswerReadAllLines ==
    Answer("readAllLines", IF error THEN Refused ELSE Ok(seen))

AnswerHead == Answer("head", IF error THEN Refused ELSE Ok(seen))

\* A handler that stopped the loop makes it a success.
AnswerForEachLine ==
    Answer("forEachLine", IF pc = "false" /\ error THEN Refused ELSE Ok(seen))

Answers ==
    \/ AnswerReadLine \/ AnswerReadLines \/ AnswerReadAllLines
    \/ AnswerHead \/ AnswerForEachLine
-----------------------------------------------------------------------------
(* The loop of nextView.                                                    *)

Give(line) == seen' = Append(seen, line) /\ pc' = "caller"

\* A newline in the block: the line ends there.
FoundNl ==
    /\ pc = "scan"
    /\ \E p \in NewlinesIn(chunk, 0, Len(chunk)) :
        /\ NewlinesIn(chunk, 0, p - 1) = {}
        /\ chunk' = SubSeq(chunk, p + 1, Len(chunk))
        /\ overflow' = IF overflow = <<>> THEN <<>>
                       ELSE overflow \o SubSeq(chunk, 1, p - 1)
        /\ tailReturned' = (overflow # <<>>)
        /\ Give(overflow \o SubSeq(chunk, 1, p - 1))
    /\ UNCHANGED <<file, call, answer, failed, offset, eof, error>>

\* Mutant: assign where the code appends.
KeepOnlyTheBlock ==
    /\ pc = "scan"
    /\ chunk # <<>> /\ NewlinesIn(chunk, 0, Len(chunk)) = {}
    /\ overflow' = chunk
    /\ chunk' = <<>>
    /\ UNCHANGED <<file, call, pc, offset, seen, answer, failed, eof, error,
                   tailReturned>>

\* No newline in what is left of the block: it is kept.
Keep ==
    /\ pc = "scan"
    /\ chunk # <<>> /\ NewlinesIn(chunk, 0, Len(chunk)) = {}
    /\ overflow' = overflow \o chunk
    /\ chunk' = <<>>
    /\ UNCHANGED <<file, call, pc, seen, answer, failed, offset, eof, error,
                   tailReturned>>

\* Mutant: a last line without a newline is dropped.
AtEofNothing ==
    /\ pc = "scan" /\ chunk = <<>> /\ eof
    /\ pc' = "false"
    /\ UNCHANGED <<file, call, offset, seen, answer, failed, chunk, overflow,
                   eof, error, tailReturned>>

AtEof ==
    /\ pc = "scan" /\ chunk = <<>> /\ eof
    /\ IF overflow # <<>>
       THEN Give(overflow) /\ tailReturned' = TRUE
       ELSE pc' = "false" /\ UNCHANGED <<seen, tailReturned>>
    /\ UNCHANGED <<file, call, answer, failed, offset, chunk, overflow, eof,
                   error>>

Read ==
    /\ pc = "scan" /\ chunk = <<>> /\ ~eof
    /\ chunk' \in Got(Block)
    /\ offset' = offset + Len(chunk')
    /\ UNCHANGED <<file, call, pc, seen, answer, failed, overflow, eof, error,
                   tailReturned>>

\* Mutant: read returned 0 and eof_ is not set.
ReadEndIgnored ==
    /\ pc = "scan" /\ chunk = <<>> /\ ~eof
    /\ offset = Len(file)
    /\ UNCHANGED <<callVars, readerVars>>

ReadEnd ==
    /\ pc = "scan" /\ chunk = <<>> /\ ~eof
    /\ offset = Len(file)
    /\ eof' = TRUE
    /\ UNCHANGED <<file, call, pc, seen, answer, failed, offset, chunk,
                   overflow, error, tailReturned>>

ReadError ==
    /\ pc = "scan" /\ chunk = <<>> /\ ~eof
    /\ error' = TRUE
    /\ eof' = TRUE
    /\ failed' = TRUE
    /\ UNCHANGED <<file, call, pc, seen, answer, offset, chunk, overflow,
                   tailReturned>>

ReaderNext ==
    \/ Open \/ Next_ \/ Answers
    \/ FoundNl \/ Keep \/ AtEof \/ Read \/ ReadEnd \/ ReadError
-----------------------------------------------------------------------------
(* Inductive: where the reader is in the file.                               *)

\* The bytes handed to the reader, the beginning of a line it has kept, and
\* the offset where that line starts.
Taken == offset - Len(chunk)
Begun == IF tailReturned THEN <<>> ELSE overflow
LineStart == Taken - Len(Begun)

ReaderTypes ==
    /\ chunk \in Seq(Byte) /\ overflow \in Seq(Byte)
    /\ eof \in BOOLEAN /\ error \in BOOLEAN /\ tailReturned \in BOOLEAN

BytesInv ==
    /\ LineStart \in Nat
    /\ chunk = SubSeq(file, Taken + 1, offset)
    /\ Begun = SubSeq(file, LineStart + 1, Taken)
    /\ NewlinesIn(file, LineStart, Taken) = {}
    /\ eof => error \/ offset = Len(file)
    /\ error => eof
    /\ failed <=> error

\* Every line before that one has been handed out, and nothing else; unless
\* the end was reached (or a read failed) behind the last one, which has no
\* newline.
BetweenLines ==
    /\ LineStart = 0 \/ file[LineStart] = Nl
    /\ Len(seen) = NewlinesBefore(file, LineStart)
    /\ \A i \in DOMAIN seen : IsLine(i, seen[i])

BehindTheLast ==
    /\ eof /\ chunk = <<>> /\ Begun = <<>>
    /\ offset > 0 /\ file[offset] # Nl
    /\ Len(seen) = NewlinesBefore(file, offset) + 1
    /\ \A i \in DOMAIN seen :
          \/ IsLine(i, seen[i])
          \/ /\ error /\ i = Len(seen)
             /\ i <= Len(Lines(file)) /\ IsPrefix(seen[i], Lines(file)[i])

\* No caller has more lines than it wants.
NotTooMany ==
    /\ call.api \in {"readLine", "head"} => Len(seen) <= call.n
    /\ call.api = "readLines" /\ pc # "open" => Len(seen) <= LastLine(call)
    /\ call.api = "forEachLine" => call.n = 0 \/ Len(seen) <= call.n

LoopInv ==
    /\ pc \in {"open", "caller", "scan", "false"}
    /\ NotTooMany
    /\ pc \in {"scan", "false"} => WantsMore /\ ~tailReturned
    /\ pc = "false" => eof /\ chunk = <<>> /\ overflow = <<>>

ReaderInv ==
    call.api \in ReaderApis /\ pc # "done" =>
        ReaderTypes /\ BytesInv /\ (BetweenLines \/ BehindTheLast) /\ LoopInv
=============================================================================
