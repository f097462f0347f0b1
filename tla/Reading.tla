------------------------------ MODULE Reading ------------------------------
(* One call of the line-reading API: the streaming reader, the newline       *)
(* counter or the backward scan, on every file of at most MaxLen bytes.      *)
EXTENDS LineReader, LineCount, TailScan

CONSTANTS MaxLen   \* bound: the length of a file

vars == <<callVars, readerVars, countVars, tailVars>>

Files == UNION {[1 .. k -> Byte] : k \in 0 .. MaxLen}

Init ==
    /\ \E f \in Files, c \in Calls : StartWith(f, c)
    /\ ReaderIdle /\ CountIdle /\ TailIdle

Next ==
    \/ /\ AnswerAtOnce \/ OpenFails
       /\ UNCHANGED <<readerVars, countVars, tailVars>>
    \/ /\ call.api \in ReaderApis
       /\ ReaderNext
       /\ UNCHANGED <<countVars, tailVars>>
    \/ /\ call.api = "lineCount"
       /\ CountNext
       /\ UNCHANGED <<readerVars, tailVars>>
    \/ /\ call.api = "tail"
       /\ TailNext
       /\ UNCHANGED <<readerVars, countVars>>

\* The thread that makes the call is scheduled; nothing needs to fail.
Spec == Init /\ [][Next]_vars
FairSpec == Spec /\ WF_vars(Next /\ failed' = failed)
-----------------------------------------------------------------------------
(* What can go wrong.                                                       *)

\* A call that succeeds has answered with exactly the lines docs/api.md
\* promises, however the reads cut the file into blocks, and even if a read
\* failed on the way: those that look at error() afterwards never pass a
\* cut line off as a result.
ChecksError == call.api \in {"readLines", "readAllLines", "head", "lineCount"}

AnswerIsExact ==
    Succeeded /\ (ChecksError \/ ~failed) /\ ~LosesALine
        => answer = Promised(call, file)

\* A call is refused only because a system call failed or because a line was
\* asked for that the file does not have: no line is overlooked at the end of
\* a block or of the file.
RefusedForCause ==
    answer = Refused => failed \/ Promised(call, file) = Refused

\* The lines the streaming reader gives its caller are those of the file, in
\* order; after a read error the last one may be cut short, and none follows.
OnlyTheLastIsCut ==
    call.api \in ReaderApis =>
        \A i \in DOMAIN seen :
            \/ IsLine(i, seen[i])
            \/ /\ error /\ i = Len(seen)
               /\ i <= Len(Lines(file))
               /\ IsPrefix(seen[i], Lines(file)[i])

\* The backward scan ends with starts of lines, in the order of the file and
\* with none repeated across blocks, at least one and no more than were asked
\* for, even where it loses one.
StartsAreLines ==
    (call.api = "tail" /\ pc = "seek" /\ seen = <<>>) =>
        /\ ToSet(lineStarts) \subseteq StartsOf(file)
        /\ \A i, j \in DOMAIN lineStarts : i < j => lineStarts[i] < lineStarts[j]
        /\ Len(lineStarts) \in 1 .. call.n

\* The loops end: every call returns.
CallReturns == <>(pc = "done")

\* docs/api.md:143 says of tail: the last n lines, a newline at the end giving
\* no line of its own.
TailIsExact ==
    Succeeded /\ call.api = "tail" => answer = Promised(call, file)
-----------------------------------------------------------------------------
\* Inductive.
Inv ==
    /\ CallTypes /\ ReaderInv /\ CountInv /\ TailInv
    /\ AnswerIsExact /\ RefusedForCause /\ OnlyTheLastIsCut
=============================================================================
