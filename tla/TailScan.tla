------------------------------ MODULE TailScan ------------------------------
(* File::tail (file_read.cpp:359-483): blocks are scanned from the end of    *)
(* the file for the starts of the last n lines, then each line is read.      *)
EXTENDS ReadCall

VARIABLES pos,           \* where the last block scanned begins
          lineStarts,    \* starts found: backwards, then the ones to be read
          endsWithNl,    \* fileEndsWithNl
          line           \* the beginning of the line being read

tailVars == <<pos, lineStarts, endsWithNl, line>>

TailIdle ==
    /\ pos = 0
    /\ lineStarts = <<>>
    /\ endsWithNl = FALSE
    /\ line = <<>>

TakeAtMost(n, s) == SubSeq(s, 1, Min({n, Len(s)}))

MoreBlocks == pos > 0 /\ Len(lineStarts) <= call.n

\* An empty file is answered as soon as its size is known.
TailOpen ==
    /\ pc = "open" /\ ~Answered
    /\ pos' = Len(file)
    /\ IF file = <<>> THEN Finish(Ok(<<>>)) ELSE pc' = "blocks" /\ UNCHANGED answer
    /\ UNCHANGED <<file, call, offset, seen, failed, lineStarts, endsWithNl,
                   line>>

\* An lseek or a read fails.
TailFails ==
    /\ \/ pc = "blocks" /\ MoreBlocks
       \/ pc = "seek" /\ lineStarts # <<>>
       \/ pc = "lines"
    /\ failed' = TRUE
    /\ Finish(Refused)
    /\ UNCHANGED <<file, call, offset, seen, tailVars>>

\* Mutant: the position in the block instead of the one in the file.
NewStartsInBlock(lo, hi, skip) ==
    LET nls == Reverse(InOrder({p - lo : p \in NewlinesIn(file, lo, hi)}))
    IN  IF skip /\ nls # <<>> THEN Tail(nls) ELSE nls

\* The newlines of a block, from its end, one of them skipped if the file ends
\* with a newline; each of the others is where a line starts, until there are
\* more than n.
NewStarts(lo, hi, skip) ==
    LET nls == Reverse(InOrder(NewlinesIn(file, lo, hi)))
    IN  IF skip /\ nls # <<>> THEN Tail(nls) ELSE nls

ScanBlock ==
    /\ pc = "blocks" /\ MoreBlocks
    /\ LET toRead == Min({pos, Block})
       IN  /\ pos' = pos - toRead
           /\ endsWithNl' = IF pos = Len(file) THEN file[pos] = Nl ELSE endsWithNl
           /\ offset' = pos
    /\ lineStarts' = TakeAtMost(call.n + 1,
                         lineStarts \o NewStarts(pos', pos, endsWithNl'))
    /\ UNCHANGED <<file, call, pc, seen, answer, failed, line>>

\* The first line is added when the scan got there; the starts are cut to n
\* and put in the order of the file.
OrderStarts ==
    /\ pc = "blocks" /\ ~MoreBlocks
    /\ LET first == IF pos = 0 /\ Len(lineStarts) <= call.n
                    THEN <<0>> ELSE <<>>
       IN  lineStarts' = Reverse(TakeAtMost(call.n, lineStarts \o first))
    /\ pc' = "seek"
    /\ UNCHANGED <<file, call, offset, seen, answer, failed, pos, endsWithNl,
                   line>>

SeekLine ==
    /\ pc = "seek" /\ lineStarts # <<>>
    /\ offset' = Head(lineStarts)
    /\ line' = <<>>
    /\ pc' = "lines"
    /\ UNCHANGED <<file, call, seen, answer, failed, pos, lineStarts,
                   endsWithNl>>

LineDone(l) ==
    /\ seen' = Append(seen, l)
    /\ lineStarts' = Tail(lineStarts)
    /\ pc' = "seek"

\* One read(2) of the line: up to its newline, or all that was read.
ReadLinePart ==
    /\ pc = "lines"
    /\ \E block \in Got(Block) :
        /\ offset' = offset + Len(block)
        /\ LET nls == NewlinesIn(block, 0, Len(block))
           IN  IF nls = {}
               THEN line' = line \o block /\ UNCHANGED <<seen, lineStarts, pc>>
               ELSE /\ LineDone(line \o SubSeq(block, 1, Min(nls) - 1))
                    /\ UNCHANGED line
    /\ UNCHANGED <<file, call, answer, failed, pos, endsWithNl>>

LineAtEnd ==
    /\ pc = "lines" /\ offset = Len(file)
    /\ LineDone(line)
    /\ UNCHANGED <<file, call, offset, answer, failed, pos, endsWithNl, line>>

TailAnswers ==
    /\ pc = "seek" /\ lineStarts = <<>>
    /\ Finish(Ok(seen))
    /\ UNCHANGED <<file, call, offset, seen, failed, tailVars>>

TailNext ==
    \/ TailOpen \/ TailFails \/ ScanBlock \/ OrderStarts
    \/ SeekLine \/ ReadLinePart \/ LineAtEnd \/ TailAnswers
-----------------------------------------------------------------------------
(* Inductive: which lines start where.                                       *)

\* The call that loses a line (see TailIsExact in Reading): the file has more
\* than one block and ends with a newline.
LosesALine ==
    /\ call.api = "tail"
    /\ Len(file) > Block /\ file[Len(file)] = Nl

Total == Len(Lines(file))
ToRead == Min({call.n, Total})

TailTypes ==
    /\ pc \in {"open", "blocks", "seek", "lines"}
    /\ pc = "open" => lineStarts = <<>>
    /\ lineStarts \in Seq(Nat) /\ line \in Seq(Byte)
    /\ pc # "open" => file # <<>>
    /\ pos \in 0 .. Len(file)

\* Going backwards: every start found is one, behind what has been scanned,
\* each before the one found before; and none is missed.
BackwardsInv ==
    pc = "blocks" =>
        /\ seen = <<>>
        /\ Len(lineStarts) <= call.n + 1
        /\ pos = Len(file) => lineStarts = <<>>
        /\ pos < Len(file) => endsWithNl = (file[Len(file)] = Nl)
        /\ \A i \in DOMAIN lineStarts : lineStarts[i] \in StartsOf(file) /\ lineStarts[i] > pos
        /\ \A i, j \in DOMAIN lineStarts : i < j => lineStarts[i] > lineStarts[j]
        /\ ~LosesALine =>
              /\ \A i \in DOMAIN lineStarts : NewlinesBefore(file, lineStarts[i]) = Total - i
              /\ \/ Len(lineStarts) = call.n + 1
                 \/ pos = Len(file)
                 \/ Len(lineStarts) = Total - 1 - NewlinesBefore(file, pos)
              /\ 0 < pos /\ pos < Len(file) => ~endsWithNl

\* Going forwards: the starts of the lines still to be read, which are the
\* last ones, and those read.
ForwardsInv ==
    pc \in {"seek", "lines"} =>
        /\ Len(lineStarts) <= call.n
        /\ seen = <<>> => lineStarts # <<>>
        /\ \A i \in DOMAIN lineStarts : lineStarts[i] \in StartsOf(file)
        /\ \A i, j \in DOMAIN lineStarts : i < j => lineStarts[i] < lineStarts[j]
        /\ ~LosesALine =>
              /\ Len(seen) + Len(lineStarts) = ToRead
              /\ \A i \in DOMAIN lineStarts :
                    NewlinesBefore(file, lineStarts[i]) = Total - Len(lineStarts) + i - 1
              /\ \A i \in DOMAIN seen : seen[i] = Lines(file)[Total - ToRead + i]

LineInv ==
    pc = "lines" =>
        /\ lineStarts # <<>>
        /\ Head(lineStarts) <= offset
        /\ line = SubSeq(file, Head(lineStarts) + 1, offset)
        /\ NewlinesIn(file, Head(lineStarts), offset) = {}

TailInv ==
    call.api = "tail" /\ pc # "done" =>
        TailTypes /\ BackwardsInv /\ ForwardsInv /\ LineInv
=============================================================================
