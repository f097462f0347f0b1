----------------------------- MODULE LineCount -----------------------------
(* File::lineCount (file_info.cpp:45-77): newlines counted block by block,   *)
(* and one more line if the last byte read is not a newline.                 *)
EXTENDS ReadCall, NlScan

VARIABLES count,    \* newlines so far
          lastByte  \* the last byte read

countVars == <<count, lastByte>>

CountIdle == count = 0 /\ lastByte = Nl

CountOpen ==
    /\ pc = "open" /\ ~Answered
    /\ pc' = "count"
    /\ UNCHANGED <<file, call, offset, seen, answer, failed, countVars>>

CountBlock ==
    /\ pc = "count"
    /\ \E block \in Got(Block) :
        /\ count' = count + CountNl(block)
        /\ lastByte' = block[Len(block)]
        /\ offset' = offset + Len(block)
    /\ UNCHANGED <<file, call, pc, seen, answer, failed>>

CountReadFails ==
    /\ pc = "count"
    /\ failed' = TRUE
    /\ Finish(Refused)
    /\ UNCHANGED <<file, call, offset, seen, countVars>>

CountEnd ==
    /\ pc = "count" /\ offset = Len(file)
    /\ Finish(Ok(IF offset > 0 /\ lastByte # Nl THEN count + 1 ELSE count))
    /\ UNCHANGED <<file, call, offset, seen, failed, countVars>>

CountNext == CountOpen \/ CountBlock \/ CountReadFails \/ CountEnd
-----------------------------------------------------------------------------
(* Inductive: the newlines of what has been read.                            *)
CountInv ==
    call.api = "lineCount" /\ pc # "done" =>
        /\ pc \in {"open", "count"}
        /\ count = NewlinesBefore(file, offset)
        /\ offset > 0 => lastByte = file[offset]
=============================================================================
