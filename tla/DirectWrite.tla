----------------------------- MODULE DirectWrite -----------------------------
(* writeAll, writeBytes and appendAll (file_write.cpp:7-32), and the same    *)
(* three steps inside Writer::commit: open the file itself, WriteFull,       *)
(* CloseFd.  Several threads may be at it at once, each with a descriptor    *)
(* of its own.                                                               *)
EXTENDS SharedFile

CONSTANTS Threads,      \* the threads that write
          Owner,        \* the one whose calls the other modules follow
          WriteFaults   \* may opens, writes and closes fail?

ASSUME DirectWriteAssumption == Owner \in Threads /\ WriteFaults \in BOOLEAN

VARIABLE put   \* thread -> its call in progress

NoPut == [pc |-> "idle", append |-> FALSE, data |-> <<>>, on |-> 0, written |-> 0,
          base |-> <<>>,      \* history: what it found in the file it opened
          intact |-> FALSE,   \* history: since then all others have appended
          ok |-> FALSE]

PutIdle == put = [t \in Threads |-> NoPut]

Content == IF Exists THEN versions[Present] ELSE <<>>

\* Some thread writes into version v at an offset of its own.
Overwritten(v) == \E t \in Threads : put[t].pc = "write" /\ put[t].on = v /\ ~put[t].append

\* What others do is remembered, for the properties of the owner's call.
Note(t, change) ==
    meanwhile' = IF t = Owner THEN meanwhile ELSE meanwhile \cup {change}

PutOpen(t, append, data) ==
    /\ put[t].pc = "idle"
    /\ versions' = IF append THEN KeptOrNew ELSE TruncatedOrNew
    /\ put' = [u \in Threads |->
          IF u = t THEN [NoPut EXCEPT !.pc = "write", !.append = append, !.data = data,
                                      !.on = Len(versions'), !.base = Content,
                                      !.intact = ~Overwritten(Len(versions'))]
          ELSE [put[u] EXCEPT !.intact = @ /\ (append \/ put[u].on # Len(versions'))]]
    /\ Note(t, IF append /\ Exists THEN "appended" ELSE "truncated")

PutOpenFails(t, append, data) ==
    /\ WriteFaults /\ put[t].pc = "idle"
    /\ put' = [put EXCEPT ![t] = [NoPut EXCEPT !.pc = "returned", !.append = append,
                                               !.data = data, !.base = Content]]
    /\ UNCHANGED fileVars

\* Mutant of PutSome: O_APPEND is missing, the end is sought once, by open.
PutSomeAtOffset(t) ==
    /\ put[t].pc = "write"
    /\ \E n \in 1 .. Len(put[t].data) - put[t].written :
          LET p == put[t]
              bytes == SubSeq(p.data, p.written + 1, p.written + n)
          IN  /\ versions' = [versions EXCEPT ![p.on] =
                     WrittenAt(@, p.written + (IF p.append THEN Len(p.base) ELSE 0), bytes)]
              /\ put' = [put EXCEPT ![t].written = @ + n]
    /\ UNCHANGED meanwhile

\* One WriteFd of WriteFull: perhaps not all the bytes.  With O_APPEND they go
\* to what is the end at that moment, else to the descriptor's own offset.
PutSome(t) ==
    /\ put[t].pc = "write"
    /\ \E n \in 1 .. Len(put[t].data) - put[t].written :
          LET p == put[t]
              bytes == SubSeq(p.data, p.written + 1, p.written + n)
          IN  /\ versions' = [versions EXCEPT ![p.on] =
                                 IF p.append THEN @ \o bytes ELSE WrittenAt(@, p.written, bytes)]
              /\ put' = [put EXCEPT ![t].written = @ + n]
    /\ UNCHANGED meanwhile

PutReturns(t, answer) ==
    /\ put' = [put EXCEPT ![t].pc = "returned", ![t].ok = answer]
    /\ UNCHANGED fileVars

PutFails(t) ==
    /\ WriteFaults
    /\ put[t].pc = "write" /\ put[t].written < Len(put[t].data)
    /\ PutReturns(t, FALSE)

PutWritten(t) ==
    /\ put[t].pc = "write" /\ put[t].written = Len(put[t].data)
    /\ put' = [put EXCEPT ![t].pc = "close"]
    /\ UNCHANGED fileVars

PutClose(t) ==
    /\ put[t].pc = "close"
    /\ PutReturns(t, TRUE) \/ (WriteFaults /\ PutReturns(t, FALSE))

PutStep(t) == PutSome(t) \/ PutFails(t) \/ PutWritten(t) \/ PutClose(t)

\* The caller has its answer.
PutDone(t) ==
    /\ put[t].pc = "returned"
    /\ put' = [put EXCEPT ![t] = NoPut]

\* Another program replaces the file: one call of writeAllAtomic, which acts
\* at its rename (AtomicWrite implements FileRegister).
Replaced(f) ==
    /\ versions' = Append(versions, f)
    /\ put' = [t \in Threads |-> [put[t] EXCEPT !.intact = FALSE]]
    /\ meanwhile' = meanwhile \cup {"replaced"}
-----------------------------------------------------------------------------
(* Inductive: what has become of the bytes of each call.                     *)

Puts ==
    [pc : {"idle", "write", "close", "returned"}, append : BOOLEAN, data : Seq(Byte),
     on : Nat, written : Nat, base : Seq(Byte), intact : BOOLEAN, ok : BOOLEAN]

Putting(t) == put[t].pc \in {"write", "close"}
AllWritten(t) == put[t].pc = "close" \/ (put[t].pc = "returned" /\ put[t].ok)

PutInv ==
    /\ put \in [Threads -> Puts]
    /\ \A t \in Threads :
          /\ put[t].written <= Len(put[t].data)
          /\ Putting(t) => put[t].on \in 1 .. Present
          /\ AllWritten(t) => put[t].written = Len(put[t].data)

\* The others truncate and write in place only if that is remembered.
OthersInv ==
    \A t \in Threads \ {Owner} :
        /\ meanwhile = {} => put[t].pc = "idle"
        /\ "truncated" \notin meanwhile /\ put[t].pc = "write" => put[t].append

\* What the owner has written, with nobody else at the file.
OwnerWrote ==
    meanwhile = {} /\ (Putting(Owner) \/ AllWritten(Owner)) =>
        /\ Exists /\ (Putting(Owner) => put[Owner].on = Present)
        /\ Content = (IF put[Owner].append THEN put[Owner].base ELSE <<>>)
                     \o SubSeq(put[Owner].data, 1, put[Owner].written)

\* Only appending threads write to a file that is intact.
IntactInv ==
    \A t, u \in Threads :
        Putting(t) /\ put[t].append /\ put[t].intact
            /\ put[u].pc = "write" /\ put[u].on = put[t].on => put[u].append
=============================================================================
