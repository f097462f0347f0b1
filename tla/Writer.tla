------------------------------- MODULE Writer -------------------------------
(* The life of a File::Writer (writer.cpp): made by write or, with the       *)
(* contents of the file, by insert; built up; committed, perhaps several     *)
(* times; destroyed.  insert reads the file with readall (WholeRead), commit *)
(* writes it as writeAll and appendAll do (DirectWrite).                     *)
EXTENDS Edits, DirectWrite, WholeRead

CONSTANTS Texts,       \* what write, writeLine and the insertions add
          Positions,   \* byte positions and line numbers they are given
          MaxOps       \* bound: operations on the buffer, moves and commits

ASSUME WriterAssumption == MaxOps \in Nat /\ Positions \subseteq 0 .. SizeMax

VARIABLE w   \* the Writer and its Impl

WriterIdle == w = [pc |-> "none"]

NewWriter(append) ==
    [pc |-> "live", buffer |-> <<>>, append |-> append, poisoned |-> FALSE,
     autoCommit |-> FALSE,
     fresh |-> FALSE,     \* history: insert made it, nothing was committed yet
     read |-> <<>>,       \* history, while fresh: what insert found, <<>> if no file
     blind |-> FALSE,     \* history, while fresh: exists() failed in insert
     reported |-> FALSE,  \* history: a commit failed in the destructor
     ops |-> 0]

WriterBegins(append) == w = NewWriter(append)
InsertBegins == w = [NewWriter(FALSE) EXCEPT !.pc = "reading", !.fresh = TRUE]

Live == w.pc = "live" /\ w.ops < MaxOps
With(changed) == w' = [changed EXCEPT !.ops = @ + 1]
-----------------------------------------------------------------------------
(* File::insert: readall has answered.                                      *)

Answered == w.pc = "reading" /\ rd.pc = "done" /\ rd' = [pc |-> "idle"]
Filled == [w EXCEPT !.pc = "live", !.buffer = rd.answer.value, !.read = rd.answer.value]

\* Mutant of InsertRead: a failed readall leaves an ordinary Writer.
InsertUnpoisoned ==
    /\ Answered
    /\ w' = IF rd.answer.is = "ok" THEN Filled ELSE [w EXCEPT !.pc = "live"]

InsertRead ==
    /\ Answered
    /\ \/ /\ rd.answer.is = "ok"
          /\ w' = Filled
       \/ /\ rd.answer.is = "refused"
          /\ w' = [w EXCEPT !.pc = "live", !.poisoned = Exists]
       \/ /\ rd.answer.is = "refused" /\ ReadFaults      \* exists() fails
          /\ w' = [w EXCEPT !.pc = "live", !.blind = TRUE]
-----------------------------------------------------------------------------
(* The buffer.                                                              *)

\* FindLineStart (platform.cpp:210-225) on the buffer: the offsets at which a
\* line n starts; none if there are not enough newlines.
FindLineStart(n) == IF n = 1 THEN {0} ELSE NthNewline(w.buffer, n - 1)

Inserted(offset, text) == [w EXCEPT !.buffer = Splice(@, offset, offset, text)]

Write ==
    /\ Live
    /\ \E text \in Texts, newline \in {<<>>, <<Nl>>} :   \* write, writeLine
          With([w EXCEPT !.buffer = @ \o text \o newline])

InsertAtPosition(n, text) ==
    With(IF n > Len(w.buffer) THEN w ELSE Inserted(n, text))

InsertBeforeLine(n, text) ==
    \/ FindLineStart(n) = {} /\ With(w)
    \/ \E offset \in FindLineStart(n) : With(Inserted(offset, text))

\* Mutant of InsertAfterLine: without a next line nothing is inserted.
InsertBetweenLines(n, text) ==
    \/ (n = 0 \/ FindLineStart(Succ(n)) = {}) /\ With(w)
    \/ n # 0 /\ \E offset \in FindLineStart(Succ(n)) : With(Inserted(offset, text))

InsertAfterLine(n, text) ==
    \/ (n = 0 \/ FindLineStart(Succ(n)) \cup FindLineStart(n) = {}) /\ With(w)
    \/ n # 0 /\ \E offset \in FindLineStart(Succ(n)) : With(Inserted(offset, text))
    \/ /\ n # 0 /\ FindLineStart(Succ(n)) = {} /\ FindLineStart(n) # {}
       /\ With(Inserted(Len(w.buffer), text))

\* The insertion that request e stands for.
Insert(e) ==
    \/ e.api = "insertAt" /\ InsertAtPosition(e.first, e.text)
    \/ e.api = "insertBeforeLine" /\ InsertBeforeLine(e.first, e.text)
    \/ e.api = "insertAfterLine" /\ InsertAfterLine(e.first, e.text)

Insertions ==
    [api : {"insertAt", "insertBeforeLine", "insertAfterLine"},
     first : Positions, last : {0}, text : Texts]

InsertSome == Live /\ \E e \in Insertions : Insert(e)

Clear == Live /\ With([w EXCEPT !.buffer = <<>>])

SetAutoCommit == Live /\ \E on \in BOOLEAN : With([w EXCEPT !.autoCommit = on])

\* Move assignment from another Writer on the same file: its Impl takes the
\* place of this one's, whose buffer is not committed, and its autoCommit_ too.
MoveAssign ==
    /\ Live
    /\ \E append, on \in BOOLEAN :
          With([NewWriter(append) EXCEPT !.autoCommit = on, !.ops = w.ops])
-----------------------------------------------------------------------------
(* commit, from the program or from the destructor.                         *)

Commit(point) ==
    \/ PutOpen(Owner, w.append, w.buffer) /\ w' = [w EXCEPT !.pc = point, !.ops = @ + 1]
    \/ PutOpenFails(Owner, w.append, w.buffer) /\ w' = [w EXCEPT !.pc = point, !.ops = @ + 1]

CommitCalled == Live /\ ~w.poisoned /\ Commit("committing")

CommitRefused == Live /\ w.poisoned /\ With(w) /\ UNCHANGED <<fileVars, put>>

\* Mutant of CommitReturns: the buffer is cleared whatever WriteFull said.
CommitReturnsEmpty ==
    /\ w.pc \in {"committing", "destroying"}
    /\ PutDone(Owner)
    /\ w' = [w EXCEPT !.pc = IF @ = "committing" THEN "live" ELSE "gone",
                      !.buffer = <<>>,
                      !.fresh = FALSE, !.read = <<>>, !.blind = FALSE,
                      !.reported = w.pc = "destroying" /\ ~put[Owner].ok]
    /\ UNCHANGED fileVars

CommitReturns ==
    /\ w.pc \in {"committing", "destroying"}
    /\ PutDone(Owner)
    /\ w' = [w EXCEPT !.pc = IF @ = "committing" THEN "live" ELSE "gone",
                      !.buffer = IF put[Owner].ok THEN <<>> ELSE @,
                      !.fresh = FALSE, !.read = <<>>, !.blind = FALSE,
                      !.reported = w.pc = "destroying" /\ ~put[Owner].ok]
    /\ UNCHANGED fileVars

\* ~Writer.
MustCommit == w.autoCommit /\ w.buffer # <<>>

\* Mutant of Destroy: it has no commit.
DestroyOnly ==
    /\ w.pc = "live"
    /\ w' = [w EXCEPT !.pc = "gone"]
    /\ UNCHANGED <<fileVars, put>>

Destroy ==
    /\ w.pc = "live"
    /\ \/ MustCommit /\ ~w.poisoned /\ Commit("destroying")
       \/ /\ MustCommit /\ w.poisoned
          /\ w' = [w EXCEPT !.pc = "gone", !.reported = TRUE]
          /\ UNCHANGED <<fileVars, put>>
       \/ /\ ~MustCommit
          /\ w' = [w EXCEPT !.pc = "gone"]
          /\ UNCHANGED <<fileVars, put>>

BufferStep == Write \/ InsertSome \/ Clear \/ SetAutoCommit \/ MoveAssign

WriterStep ==
    \/ InsertRead /\ UNCHANGED <<fileVars, put>>
    \/ BufferStep /\ UNCHANGED <<fileVars, put, rd>>
    \/ (CommitCalled \/ CommitRefused \/ CommitReturns \/ Destroy) /\ UNCHANGED rd
    \/ PutStep(Owner) /\ UNCHANGED <<w, rd>>
-----------------------------------------------------------------------------
(* Inductive: a commit writes the buffer; a Writer made by insert holds what *)
(* it has found, or cannot commit.                                           *)

WriterStates ==
    [pc : {"reading", "live", "committing", "destroying", "gone"}, buffer : Seq(Byte),
     append : BOOLEAN, poisoned : BOOLEAN, autoCommit : BOOLEAN, fresh : BOOLEAN,
     read : Seq(Byte), blind : BOOLEAN, reported : BOOLEAN, ops : Nat]

Committing == w.pc \in {"committing", "destroying"}

WriterInv ==
    /\ w = [pc |-> "none"] \/ w \in WriterStates
    /\ w.pc = "reading" => w = [NewWriter(FALSE) EXCEPT !.pc = "reading", !.fresh = TRUE]
    /\ IF Committing
       THEN /\ put[Owner].pc # "idle" /\ ~w.poisoned
            /\ put[Owner].data = w.buffer /\ put[Owner].append = w.append
       ELSE put[Owner].pc = "idle"
    /\ w.pc = "gone" /\ w.autoCommit => w.buffer = <<>> \/ w.reported
    /\ w.pc = "live" /\ w.fresh /\ ~w.blind /\ ~w.poisoned /\ meanwhile = {} =>
          w.read = Content
    /\ Committing /\ put[Owner].pc = "write" /\ w.fresh /\ ~w.blind /\ meanwhile = {} =>
          put[Owner].base = w.read
\* What insert has read so far, and its answer.
InsertInv ==
    w.pc = "reading" =>
        /\ rd.pc \in {"open", "size", "read", "done"} /\ rd.req.api = "readall"
        /\ meanwhile = {} /\ rd.pc \in {"size", "read"} => rd.fd = Present
        /\ meanwhile = {} /\ rd.pc = "read" =>
              rd.want = Len(Content) /\ rd.got = SubSeq(Content, 1, Len(rd.got))
        /\ rd.pc = "done" =>
              \/ rd.answer = Refused
              \/ /\ rd.answer.is = "ok" /\ rd.answer.value \in Seq(Byte)
                 /\ meanwhile = {} => rd.answer.value = Content
=============================================================================
