------------------------------ MODULE Sharing ------------------------------
(* Two threads at one file.  The owner makes one call that reads it or edits *)
(* its lines, or lives through one Writer; meanwhile the other thread calls  *)
(* writeAll and appendAll, and another program replaces the file by          *)
(* writeAllAtomic.                                                           *)
EXTENDS LineEdit, Writer

CONSTANTS
    Initials,      \* what the file may contain at first
    TinyInitials,  \* the same before the life of a Writer
    EditCalls,     \* requests for LineEdit
    ReadCalls,     \* requests for WholeRead
    Sessions,      \* how the Writer is made: subset of {"write", "append", "insert"}
    Other,         \* the other thread
    OtherData,     \* what it writes
    Replacements,  \* what the file is replaced by
    MaxOthers,     \* bound: calls of others during a call of the owner,
    MaxAtWriter    \* and during the life of its Writer

ASSUME SharingAssumption ==
    /\ Threads = {Owner, Other} /\ Owner # Other
    /\ Initials \cup TinyInitials \cup Replacements \cup OtherData \cup Texts \subseteq Seq(Byte)
    /\ \A f \in Initials : Len(f) < SizeMax   \* a size is an off_t, which is signed
    /\ EditCalls \subseteq EditRequests /\ ReadCalls \subseteq ReadRequests
    /\ Sessions \subseteq {"write", "append", "insert"}
    /\ MaxOthers \in Nat /\ MaxAtWriter \in Nat

VARIABLE others   \* number of calls of others so far

vars == <<fileVars, editVars, put, rd, w, others>>

EditInit == \E c \in EditCalls : EditBegins(c) /\ ReadIdle /\ WriterIdle

ReadInit == \E c \in ReadCalls : EditIdle /\ ReadBegins(c) /\ WriterIdle

WriterInit ==
    /\ EditIdle
    /\ \E s \in Sessions :
          IF s = "insert"
          THEN ReadBegins([api |-> "readall"]) /\ InsertBegins
          ELSE ReadIdle /\ WriterBegins(s = "append")

Init ==
    /\ \/ /\ EditInit \/ ReadInit
          /\ versions \in {<<>>} \cup {<<f>> : f \in Initials}
       \/ /\ WriterInit
          /\ versions \in {<<>>} \cup {<<f>> : f \in TinyInitials}
    /\ meanwhile = {}
    /\ PutIdle
    /\ others = 0

OwnerStep ==
    \/ EditStep /\ UNCHANGED <<meanwhile, put, rd, w, others>>
    \/ ReadStep /\ UNCHANGED <<editVars, put, w, others>>
    \/ WriterStep /\ UNCHANGED <<editVars, others>>

OthersMay == others < IF w.pc = "none" THEN MaxOthers ELSE MaxAtWriter

OtherBegins ==
    /\ OthersMay
    /\ others' = others + 1
    /\ \E append \in BOOLEAN, data \in OtherData : PutOpen(Other, append, data)
    /\ UNCHANGED <<editVars, rd, w>>

OtherStep ==
    /\ \/ PutStep(Other)
       \/ PutDone(Other) /\ UNCHANGED fileVars
    /\ UNCHANGED <<editVars, rd, w, others>>

OtherReplaces ==
    /\ OthersMay
    /\ others' = others + 1
    /\ \E f \in Replacements : Replaced(f)
    /\ UNCHANGED <<editVars, rd, w>>

OwnerDone == ed.pc \in {"idle", "done"} /\ rd.pc \in {"idle", "done"} /\ w.pc \in {"none", "gone"}

Next == ~OwnerDone /\ (OwnerStep \/ OtherBegins \/ OtherStep \/ OtherReplaces)

Spec == Init /\ [][Next]_vars
-----------------------------------------------------------------------------
(* What can go wrong: line edits.                                           *)

EditReturned == ed.pc = "done"

\* An edit nobody interferes with makes of the file exactly what the edit is
\* to make of its lines, wherever the reads cut it, and returns false only if
\* the lines it names are not there (docs/api.md:182-190), but for the piece
\* behind a last newline, which is not a line by docs/api.md:439 and which the
\* code takes for one (Pieces).  A failed read is excluded: the search takes it
\* for the end of the file, see EditIsExactOrFails.
EditIsExact ==
    EditReturned /\ meanwhile = {} /\ ~ed.failed =>
        IF versions = <<>> THEN ~ed.answer
        ELSE LET wanted == Edited(versions[1], ed.req)
             IN  /\ ed.answer = wanted.ok
                 /\ ed.answer => versions = <<versions[1], wanted.text>>

\* Whatever others do between the searches, the look at the old line and the
\* copy, the file an edit makes is one file that existed, or so much of it as
\* there was while it was copied, with the text at the offset that was found:
\* never parts of two files.  If the file is truncated on the way, the text is
\* still at that offset or the edit fails (file_edit.cpp:62-89).
EditOfOneVersion ==
    [][ed.pc = "rename" /\ Len(versions') > Len(versions) /\ ed' # ed =>
          LET new == versions'[Len(versions')]
              OfOne(v, m) == new = Splice(SubSeq(versions[v], 1, m), ed.start, ed.end, ed.text)
          IN  /\ Len(new) >= ed.start + Len(ed.text)
              /\ SubSeq(new, ed.start + 1, ed.start + Len(ed.text)) = ed.text
              /\ "truncated" \notin meanwhile =>
                     \E v \in 1 .. Len(versions) :
                         \E m \in ed.end .. Len(versions[v]) : OfOne(v, m)]_vars

\* A call that returned false has left no temporary file, and no version of
\* its own, behind; nor has one that returned true a temporary file
\* (tests/test_file.cpp:399-403 looks for one after an edit).
NothingLeft ==
    EditReturned =>
        /\ temp = NoFile
        /\ ~ed.answer /\ "replaced" \notin meanwhile => Len(versions) <= 1
-----------------------------------------------------------------------------
(* Reads.                                                                   *)

ReadReturned == rd.pc = "done"

\* What the files the call has looked at have contained since.
Moments == UNION {{SubSeq(versions[s[1]], 1, m) : m \in s[2] .. Len(versions[s[1]])} : s \in rd.seen}

\* Threads that append and programs that replace the file do not show in an
\* answer: it is that of one file the call has looked at, as the file was at
\* one moment of the call, not the beginning of one or a mixture, and it is
\* refused only for the causes the code has (file_read.cpp:27-42).  filesEqual
\* and readMapped ask for the size by name before they open the file: if it
\* is replaced in between they see so much of the new file, or the mapping
\* goes beyond its end (hash_glob.cpp:166-174, mmap_file.cpp:11-16).
ReadIsOfOneMoment ==
    ReadReturned /\ ~rd.failed /\ ~rd.missing /\ ~Wraps(rd.req)
                 /\ "truncated" \notin meanwhile =>
        \/ \E f \in Moments : rd.answer = ReadPromised(rd.req, f)
        \/ /\ rd.req.api \in {"filesEqual", "readMapped"}
           /\ Cardinality({s[1] : s \in rd.seen}) = 2
           /\ \/ rd.size > Len(versions[rd.fd]) /\ rd.answer \in {Equal(FALSE), Beyond}
              \/ rd.answer = ReadPromised(rd.req, SubSeq(versions[rd.fd], 1, rd.size))
-----------------------------------------------------------------------------
(* The Writer, and writing in place.                                        *)

\* The insertions into the buffer do what the file's edits of the same name
\* do to a file, and one that is refused changes nothing (ROADMAP.md:111).
InsertsLikeTheFile ==
    [][\A e \in Insertions :
          Live /\ Insert(e) =>
              LET wanted == Edited(w.buffer, e)
              IN  w'.buffer = IF wanted.ok THEN wanted.text ELSE w.buffer]_w

\* A commit that returns true, with nobody else at the file, has made the
\* buffer its contents, or its end, and emptied the buffer; one that returns
\* false keeps the buffer for another try (README.md:184).
CommitIsWhole ==
    [][w.pc \in {"committing", "destroying"} /\ w'.pc \in {"live", "gone"} =>
          IF put[Owner].ok
          THEN /\ w'.buffer = <<>>
               /\ meanwhile = {} =>
                      Content = (IF w.append THEN put[Owner].base ELSE <<>>) \o w.buffer
          ELSE w'.buffer = w.buffer]_vars

\* README.md:186 "forgetting commit loses no data": a Writer that commits by
\* itself is gone with an empty buffer, or its last commit was reported to
\* have failed.  (Nothing is said of what clear or a move assignment dropped.)
NothingForgotten ==
    w.pc = "gone" /\ w.autoCommit => w.buffer = <<>> \/ w.reported

\* A Writer made by insert never overwrites what it could not read: what its
\* first commit finds in the file is what insert has read there (docs/api.md:
\* 166), provided that nobody else wrote and exists() did not fail.
InsertRewritesWhatItRead ==
    w.pc \in {"committing", "destroying"} /\ put[Owner].pc = "write"
        /\ w.fresh /\ ~w.blind /\ meanwhile = {}
    => put[Owner].base = w.read

\* The bytes s are found in f, in their order.
KeptIn(s, f) ==
    \E at \in [DOMAIN s -> DOMAIN f] :
        /\ \A i, j \in DOMAIN s : i < j => at[i] < at[j]
        /\ \A i \in DOMAIN s : f[at[i]] = s[i]

\* Threads that append to the same file lose nothing of each other: what a
\* thread has written so far comes after what it found, in its order, and
\* leaves what was there, as long as nobody truncates or overwrites the file.
AppendsKept ==
    \A t \in Threads :
        put[t].pc \in {"write", "close"} /\ put[t].append /\ put[t].intact =>
            LET f == versions[put[t].on]
                found == Len(put[t].base)
            IN  /\ IsPrefix(put[t].base, f)
                /\ KeptIn(SubSeq(put[t].data, 1, put[t].written),
                          SubSeq(f, found + 1, Len(f)))

\* docs/api.md:440 says of every call that on failure it returns false: an
\* edit that returned true has edited what it was to edit, even if a system
\* call failed on the way.
EditIsExactOrFails ==
    EditReturned /\ meanwhile = {} /\ ed.answer =>
        LET wanted == Edited(versions[1], ed.req)
        IN  wanted.ok /\ versions[2] = wanted.text
-----------------------------------------------------------------------------
(* Inductive invariant.                                                     *)

\* The owner does one thing.
Modes ==
    /\ ed.pc # "idle" => rd.pc = "idle" /\ w.pc = "none"
    /\ rd.pc # "idle" => w.pc \in {"none", "reading"}

IInv ==
    /\ FileTypes /\ others \in Nat /\ Modes
    /\ EditTypes /\ EditInv
    /\ PutInv /\ OthersInv /\ OwnerWrote /\ IntactInv /\ AppendsKept
    /\ ReadTypes
    /\ WriterInv /\ InsertInv

\* What holds of an edit besides, while nobody interferes.
Exact ==
    meanwhile = {} /\ ed.pc # "idle" => IF ed.pc = "done" THEN EditIsExact ELSE ExactInv

\* What holds of a read besides, while nobody truncates the file.
Reads ==
    rd.pc # "idle" /\ "truncated" \notin meanwhile => ReadInv /\ ReadIsOfOneMoment
=============================================================================
