------------------------------ MODULE LineEdit ------------------------------
(* A call of insertAt, insertBeforeLine, insertAfterLine, deleteLines or     *)
(* replaceLine (file_edit.cpp): the offsets are searched on one descriptor,  *)
(* replaceLine looks at the old line's end on another, and RewriteRange      *)
(* opens the file once more, copies it around the text into a temporary      *)
(* file and renames that.  One system call per action; of the temporary      *)
(* file, which nobody else has open (TempsExclusive in AtomicWrite), only    *)
(* the contents matter.                                                      *)
EXTENDS Edits

CONSTANTS NoFile,  \* there is no temporary file
          Faults   \* may system calls fail?

ASSUME LineEditAssumption == Faults \in BOOLEAN

VARIABLES ed,    \* the call's request, locals and answer
          temp   \* the temporary file

editVars == <<ed, temp>>

EditIdle ==
    /\ ed = [pc |-> "idle"]
    /\ temp = NoFile

EditBegins(request) ==
    /\ ed = [pc |-> "ask", req |-> request, goal |-> "start", fd |-> 0,
             pos |-> 0, need |-> 0, size |-> 0, start |-> 0, end |-> 0,
             text |-> request.text, answer |-> FALSE,
             failed |-> FALSE]         \* history: some system call has failed
    /\ temp = NoFile

At(point) == ed.pc = point
Is(apis) == ed.req.api \in apis

Return(e, answer) == ed' = [e EXCEPT !.pc = "done", !.answer = answer]
Refuse == Return(ed, FALSE)
-----------------------------------------------------------------------------
(* Arguments, and the search for the offsets.                               *)

RewriteFrom(e, start, end) == [e EXCEPT !.pc = "rewrite", !.start = start, !.end = end]

Ask ==
    /\ At("ask")
    /\ \/ /\ Is({"insertAt"})
          /\ ed' = RewriteFrom(ed, ed.req.first, ed.req.first)
       \/ /\ ~Is({"insertAt"})
          /\ ed.req.first = 0 \/ ed.req.last = 0 \/ ed.req.first > ed.req.last
          /\ Refuse
       \/ /\ ~Is({"insertAt"})
          /\ 0 < ed.req.first /\ ed.req.first <= ed.req.last
          /\ ed' = [ed EXCEPT !.pc = "open"]
    /\ UNCHANGED <<versions, temp>>

\* FindLineStartFd for the line the goal stands for.
Target(goal) == CASE goal = "start" -> ed.req.first
                  [] goal = "next" -> Succ(ed.req.last)
                  [] goal = "last" -> ed.req.last

Search(e, goal) ==
    [e EXCEPT !.pc = "search", !.goal = goal, !.pos = 0, !.need = Target(goal) - 1]

Open ==
    /\ At("open") /\ Exists
    /\ LET opened == [ed EXCEPT !.fd = Present]
       IN  \/ /\ Is({"replaceLine"})
              /\ ed' = [opened EXCEPT !.pc = "size"]
           \/ /\ Is({"insertAfterLine"})
              /\ ed' = Search(opened, "next")
           \/ /\ Is({"insertBeforeLine", "deleteLines"})
              /\ ed' = Search(opened, "start")
    /\ UNCHANGED <<versions, temp>>

Size ==
    /\ At("size")
    /\ ed' = Search([ed EXCEPT !.size = Len(versions[ed.fd])], "start")
    /\ UNCHANGED <<versions, temp>>

\* replaceLine looks at the byte before end, if the line is not empty.
EndsAt(e, end) ==
    [e EXCEPT !.pc = IF Is({"replaceLine"}) /\ end > e.start THEN "peek" ELSE "rewrite",
              !.end = end]

Found(offset) ==
    \/ /\ ed.goal = "start" /\ Is({"replaceLine"}) /\ offset >= ed.size
       /\ Refuse
    \/ /\ ed.goal = "start" /\ Is({"insertBeforeLine"})
       /\ ed' = RewriteFrom(ed, offset, offset)
    \/ /\ ed.goal = "start" /\ Is({"replaceLine"}) => offset < ed.size
       /\ ed.goal = "start" /\ Is({"deleteLines", "replaceLine"})
       /\ ed' = Search([ed EXCEPT !.start = offset], "next")
    \/ /\ ed.goal = "next" /\ Is({"insertAfterLine"})
       /\ ed' = RewriteFrom(ed, offset, offset)
    \/ /\ ed.goal = "next" /\ Is({"deleteLines", "replaceLine"})
       /\ ed' = EndsAt(ed, offset)
    \/ /\ ed.goal = "last"
       /\ ed' = [ed EXCEPT !.pc = "lastSize"]

\* nullopt: the line is not there, or a read has failed, which looks the same.
NotFound(e) ==
    \/ /\ e.goal \in {"start", "last"}
       /\ Return(e, FALSE)
    \/ /\ e.goal = "next" /\ Is({"replaceLine"})
       /\ ed' = EndsAt(e, e.size)
    \/ /\ e.goal = "next" /\ Is({"insertAfterLine", "deleteLines"})
       /\ ed' = Search(e, "last")

\* Mutant of SearchBlock: offsets are counted from the block's beginning.
SearchBlockOnly ==
    /\ At("search") /\ Target(ed.goal) > 1
    /\ \E bytes \in Got(ed.fd, ed.pos, Block) :
          LET newlines == Cardinality(NewlinesIn(bytes, 0, Len(bytes)))
          IN  \/ \E p \in NthNewline(bytes, ed.need) : Found(p)
              \/ /\ newlines < ed.need
                 /\ ed' = [ed EXCEPT !.pos = @ + Len(bytes), !.need = @ - newlines]
    /\ UNCHANGED <<versions, temp>>

SearchBlock ==
    /\ At("search") /\ Target(ed.goal) > 1
    /\ \E bytes \in Got(ed.fd, ed.pos, Block) :
          LET newlines == Cardinality(NewlinesIn(bytes, 0, Len(bytes)))
          IN  \/ \E p \in NthNewline(bytes, ed.need) : Found(ed.pos + p)
              \/ /\ newlines < ed.need
                 /\ ed' = [ed EXCEPT !.pos = @ + Len(bytes), !.need = @ - newlines]
    /\ UNCHANGED <<versions, temp>>

SearchEnds ==
    /\ At("search")
    /\ \/ Target(ed.goal) = 0 /\ NotFound(ed)
       \/ Target(ed.goal) = 1 /\ Found(0)
       \/ Target(ed.goal) > 1 /\ AtEnd(ed.fd, ed.pos) /\ NotFound(ed)
    /\ UNCHANGED <<versions, temp>>

SearchFails ==
    /\ Faults /\ At("search") /\ Target(ed.goal) > 1
    /\ NotFound([ed EXCEPT !.failed = TRUE])
    /\ UNCHANGED <<versions, temp>>

\* Behind the last line, or up to the end: FdSize on the same descriptor.
LastSize ==
    /\ At("lastSize")
    /\ LET size == Len(versions[ed.fd])
       IN  ed' = RewriteFrom(ed, IF Is({"insertAfterLine"}) THEN size ELSE ed.start, size)
    /\ UNCHANGED <<versions, temp>>

PeekOpen ==
    /\ At("peek")
    /\ ed' = [ed EXCEPT !.pc = "peekRead", !.fd = Present]
    /\ UNCHANGED <<versions, temp>>

PeekRead ==
    /\ At("peekRead")
    /\ \/ /\ AtEnd(ed.fd, ed.end - 1)
          /\ Refuse
       \/ \E byte \in Got(ed.fd, ed.end - 1, 1) :
             ed' = [ed EXCEPT !.pc = "rewrite",
                              !.text = IF byte = <<Nl>> THEN @ \o <<Nl>> ELSE @]
    /\ UNCHANGED <<versions, temp>>
-----------------------------------------------------------------------------
(* RewriteRange.                                                            *)

RewriteOpen ==
    /\ At("rewrite") /\ Exists
    /\ ed' = [ed EXCEPT !.pc = "range", !.fd = Present, !.pos = 0]
    /\ UNCHANGED <<versions, temp>>

OpenMissing ==
    /\ At("open") \/ At("rewrite")
    /\ ~Exists
    /\ Refuse
    /\ UNCHANGED <<versions, temp>>

InRange == ed.start <= ed.end /\ ed.end <= Len(versions[ed.fd])

CheckRange ==
    /\ At("range")
    /\ \/ ~InRange /\ Refuse
       \/ InRange /\ ed' = [ed EXCEPT !.pc = "create", !.size = Len(versions[ed.fd])]
    /\ UNCHANGED <<versions, temp>>

CreateTemp ==
    /\ At("create")
    /\ temp' = <<>>
    /\ ed' = [ed EXCEPT !.pc = "head"]
    /\ UNCHANGED versions

\* Mutant of Fail: nothing is removed.
FailLeavingTemp(e) ==
    /\ Return(e, FALSE)
    /\ UNCHANGED temp

\* fail: the temporary file is removed.  (On Windows that fails too, the
\* descriptor being open: see AtomicWrite's RemoveTempOpen.)
Fail(e) ==
    /\ Return(e, FALSE)
    /\ temp' = NoFile

CopyHead ==
    /\ At("head") /\ Len(temp) < ed.start
    /\ \E bytes \in Got(ed.fd, ed.pos, Min({Block, ed.start - Len(temp)})) :
          /\ temp' = temp \o bytes
          /\ ed' = [ed EXCEPT !.pos = @ + Len(bytes)]
    /\ UNCHANGED versions

\* Mutant of HeadCutShort: the end of the file ends the copy.
HeadEndsEarly ==
    /\ At("head") /\ Len(temp) < ed.start /\ AtEnd(ed.fd, ed.pos)
    /\ temp' = temp \o ed.text
    /\ ed' = [ed EXCEPT !.pc = IF ed.end < ed.size THEN "seek" ELSE "close"]
    /\ UNCHANGED versions

\* The file has become shorter than its size was.
HeadCutShort ==
    /\ At("head") /\ Len(temp) < ed.start /\ AtEnd(ed.fd, ed.pos)
    /\ Fail(ed)
    /\ UNCHANGED versions

PutText ==
    /\ At("head") /\ Len(temp) = ed.start
    /\ temp' = temp \o ed.text
    /\ ed' = [ed EXCEPT !.pc = IF ed.end < ed.size THEN "seek" ELSE "close"]
    /\ UNCHANGED versions

SeekTail ==
    /\ At("seek")
    /\ ed' = [ed EXCEPT !.pc = "tail", !.pos = ed.end]
    /\ UNCHANGED <<versions, temp>>

CopyTail ==
    /\ At("tail")
    /\ \E bytes \in Got(ed.fd, ed.pos, Block) :
          /\ temp' = temp \o bytes
          /\ ed' = [ed EXCEPT !.pos = @ + Len(bytes)]
    /\ UNCHANGED versions

TailDone ==
    /\ At("tail") /\ AtEnd(ed.fd, ed.pos)
    /\ ed' = [ed EXCEPT !.pc = "close"]
    /\ UNCHANGED <<versions, temp>>

\* CloseFd of out, then of in.
CloseBoth ==
    /\ At("close")
    /\ ed' = [ed EXCEPT !.pc = "rename"]
    /\ UNCHANGED <<versions, temp>>

Rename ==
    /\ At("rename")
    /\ versions' = Append(versions, temp)
    /\ temp' = NoFile
    /\ Return(ed, TRUE)

\* A system call fails: before there is a temporary file, and after.
CallFails ==
    /\ Faults
    /\ \/ /\ ed.pc \in {"open", "size", "lastSize", "peek", "peekRead", "rewrite",
                        "range", "create"}
          /\ Return([ed EXCEPT !.failed = TRUE], FALSE)
          /\ UNCHANGED temp
       \/ /\ ed.pc \in {"head", "seek", "tail", "close", "rename"}
          /\ Fail([ed EXCEPT !.failed = TRUE])
    /\ UNCHANGED versions

EditStep ==
    \/ Ask \/ Open \/ Size \/ SearchBlock \/ SearchEnds \/ SearchFails \/ LastSize
    \/ PeekOpen \/ PeekRead
    \/ RewriteOpen \/ OpenMissing \/ CheckRange \/ CreateTemp
    \/ CopyHead \/ HeadCutShort \/ PutText \/ SeekTail \/ CopyTail \/ TailDone
    \/ CloseBoth \/ Rename \/ CallFails
-----------------------------------------------------------------------------
(* Inductive: what the temporary file is in each step of a rewrite.          *)

EditStates ==
    [pc : {"ask", "open", "size", "search", "lastSize", "peek", "peekRead", "rewrite",
           "range", "create", "head", "seek", "tail", "close", "rename", "done"},
     req : EditRequests, goal : {"start", "next", "last"}, fd : Nat, pos : Nat,
     need : Int, size : Nat, start : Nat, end : Nat, text : Seq(Byte),
     answer : BOOLEAN, failed : BOOLEAN]

Rewriting == ed.pc \in {"head", "seek", "tail", "close", "rename"}
HasFile ==
    Rewriting \/ ed.pc \in {"size", "search", "lastSize", "peek", "peekRead", "range", "create"}

EditTypes ==
    /\ ed = [pc |-> "idle"] \/ ed \in EditStates
    /\ IF Rewriting THEN temp \in Seq(Byte) ELSE temp = NoFile

\* So much of the present file as has been copied, with the text in it.
Copied(m) == Splice(SubSeq(versions[ed.fd], 1, m), ed.start, ed.end, ed.text)

EditInv ==
    /\ HasFile => ed.fd \in 1 .. Present
    /\ ed.pc \in {"range", "create"} => ed.pos = 0
    /\ ed.pc = "create" \/ Rewriting =>
          /\ ed.start <= ed.end /\ ed.end <= ed.size
          /\ "truncated" \notin meanwhile => ed.size <= Len(versions[ed.fd])
    /\ ed.pc = "head" =>
          /\ Len(temp) <= ed.start
          /\ "truncated" \notin meanwhile =>
                ed.pos = Len(temp) /\ temp = SubSeq(versions[ed.fd], 1, ed.pos)
    /\ ed.pc \in {"seek", "tail", "close", "rename"} =>
          /\ Len(temp) >= ed.start + Len(ed.text)
          /\ SubSeq(temp, ed.start + 1, ed.start + Len(ed.text)) = ed.text
    /\ "truncated" \notin meanwhile =>
          /\ ed.pc = "seek" => temp = Copied(ed.end)
          /\ ed.pc = "tail" =>
                ed.pos \in ed.end .. Len(versions[ed.fd]) /\ temp = Copied(ed.pos)
          /\ ed.pc \in {"close", "rename"} =>
                \E m \in ed.end .. Len(versions[ed.fd]) : temp = Copied(m)
    /\ ed.pc \notin {"idle", "done"} \/ (ed.pc = "done" /\ ~ed.answer) =>
          "replaced" \in meanwhile \/ Present <= 1

(* Inductive, while nobody else is at the file f: what the searches have     *)
(* found.  The piece i of f ends at Cut(f, i).                               *)

Cut(f, i) == Cuts(f)[i + 1]
PieceCount(f) == Len(Cuts(f)) - 1

\* The lines the request names are there.
Editable(f, e) ==
    IF e.api = "insertAt" THEN e.first <= Len(f)
    ELSE /\ {e.first, e.last} \subseteq 1 .. PieceCount(f) /\ e.first <= e.last
         /\ e.api = "replaceLine" => Cut(f, e.first - 1) < Len(f)

\* What of f it replaces, and by what.
From(f, e) ==
    CASE e.api = "insertAt" -> e.first
      [] e.api = "insertAfterLine" -> Cut(f, e.first)
      [] OTHER -> Cut(f, e.first - 1)
To(f, e) ==
    CASE e.api = "insertAt" -> e.first
      [] e.api = "insertBeforeLine" -> Cut(f, e.first - 1)
      [] OTHER -> Cut(f, e.last)
By(f, e) ==
    IF e.api = "replaceLine" /\ f[Cut(f, e.first)] = Nl THEN e.text \o <<Nl>> ELSE e.text

FirstFound(f) ==
    Is({"deleteLines", "replaceLine"}) =>
        /\ ed.req.first <= PieceCount(f) /\ ed.start = Cut(f, ed.req.first - 1)
        /\ Is({"replaceLine"}) => ed.start < Len(f)

SearchInv(f) ==
    /\ ed.goal = "start" => Is({"insertBeforeLine", "deleteLines", "replaceLine"})
    /\ ed.goal = "next" => Is({"insertAfterLine", "deleteLines", "replaceLine"}) /\ FirstFound(f)
    /\ ed.goal = "last" =>
          /\ Is({"insertAfterLine", "deleteLines"}) /\ FirstFound(f)
          /\ ed.req.last >= PieceCount(f)
    /\ Is({"replaceLine"}) => ed.size = Len(f)
    /\ ed.pos <= Len(f)
    /\ ed.need = Target(ed.goal) - 1 - NewlinesBefore(f, ed.pos)
    /\ Target(ed.goal) > 1 => ed.need >= 1

RangeFound(f) ==
    /\ Is({"insertAt"}) \/ Editable(f, ed.req)
    /\ ed.start = From(f, ed.req) /\ ed.end = To(f, ed.req)

ExactInv ==
    ~ed.failed /\ versions # <<>> =>
        LET f == versions[1]
        IN  /\ Len(f) < SizeMax
            /\ ed.pc \in {"ask", "open", "size", "search", "lastSize", "peek", "peekRead"} =>
                  ed.text = ed.req.text
            /\ ed.pc \in {"open", "size", "search", "lastSize", "peek", "peekRead"} =>
                  ~Is({"insertAt"}) /\ 0 < ed.req.first /\ ed.req.first <= ed.req.last
            /\ ed.pc = "size" => Is({"replaceLine"})
            /\ ed.pc = "search" => SearchInv(f)
            /\ ed.pc = "lastSize" =>
                  /\ Is({"insertAfterLine", "deleteLines"}) /\ FirstFound(f)
                  /\ ed.req.last = PieceCount(f)
            /\ ed.pc \in {"peek", "peekRead"} =>
                  Is({"replaceLine"}) /\ RangeFound(f) /\ ed.start < ed.end
            /\ ed.pc \in {"rewrite", "range", "create"} \/ Rewriting =>
                  RangeFound(f) /\ ed.text = By(f, ed.req)
            /\ ed.pc = "create" \/ Rewriting => Editable(f, ed.req) /\ ed.size = Len(f)
            /\ ed.pc \in {"close", "rename"} => temp = Splice(f, ed.start, ed.end, ed.text)
=============================================================================
