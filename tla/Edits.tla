------------------------------- MODULE Edits -------------------------------
(* What the line edits are to do to a text, written on its pieces and not    *)
(* on offsets: the reference for File::insertAt .. replaceLine               *)
(* (file_edit.cpp) and for the same-named operations of File::Writer.        *)
EXTENDS SharedFile

CONSTANT SizeMax   \* the greatest size_t
ASSUME SizeMaxAssumption == SizeMax \in Nat

\* size_t arithmetic wraps.
Succ(n) == (n + 1) % (SizeMax + 1)

\* A request: first is a byte position (insertAt) or a line, first..last are
\* the lines of deleteLines (deleteLine(n) is deleteLines(n, n)), which has no
\* text; of every other request last = first.
EditApis == {"insertAt", "insertBeforeLine", "insertAfterLine", "deleteLines",
             "replaceLine"}

EditRequests ==
    {e \in [api : EditApis, first : 0 .. SizeMax, last : 0 .. SizeMax, text : Seq(Byte)] :
        IF e.api = "deleteLines" THEN e.text = <<>> ELSE e.last = e.first}

\* The lines with their newlines, and one more piece, empty, where a line
\* after a last newline (or in an empty file) would begin.  The code finds a
\* start for it (file_edit.cpp:29-30), and so inserts before and after it and
\* deletes it, though it is out of range by docs/api.md:190 and :439; only
\* replaceLine refuses it.
Cuts(f) == <<0>> \o InOrder(NewlinesIn(f, 0, Len(f))) \o <<Len(f)>>
Pieces(f) ==
    [i \in 1 .. Len(Cuts(f)) - 1 |-> SubSeq(f, Cuts(f)[i] + 1, Cuts(f)[i + 1])]

NotEdited == [ok |-> FALSE]
EditedTo(f) == [ok |-> TRUE, text |-> f]

Edited(f, e) ==
    LET p == Pieces(f)
        Between(i, text, j) ==
            EditedTo(FlattenSeq(SubSeq(p, 1, i)) \o text \o FlattenSeq(SubSeq(p, j, Len(p))))
        newline == IF p[e.first] # <<>> /\ Last(p[e.first]) = Nl THEN <<Nl>> ELSE <<>>
    IN  CASE e.api = "insertAt" /\ e.first <= Len(f) ->
                EditedTo(Splice(f, e.first, e.first, e.text))
          [] e.api = "insertBeforeLine" /\ e.first \in DOMAIN p ->
                Between(e.first - 1, e.text, e.first)
          [] e.api = "insertAfterLine" /\ e.first \in DOMAIN p ->
                Between(e.first, e.text, e.first + 1)
          [] e.api = "deleteLines" /\ {e.first, e.last} \subseteq DOMAIN p
                                   /\ e.first <= e.last ->
                Between(e.first - 1, <<>>, e.last + 1)
          [] e.api = "replaceLine" /\ e.first \in DOMAIN p /\ p[e.first] # <<>> ->
                Between(e.first - 1, e.text \o newline, e.first + 1)
          [] OTHER -> NotEdited
=============================================================================
