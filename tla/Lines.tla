------------------------------- MODULE Lines -------------------------------
(* The lines of a file as docs/api.md:438-439 defines them: numbered from 1, *)
(* ended by a newline; an empty file has none, a last line without a newline *)
(* counts, and a newline at the end does not start another line.  A file is  *)
(* a sequence of bytes, an offset is 0-based as in the code, so that the     *)
(* byte at offset o is file[o + 1].                                          *)
EXTENDS Integers, Sequences, SequencesExt

CONSTANTS Nl,      \* the byte '\n'
          Others   \* the other bytes

ASSUME NlAssumption == Nl \notin Others

Byte == Others \cup {Nl}

\* The elements of a finite set of numbers, from the least to the greatest:
\* each has as many elements below it as there are before it.
Below(S, e) == {d \in S : d < e}
InOrder(S) ==
    [i \in 1 .. Cardinality(S) |-> CHOOSE e \in S : Cardinality(Below(S, e)) = i - 1]

\* The positions of the newlines of file among its bytes lo+1..hi.
NewlinesIn(file, lo, hi) == {p \in lo + 1 .. hi : file[p] = Nl}

\* How many there are among the first o bytes.
NewlinesBefore(file, o) == Cardinality(NewlinesIn(file, 0, o))

\* The n-th newline of file, if there is one.
NthNewline(file, n) ==
    {p \in NewlinesIn(file, 0, Len(file)) : NewlinesBefore(file, p) = n}

\* The offsets at which a line starts.
StartsOf(file) ==
    {o \in ({0} \cup NewlinesIn(file, 0, Len(file))) : o < Len(file)}

\* The line that starts at offset o: up to its newline or the end of the file.
LineAt(file, o) ==
    LET ends == NewlinesIn(file, o, Len(file)) \cup {Len(file) + 1}
    IN  SubSeq(file, o + 1, Min(ends) - 1)

Lines(file) ==
    LET starts == InOrder(StartsOf(file))
    IN  [i \in DOMAIN starts |-> LineAt(file, starts[i])]
=============================================================================
