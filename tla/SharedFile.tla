----------------------------- MODULE SharedFile -----------------------------
(* The one file that LineEdit, DirectWrite, Writer and WholeRead are about,  *)
(* as several threads and programs see it.  Nothing here is code of this     *)
(* repository: it is what open(2), read(2), write(2) and rename(2) do the    *)
(* way platform.cpp calls them.  A file is a version of what the name        *)
(* stands for; a descriptor is the number of the version it was opened on.   *)
EXTENDS Lines

CONSTANTS Hole,   \* the byte 0 that fills a gap nobody wrote
          Block   \* kIoBlockSize

ASSUME SharedFileAssumption == Hole \in Others /\ Block \in Nat \ {0}

VARIABLES
    versions,  \* the files the name has stood for, the present one last;
               \* <<>>: there is no file of that name yet
    meanwhile  \* history: what others did to them: "replaced" the file by a
               \* rename, "truncated" it, "appended" to it

fileVars == <<versions, meanwhile>>

Exists == versions # <<>>
Present == Len(versions)

\* open(O_CREAT | O_TRUNC) and open(O_CREAT | O_APPEND).
TruncatedOrNew == IF Exists THEN [versions EXCEPT ![Present] = <<>>] ELSE <<(<<>>)>>
KeptOrNew == IF Exists THEN versions ELSE <<(<<>>)>>

\* The contents f after bytes were written at the offset off.
WrittenAt(f, off, bytes) ==
    [k \in 1 .. Max({Len(f), off + Len(bytes)}) |->
        IF off < k /\ k <= off + Len(bytes) THEN bytes[k - off]
        ELSE IF k <= Len(f) THEN f[k] ELSE Hole]

\* What a read of at most n bytes at the offset off may give, if not nothing.
Got(fd, off, n) ==
    {SubSeq(versions[fd], off + 1, off + k) :
        k \in 1 .. Min({n, Len(versions[fd]) - off})}

AtEnd(fd, off) == off >= Len(versions[fd])

\* f with the bytes start+1..end replaced by text.
Splice(f, start, end, text) ==
    SubSeq(f, 1, start) \o text \o SubSeq(f, end + 1, Len(f))
FileTypes ==
    /\ versions \in Seq(Seq(Byte))
    /\ meanwhile \subseteq {"replaced", "truncated", "appended"}
=============================================================================
