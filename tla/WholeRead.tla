------------------------------ MODULE WholeRead ------------------------------
(* A call of readall, readBytes, readRange (file_read.cpp:7-78, 485-534),    *)
(* filesEqual, fileHash, fileCrc32, fileXxHash64 (hash_glob.cpp:160-251) or  *)
(* readMapped (mmap_file.cpp:7-54) on the shared file, one system call per   *)
(* action.                                                                   *)
EXTENDS SharedFile, Hasher

CONSTANTS ReadSizeMax,  \* the greatest size_t and uintmax_t
          StringMax,    \* std::string().max_size(), less than half of it
          Twin,         \* the other file of filesEqual, which nobody changes
          ReadFaults    \* may opens and reads fail?

ASSUME WholeReadAssumption ==
    /\ ReadSizeMax \in Nat /\ StringMax \in Nat /\ 2 * StringMax <= ReadSizeMax
    /\ Twin \in Seq(Byte)
    /\ ReadFaults \in BOOLEAN

VARIABLE rd   \* the call: request, locals and answer

\* The algorithm of each call that hashes; readBytes is readall.
Hashing ==
    [api \in {"fileHash", "fileCrc32", "fileXxHash64"} |->
        CASE api = "fileHash" -> "Sha256"
          [] api = "fileCrc32" -> "Crc32"
          [] api = "fileXxHash64" -> "XxHash64"]

WholeApis == {"readall", "readRange", "filesEqual", "readMapped"} \cup DOMAIN Hashing

Running == [is |-> "running"]
Refused == [is |-> "refused"]
Beyond == [is |-> "beyond"]      \* bytes were looked at that the file has not
Ok(v) == [is |-> "ok", value |-> v]
Equal(b) == [is |-> "equal", value |-> b]

ReadIdle == rd = [pc |-> "idle"]

ReadStart(request) ==
    [pc |-> IF request.api \in {"filesEqual", "readMapped"} THEN "stat" ELSE "open",
     req |-> request,
     hasher |-> NewHasher(IF request.api \in DOMAIN Hashing THEN Hashing[request.api] ELSE "none"),
     fd |-> 0, size |-> 0, want |-> 0, got |-> <<>>,
     answer |-> Running,
     seen |-> {},         \* history: the files looked at, with their sizes then
     failed |-> FALSE,    \* history: a system call has failed
     missing |-> FALSE]   \* history: there was no file

ReadBegins(request) == rd = ReadStart(request)

RAt(point) == rd.pc = point
RIs(apis) == rd.req.api \in apis
RReturn(answer) == rd' = [rd EXCEPT !.pc = "done", !.answer = answer]

\* What a call says that cannot go on: nullopt, or false.
NoAnswer == IF RIs({"filesEqual"}) THEN Equal(FALSE) ELSE Refused

\* What the name stands for now, and its size.
Sight == <<Present, Len(versions[Present])>>

ReadOpen ==
    /\ RAt("open") /\ Exists
    /\ rd' = [rd EXCEPT !.pc = CASE RIs({"readall", "readRange"}) -> "size"
                                 [] RIs({"filesEqual"}) -> "read"
                                 [] RIs(DOMAIN Hashing) -> "stream"
                                 [] RIs({"readMapped"}) -> "view",
                        !.fd = Present, !.seen = @ \cup {Sight}]
    /\ UNCHANGED fileVars

ReadMissing ==
    /\ RAt("open") \/ RAt("stat")
    /\ ~Exists
    /\ rd' = [rd EXCEPT !.pc = "done", !.answer = NoAnswer, !.missing = TRUE]
    /\ UNCHANGED fileVars

StatAnswers(answer) ==
    rd' = [rd EXCEPT !.pc = "done", !.answer = answer, !.seen = {Sight}]

\* std::filesystem::file_size, by name.  filesEqual compares the sizes of its
\* two files, and two empty ones are equal; an empty file is not mapped.
ReadStat ==
    /\ RAt("stat") /\ Exists
    /\ LET size == Len(versions[Present])
       IN  \/ /\ RIs({"filesEqual"}) /\ size # Len(Twin)
              /\ StatAnswers(Equal(FALSE))
           \/ /\ RIs({"filesEqual"}) /\ size = Len(Twin) /\ size = 0
              /\ StatAnswers(Equal(TRUE))
           \/ /\ RIs({"readMapped"}) /\ size = 0
              /\ StatAnswers(Refused)
           \/ /\ size > 0 /\ (RIs({"filesEqual"}) => size = Len(Twin))
              /\ rd' = [rd EXCEPT !.pc = "open", !.size = size, !.want = size,
                                  !.seen = {Sight}]
    /\ UNCHANGED fileVars

\* The bytes readRange wants; offset + remaining is a 64-bit sum.
Remaining(size) ==
    LET all == size - rd.req.offset
        asked == IF rd.req.len = 0 THEN all ELSE rd.req.len
    IN  IF (rd.req.offset + asked) % (ReadSizeMax + 1) > size THEN all ELSE asked

\* The bytes that are wanted of a file of that size; none, if a range begins
\* behind its end.
Wanted(size) ==
    IF ~RIs({"readRange"}) THEN {size}
    ELSE IF rd.req.offset > size THEN {}
    ELSE {Remaining(size)}

\* A size greater than max_size, or no wanted range, is refused.
Sized(size) ==
    /\ RAt("size")
    /\ \/ /\ Wanted(size) = {} \/ \E want \in Wanted(size) : want > StringMax
          /\ RReturn(Refused)
       \/ \E want \in Wanted(size) :
             /\ want <= StringMax
             /\ rd' = [rd EXCEPT !.pc = "read", !.want = want]
    /\ UNCHANGED fileVars

\* Mutant of ReadSize: the size is asked for by name.
ReadSizeByName == Sized(Len(versions[Present]))

\* FdSize, and the range for readRange.
ReadSize == Sized(Len(versions[rd.fd]))

Start == IF RIs({"readRange"}) THEN rd.req.offset ELSE 0
Offset == Start + Len(rd.got)

\* One ReadFd of ReadFull.
ReadSome ==
    /\ RAt("read")
    /\ \E bytes \in Got(rd.fd, Offset, rd.want - Len(rd.got)) :
          rd' = [rd EXCEPT !.got = @ \o bytes]
    /\ UNCHANGED fileVars

\* filesEqual compares block by block as it reads; a difference is final, so
\* the model compares at the end.
ReadDone ==
    /\ RAt("read") /\ Len(rd.got) = rd.want
    /\ RReturn(IF RIs({"filesEqual"}) THEN Equal(rd.got = Twin) ELSE Ok(rd.got))
    /\ UNCHANGED fileVars

ReadShort ==
    /\ RAt("read") /\ Len(rd.got) < rd.want /\ AtEnd(rd.fd, Offset)
    /\ RReturn(NoAnswer)
    /\ UNCHANGED fileVars

\* The loop of fileHash: what is read goes into the Hasher.
HashSome ==
    /\ RAt("stream")
    /\ \E bytes \in Got(rd.fd, Offset, Block) :
          rd' = [rd EXCEPT !.got = @ \o bytes, !.hasher = Update(@, bytes)]
    /\ UNCHANGED fileVars

HashDone ==
    /\ RAt("stream") /\ AtEnd(rd.fd, Offset)
    /\ RReturn(Ok(Finalize(rd.hasher)))
    /\ UNCHANGED fileVars

\* The caller looks at view(), all of it; later it may look again.
View ==
    /\ RAt("view")
    /\ RReturn(IF rd.size <= Len(versions[rd.fd])
               THEN Ok(SubSeq(versions[rd.fd], 1, rd.size)) ELSE Beyond)
    /\ UNCHANGED fileVars

ReadCallFails ==
    /\ ReadFaults
    /\ rd.pc \in {"stat", "open", "size", "read", "stream"}
    /\ rd' = [rd EXCEPT !.pc = "done", !.answer = NoAnswer, !.failed = TRUE]
    /\ UNCHANGED fileVars

ReadStep ==
    \/ ReadOpen \/ ReadMissing \/ ReadStat \/ ReadSize \/ ReadSome
    \/ ReadDone \/ ReadShort \/ HashSome \/ HashDone \/ View \/ ReadCallFails
-----------------------------------------------------------------------------
(* What a call promises of a file with the contents f: bytes that would not  *)
(* fit into a string are refused.                                           *)
InString(v) == IF Len(v) > StringMax THEN Refused ELSE Ok(v)
ReadPromised(c, f) ==
    CASE c.api = "readall" -> InString(f)
      [] c.api \in DOMAIN Hashing -> Ok(Digest(Hashing[c.api], f))
      [] c.api = "readRange" ->
            IF c.offset > Len(f) THEN Refused
            ELSE InString(SubSeq(f, c.offset + 1,
                                 IF c.len = 0 THEN Len(f) ELSE Min({Len(f), c.offset + c.len})))
      [] c.api = "filesEqual" -> Equal(f = Twin)
      [] c.api = "readMapped" -> IF f = <<>> THEN Refused ELSE Ok(f)

\* The length of readRange is so great that offset + len wraps around.
Wraps(c) == c.api = "readRange" /\ c.offset + c.len > ReadSizeMax
-----------------------------------------------------------------------------
(* Inductive: the descriptor and the bytes of a call.                        *)

ReadRequests ==
    [api : WholeApis \ {"readRange"}] \cup [api : {"readRange"}, offset : Nat, len : Nat]

ReadTypes ==
    \/ rd = [pc |-> "idle"]
    \/ /\ rd = [pc |-> rd.pc, req |-> rd.req, hasher |-> rd.hasher, fd |-> rd.fd,
                size |-> rd.size, want |-> rd.want, got |-> rd.got, answer |-> rd.answer,
                seen |-> rd.seen, failed |-> rd.failed, missing |-> rd.missing]
       /\ rd.pc \in {"stat", "open", "size", "read", "stream", "view", "done"}
       /\ rd.req \in ReadRequests
       /\ rd.size \in Nat /\ rd.want \in Nat /\ rd.got \in Seq(Byte)
       /\ rd.pc \in {"size", "read", "stream", "view"} => rd.fd \in 1 .. Present
       /\ rd.pc \in {"stat", "open", "size"} => rd.got = <<>>
       /\ rd.pc = "read" => Len(rd.got) <= rd.want
\* The calls that ask for the size by name, before they open the file.
ByName == RIs({"filesEqual", "readMapped"})

\* What is known at each point of a call, while nobody truncates the file: at
\* which size it has looked at which file, and that what it has read is there.
SizeInv ==
    rd.pc \in {"open", "read", "view"} /\ ByName =>
        /\ rd.size > 0 /\ rd.want = rd.size
        /\ RIs({"filesEqual"}) => rd.size = Len(Twin)

SeenInv ==
    /\ \A s \in rd.seen : s[1] \in 1 .. Present /\ s[2] \in 0 .. Len(versions[s[1]])
    /\ rd.pc = "open" /\ ByName => \E v \in 1 .. Present : rd.seen = {<<v, rd.size>>}
    /\ rd.pc \in {"read", "view"} /\ ByName =>
          \E v \in 1 .. Present, n \in 0 .. Len(versions[rd.fd]) :
              rd.seen = {<<v, rd.size>>, <<rd.fd, n>>}
    /\ rd.pc \in {"size", "read", "stream"} /\ ~ByName =>
          \E n \in 0 .. Len(versions[rd.fd]) :
              /\ <<rd.fd, n>> \in rd.seen
              /\ rd.pc = "read" =>
                    /\ rd.want <= StringMax
                    /\ \E size \in n .. Len(versions[rd.fd]) : rd.want \in Wanted(size)

GotInv ==
    rd.pc \in {"read", "stream"} =>
        /\ Start + Len(rd.got) <= Len(versions[rd.fd])
        /\ rd.got = SubSeq(versions[rd.fd], Start + 1, Start + Len(rd.got))

HasherInv ==
    rd.pc \in {"open", "stream"} /\ RIs(DOMAIN Hashing) =>
        rd.hasher = Hashed(Hashing[rd.req.api], rd.got)

\* The calls that get to each point.
ApiInv ==
    /\ rd.pc = "stat" => ByName
    /\ rd.pc = "size" => RIs({"readall", "readRange"})
    /\ rd.pc = "read" => RIs({"readall", "readRange", "filesEqual"})
    /\ rd.pc = "stream" => RIs(DOMAIN Hashing)
    /\ rd.pc = "view" => RIs({"readMapped"})

ReadInv == SizeInv /\ SeenInv /\ GotInv /\ HasherInv /\ ApiInv
=============================================================================
