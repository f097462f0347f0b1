---------------------------- MODULE SharingProofs ----------------------------
(* Safety of calls that share a file, for every contents, every request and *)
(* every number of calls of the other threads.                              *)
EXTENDS Sharing, LinesProofs

(* -------------------------------- operators ------------------------------ *)

(* The lesser of two numbers.                                                *)
LEMMA MinOfTwo ==
    ASSUME NEW x \in Int, NEW y \in Int
    PROVE  Min({x, y}) \in {x, y} /\ Min({x, y}) <= x /\ Min({x, y}) <= y
  <1>1. \E m \in {x, y} : \A n \in {x, y} : m =< n
    OBVIOUS
  <1>2. Min({x, y}) \in {x, y} /\ \A n \in {x, y} : Min({x, y}) =< n
    BY <1>1, Zenon DEF Min
  <1> QED
    BY <1>2

(* The greater of two numbers.                                               *)
LEMMA MaxOfTwo ==
    ASSUME NEW x \in Int, NEW y \in Int
    PROVE  Max({x, y}) \in {x, y} /\ Max({x, y}) >= x /\ Max({x, y}) >= y
  <1>1. \E m \in {x, y} : \A n \in {x, y} : m >= n
    OBVIOUS
  <1>2. Max({x, y}) \in {x, y} /\ \A n \in {x, y} : Max({x, y}) >= n
    BY <1>1, Zenon DEF Max
  <1> QED
    BY <1>2

(* What fills a hole of a file is a byte like any other.                     *)
LEMMA HoleIsByte == Hole \in Byte
  BY SharedFileAssumption DEF Byte

(* A part of a sequence: its length and its members.                         *)
LEMMA SubSeqType ==
    ASSUME NEW S, NEW s \in Seq(S), NEW m \in Nat, NEW n \in 0 .. Len(s)
    PROVE  /\ SubSeq(s, m + 1, n) \in Seq(S)
           /\ Len(SubSeq(s, m + 1, n)) = IF m <= n THEN n - m ELSE 0
           /\ \A i \in 1 .. Len(SubSeq(s, m + 1, n)) : SubSeq(s, m + 1, n)[i] = s[m + i]
  BY SMTT(30)

(* Concatenation is associative.                                             *)
LEMMA JoinedTwice ==
    ASSUME NEW r \in Seq(Byte), NEW s \in Seq(Byte), NEW t \in Seq(Byte)
    PROVE  (r \o s) \o t = r \o (s \o t)
  BY ConcatAssociative

(* A prefix and what follows it make a longer prefix.                        *)
LEMMA PrefixesJoin ==
    ASSUME NEW S, NEW s \in Seq(S), NEW m \in Nat, NEW n \in Nat, m + n <= Len(s)
    PROVE  SubSeq(s, 1, m) \o SubSeq(s, m + 1, m + n) = SubSeq(s, 1, m + n)
  <1>1. Len(s) \in Nat
    OBVIOUS
  <1>2. 1 \in 1 .. Len(s) + 1 /\ m \in 1 - 1 .. Len(s) /\ m + n \in m .. Len(s)
    BY <1>1
  <1> QED
    BY <1>2, ConcatAdjacentSubSeq

(* What is appended to a file changes no prefix of it.                       *)
LEMMA PrefixKept ==
    ASSUME NEW S, NEW s \in Seq(S), NEW b \in Seq(S), NEW m \in 0 .. Len(s)
    PROVE  SubSeq(s \o b, 1, m) = SubSeq(s, 1, m)
  <1>1. s \o b \in Seq(S) /\ m \in 0 .. Len(s \o b) /\ m \in Nat
    OBVIOUS
  <1>2. /\ SubSeq(s \o b, 1, m) \in Seq(S) /\ SubSeq(s, 1, m) \in Seq(S)
        /\ Len(SubSeq(s \o b, 1, m)) = m /\ Len(SubSeq(s, 1, m)) = m
    BY <1>1
  <1>3. ASSUME NEW i \in 1 .. m PROVE SubSeq(s \o b, 1, m)[i] = SubSeq(s, 1, m)[i]
    BY <1>1
  <1> QED
    BY <1>2, <1>3, SeqEqual

(* What is appended to a file comes behind the rest of it.                   *)
LEMMA RestKept ==
    ASSUME NEW S, NEW s \in Seq(S), NEW b \in Seq(S), NEW m \in 0 .. Len(s)
    PROVE  SubSeq(s \o b, m + 1, Len(s \o b)) = SubSeq(s, m + 1, Len(s)) \o b
  <1> DEFINE l == SubSeq(s \o b, m + 1, Len(s \o b))
             r == SubSeq(s, m + 1, Len(s))
  <1>1. /\ m \in Nat /\ Len(s) \in Nat /\ Len(b) \in Nat /\ s \o b \in Seq(S)
        /\ Len(s \o b) = Len(s) + Len(b)
        /\ \A i \in 1 .. Len(s) + Len(b) :
              (s \o b)[i] = IF i <= Len(s) THEN s[i] ELSE b[i - Len(s)]
    OBVIOUS
  <1>2. /\ r \in Seq(S) /\ Len(r) = Len(s) - m /\ \A i \in 1 .. Len(s) - m : r[i] = s[m + i]
    BY <1>1, SubSeqType
  <1>3. /\ l \in Seq(S) /\ Len(l) = Len(s) - m + Len(b)
        /\ \A i \in 1 .. Len(s) - m + Len(b) : l[i] = (s \o b)[m + i]
    BY <1>1, SubSeqType
  <1> HIDE DEF l, r
  <1>4. /\ r \o b \in Seq(S) /\ Len(r \o b) = Len(r) + Len(b)
        /\ \A i \in 1 .. Len(r) + Len(b) :
              (r \o b)[i] = IF i <= Len(r) THEN r[i] ELSE b[i - Len(r)]
    BY <1>2, ConcatProperties
  <1>5. ASSUME NEW i \in 1 .. Len(l) PROVE l[i] = (r \o b)[i]
    <2>1. i \in 1 .. Len(s) - m + Len(b) /\ m + i \in 1 .. Len(s) + Len(b) /\ i \in Nat
      BY <1>1, <1>3
    <2>2. l[i] = IF m + i <= Len(s) THEN s[m + i] ELSE b[m + i - Len(s)]
      BY <1>1, <1>3, <2>1
    <2>3. (r \o b)[i] = IF i <= Len(s) - m THEN r[i] ELSE b[i - (Len(s) - m)]
      BY <1>2, <1>4, <2>1
    <2>4. i - (Len(s) - m) = m + i - Len(s) /\ (i <= Len(s) - m <=> m + i <= Len(s))
      BY <1>1, <2>1
    <2> QED
      BY <1>1, <1>2, <2>1, <2>2, <2>3, <2>4
  <1>6. Len(l) = Len(r \o b)
    BY <1>2, <1>3, <1>4
  <1> QED
    BY <1>3, <1>4, <1>5, <1>6, SeqEqual DEF l, r

(* What a read gives: some of the bytes that are there.                     *)
LEMMA GotBytes ==
    ASSUME FileTypes, NEW fd \in 1 .. Present, NEW off \in Nat, NEW n \in Nat,
           NEW bytes \in Got(fd, off, n)
    PROVE  /\ bytes \in Seq(Byte) /\ Len(bytes) \in 1 .. n
           /\ off + Len(bytes) <= Len(versions[fd])
           /\ bytes = SubSeq(versions[fd], off + 1, off + Len(bytes))
  <1>1. versions[fd] \in Seq(Byte) /\ Len(versions[fd]) \in Nat
    BY DEF FileTypes, Present
  <1> DEFINE m == Min({n, Len(versions[fd]) - off})
  <1>2. m \in Int /\ m <= n /\ m <= Len(versions[fd]) - off
    <2>1. n \in Int /\ Len(versions[fd]) - off \in Int
      BY <1>1
    <2> HIDE DEF m
    <2>2. m \in {n, Len(versions[fd]) - off} /\ m <= n /\ m <= Len(versions[fd]) - off
      BY <2>1, MinOfTwo, Zenon DEF m
    <2> QED
      BY <2>1, <2>2
  <1> HIDE DEF m
  <1>3. PICK k \in 1 .. m : bytes = SubSeq(versions[fd], off + 1, off + k)
    BY DEF Got, m
  <1>4. k \in Nat /\ 1 <= k /\ k <= n /\ off + k \in 0 .. Len(versions[fd])
    BY <1>1, <1>2
  <1>5. bytes \in Seq(Byte) /\ Len(bytes) = k
    BY <1>1, <1>3, <1>4, SubSeqType
  <1> QED
    BY <1>3, <1>4, <1>5

(* A write leaves a file of bytes, and at the end it appends.                *)
LEMMA WrittenBytes ==
    ASSUME NEW f \in Seq(Byte), NEW off \in Nat, NEW bytes \in Seq(Byte)
    PROVE  /\ WrittenAt(f, off, bytes) \in Seq(Byte)
           /\ off = Len(f) => WrittenAt(f, off, bytes) = f \o bytes
  <1> DEFINE n == Max({Len(f), off + Len(bytes)})
             Byt(k) == IF off < k /\ k <= off + Len(bytes) THEN bytes[k - off]
                       ELSE IF k <= Len(f) THEN f[k] ELSE Hole
             r == [k \in 1 .. n |-> Byt(k)]
  <1>1. n \in Nat /\ n >= Len(f) /\ n >= off + Len(bytes) /\ n \in {Len(f), off + Len(bytes)}
    <2>1. Len(f) \in Int /\ off + Len(bytes) \in Int
      OBVIOUS
    <2> HIDE DEF n
    <2>2. n \in {Len(f), off + Len(bytes)} /\ n >= Len(f) /\ n >= off + Len(bytes)
      BY <2>1, MaxOfTwo, Zenon DEF n
    <2> QED
      BY <2>1, <2>2
  <1>2. WrittenAt(f, off, bytes) = r
    BY DEF WrittenAt
  <1> HIDE DEF n
  <1>3. \A k \in 1 .. n : Byt(k) \in Byte
    BY <1>1, HoleIsByte
  <1>4. r \in Seq(Byte)
    BY <1>1, <1>3
  <1>5. ASSUME off = Len(f) PROVE r = f \o bytes
    <2>1. n = Len(f) + Len(bytes) /\ Len(r) = n
      BY <1>1, <1>5
    <2>2. ASSUME NEW k \in 1 .. n PROVE r[k] = (f \o bytes)[k]
      <3> k \in Nat /\ Len(f) \in Nat
        BY <1>1
      <3>1. CASE k <= Len(f)
        BY <1>1, <1>5, <2>1, <3>1
      <3>2. CASE k > Len(f)
        BY <1>1, <1>5, <2>1, <3>2
      <3>3. k <= Len(f) \/ k > Len(f)
        BY <1>1
      <3> HIDE DEF r
      <3> QED
        BY <3>1, <3>2, <3>3
    <2>3. f \o bytes \in Seq(Byte) /\ Len(f \o bytes) = n
      BY <2>1
    <2> QED
      BY <1>4, <2>1, <2>2, <2>3, SeqEqual
  <1> QED
    BY <1>2, <1>4, <1>5

(* ------------------- what a step does to the files ----------------------- *)

Opens(t) ==
    \E append \in BOOLEAN, data \in Seq(Byte) :
        PutOpen(t, append, data) \/ (t = Owner /\ PutOpenFails(t, append, data))
ByThread(t) == Opens(t) \/ PutStep(t) \/ (PutDone(t) /\ UNCHANGED fileVars)
ByProgram == \E f \in Seq(Byte) : Replaced(f)
ByEdit ==
    /\ put[Owner].pc = "idle" /\ UNCHANGED <<meanwhile, put>>
    /\ \E f \in Seq(Byte) : versions' = Append(versions, f)
Elsewhere == UNCHANGED <<fileVars, put>>

FileStep == (\E t \in Threads : ByThread(t)) \/ ByProgram \/ ByEdit \/ Elsewhere

(* The content under the path is a file of bytes.                            *)
LEMMA ContentType == FileTypes => Content \in Seq(Byte)
  <1> SUFFICES ASSUME FileTypes PROVE Content \in Seq(Byte)
    OBVIOUS
  <1>1. CASE versions = <<>>
    BY <1>1, EmptySeq DEF Content, Exists
  <1>2. CASE versions # <<>>
    <2>1. Len(versions) \in 1 .. Len(versions)
      BY <1>2, EmptySeq DEF FileTypes
    <2> QED
      BY <1>2, <2>1, ElementOfSeq DEF Content, Exists, Present, FileTypes
  <1> QED
    BY <1>1, <1>2

(* The versions after an open for writing: one more at most, and only that   *)
(* one cut.                                                                  *)
LEMMA OpenedFiles ==
    ASSUME FileTypes
    PROVE  /\ TruncatedOrNew \in Seq(Seq(Byte)) /\ KeptOrNew \in Seq(Seq(Byte))
           /\ Len(TruncatedOrNew) \in Nat \ {0} /\ Len(KeptOrNew) = Len(TruncatedOrNew)
           /\ Present <= Len(KeptOrNew)
           /\ \A v \in 1 .. Present : KeptOrNew[v] = versions[v]
           /\ KeptOrNew[Len(KeptOrNew)] = Content
           /\ TruncatedOrNew[Len(KeptOrNew)] = <<>>
           /\ \A v \in 1 .. Present : v # Len(KeptOrNew) => TruncatedOrNew[v] = versions[v]
           /\ Exists => Len(KeptOrNew) = Present
  <1>1. <<>> \in Seq(Byte)
    BY EmptySeq
  <1>2. CASE versions = <<>>
    <2>1. TruncatedOrNew = <<(<<>>)>> /\ KeptOrNew = <<(<<>>)>> /\ Content = <<>> /\ Present = 0
      BY <1>2 DEF TruncatedOrNew, KeptOrNew, Exists, Content, Present
    <2> DEFINE one == <<(<<>>)>>
    <2>2. one \in Seq(Seq(Byte)) /\ Len(one) = 1 /\ one[1] = <<>>
      BY <1>1
    <2> HIDE DEF one
    <2>3. TruncatedOrNew = one /\ KeptOrNew = one
      BY <2>1 DEF one
    <2>4. ~Exists
      BY <1>2 DEF Exists
    <2> QED
      BY <2>1, <2>2, <2>3, <2>4
  <1>3. CASE versions # <<>>
    <2>1. Present \in 1 .. Len(versions) /\ versions \in Seq(Seq(Byte))
      BY <1>3, EmptySeq DEF FileTypes, Present
    <2>2. /\ TruncatedOrNew = [versions EXCEPT ![Present] = <<>>] /\ KeptOrNew = versions
          /\ Content = versions[Present]
      BY <1>3 DEF TruncatedOrNew, KeptOrNew, Exists, Content
    <2>3. /\ TruncatedOrNew \in Seq(Seq(Byte)) /\ Len(TruncatedOrNew) = Len(versions)
          /\ \A v \in 1 .. Len(versions) : TruncatedOrNew[v] = IF v = Present THEN <<>> ELSE versions[v]
      BY <1>1, <2>1, <2>2, ExceptSeq
    <2>4. Present = Len(versions) /\ Present \in Nat \ {0}
      BY <2>1 DEF Present
    <2> HIDE DEF Present
    <2>5. TruncatedOrNew \in Seq(Seq(Byte)) /\ KeptOrNew \in Seq(Seq(Byte))
      BY <2>1, <2>2, <2>3
    <2>6. Len(TruncatedOrNew) = Present /\ Len(KeptOrNew) = Present
      BY <2>2, <2>3, <2>4
    <2>7. \A v \in 1 .. Present : TruncatedOrNew[v] = IF v = Present THEN <<>> ELSE versions[v]
      BY <2>3, <2>4
    <2>8. Present \in 1 .. Present
      BY <2>4
    <2> QED
      BY <2>2, <2>4, <2>5, <2>6, <2>7, <2>8
  <1> QED
    BY <1>2, <1>3

(* A thread without a call is in a state of the type.                        *)
LEMMA NoPutType == NoPut \in Puts
  <1>1. <<>> \in Seq(Byte)
    BY EmptySeq
  <1> QED
    BY <1>1 DEF NoPut, Puts

(* A thread opens the file, to append to it or to write it anew.            *)
LEMMA OpenInv ==
    ASSUME FileTypes, PutInv, NEW t \in Threads, Opens(t)
    PROVE  FileTypes' /\ PutInv'
  <1>1. PICK append \in BOOLEAN, data \in Seq(Byte) :
           PutOpen(t, append, data) \/ PutOpenFails(t, append, data)
    BY DEF Opens
  <1>2. Content \in Seq(Byte) /\ NoPut \in Puts
    BY ContentType, NoPutType
  <1>3. CASE PutOpen(t, append, data)
    <2>1. /\ versions' = IF append THEN KeptOrNew ELSE TruncatedOrNew
          /\ versions' \in Seq(Seq(Byte)) /\ Len(versions') \in Nat \ {0} /\ Present <= Len(versions')
      BY <1>3, OpenedFiles DEF PutOpen
    <2>2. FileTypes'
      BY <1>3, <2>1 DEF FileTypes, PutOpen, Note
    <2> DEFINE new == [NoPut EXCEPT !.pc = "write", !.append = append, !.data = data,
                                    !.on = Len(versions'), !.base = Content,
                                    !.intact = ~Overwritten(Len(versions'))]
               kept(u) == [put[u] EXCEPT !.intact = @ /\ (append \/ put[u].on # Len(versions'))]
    <2>3. put' = [u \in Threads |-> IF u = t THEN new ELSE kept(u)]
      BY <1>3 DEF PutOpen
    <2>4. /\ new \in Puts /\ new.pc = "write" /\ new.written = 0 /\ new.data = data
          /\ new.on = Len(versions') /\ new.ok = FALSE
      BY <1>2, <2>1 DEF NoPut, Puts, Overwritten
    <2>5. ASSUME NEW u \in Threads
          PROVE  /\ kept(u) \in Puts /\ kept(u).pc = put[u].pc /\ kept(u).on = put[u].on
                 /\ kept(u).written = put[u].written /\ kept(u).data = put[u].data
                 /\ kept(u).ok = put[u].ok
      <3>1. put[u] \in Puts
        BY DEF PutInv
      <3> QED
        BY <3>1 DEF Puts
    <2> HIDE DEF new, kept
    <2>6. put' \in [Threads -> Puts]
      BY <2>3, <2>4, <2>5
    <2>7. ASSUME NEW u \in Threads
          PROVE  /\ put'[u].written <= Len(put'[u].data)
                 /\ Putting(u)' => put'[u].on \in 1 .. Len(versions')
                 /\ AllWritten(u)' => put'[u].written = Len(put'[u].data)
      <3>1. CASE u = t
        BY <2>1, <2>3, <2>4, <3>1 DEF Putting, AllWritten
      <3>2. CASE u # t
        <4>1. /\ put[u].written <= Len(put[u].data)
              /\ Putting(u) => put[u].on \in 1 .. Present
              /\ AllWritten(u) => put[u].written = Len(put[u].data)
              /\ Present \in Nat
          BY DEF PutInv, FileTypes, Present
        <4> QED
          BY <2>1, <2>3, <2>5, <3>2, <4>1 DEF Putting, AllWritten
      <3> QED
        BY <3>1, <3>2
    <2> QED
      BY <2>2, <2>6, <2>7 DEF PutInv, Present
  <1>4. CASE PutOpenFails(t, append, data)
    <2> DEFINE new == [NoPut EXCEPT !.pc = "returned", !.append = append, !.data = data, !.base = Content]
    <2>1. new \in Puts /\ new.pc = "returned" /\ new.written = 0 /\ new.data = data /\ ~new.ok
      BY <1>2 DEF NoPut, Puts
    <2>2. put' = [put EXCEPT ![t] = new] /\ versions' = versions /\ meanwhile' = meanwhile
      BY <1>4 DEF PutOpenFails, fileVars
    <2> HIDE DEF new
    <2>3. FileTypes'
      BY <2>2 DEF FileTypes
    <2> QED
      BY <2>1, <2>2, <2>3 DEF PutInv, Putting, AllWritten, Present
  <1> QED
    BY <1>1, <1>3, <1>4

(* A write puts bytes of the call at the end of the file, or in their place. *)
LEMMA SomeBytes ==
    ASSUME FileTypes, PutInv, NEW t \in Threads, PutSome(t)
    PROVE  \E n \in Nat \ {0} :
              LET bytes == SubSeq(put[t].data, put[t].written + 1, put[t].written + n)
                  v == put[t].on
              IN  /\ put[t].pc = "write" /\ put[t].written + n <= Len(put[t].data)
                  /\ bytes \in Seq(Byte) /\ Len(bytes) = n
                  /\ v \in 1 .. Present
                  /\ versions' \in Seq(Seq(Byte)) /\ Len(versions') = Present
                  /\ versions'[v] = IF put[t].append THEN versions[v] \o bytes
                                    ELSE WrittenAt(versions[v], put[t].written, bytes)
                  /\ \A x \in 1 .. Present : x # v => versions'[x] = versions[x]
                  /\ put' = [put EXCEPT ![t].written = @ + n]
                  /\ meanwhile' = meanwhile
  <1> DEFINE p == put[t]
             Bytes(n) == SubSeq(p.data, p.written + 1, p.written + n)
  <1>1. /\ p \in Puts /\ p.pc = "write" /\ p.on \in 1 .. Present
        /\ p.data \in Seq(Byte) /\ p.written \in Nat
    BY DEF PutInv, PutSome, Putting, Puts
  <1>2. PICK n \in 1 .. Len(p.data) - p.written :
           /\ versions' = [versions EXCEPT ![p.on] =
                  IF p.append THEN versions[p.on] \o Bytes(n)
                  ELSE WrittenAt(versions[p.on], p.written, Bytes(n))]
           /\ put' = [put EXCEPT ![t].written = @ + n]
           /\ meanwhile' = meanwhile
    BY DEF PutSome
  <1>3. /\ n \in Nat \ {0} /\ p.written + n \in 0 .. Len(p.data)
    BY <1>1, <1>2
  <1> HIDE DEF p
  <1>4. Bytes(n) \in Seq(Byte) /\ Len(Bytes(n)) = n
    <2>1. p.written \in Nat /\ p.written + n \in 0 .. Len(p.data) /\ n \in Nat
      BY <1>1, <1>3
    <2>2. Bytes(n) \in Seq(Byte)
          /\ Len(Bytes(n)) = IF p.written <= p.written + n THEN (p.written + n) - p.written ELSE 0
      BY <1>1, <2>1, SubSeqType
    <2> HIDE DEF Bytes
    <2> QED
      BY <2>1, <2>2
  <1> HIDE DEF Bytes
  <1>5. versions \in Seq(Seq(Byte)) /\ p.on \in 1 .. Len(versions) /\ versions[p.on] \in Seq(Byte)
    BY <1>1, ElementOfSeq DEF FileTypes, Present
  <1> DEFINE new == IF p.append THEN versions[p.on] \o Bytes(n)
                    ELSE WrittenAt(versions[p.on], p.written, Bytes(n))
  <1>6. new \in Seq(Byte)
    BY <1>1, <1>4, <1>5, WrittenBytes, ConcatProperties
  <1>7. versions' = [versions EXCEPT ![p.on] = new]
    BY <1>2
  <1> HIDE DEF new
  <1>8. /\ versions' \in Seq(Seq(Byte)) /\ Len(versions') = Len(versions)
        /\ \A x \in 1 .. Len(versions) : versions'[x] = IF x = p.on THEN new ELSE versions[x]
    BY <1>5, <1>6, <1>7, ExceptSeq
  <1>9. p.written + n <= Len(p.data) /\ n \in Nat \ {0}
    BY <1>3
  <1>10. /\ versions'[p.on] = new
         /\ \A x \in 1 .. Present : x # p.on => versions'[x] = versions[x]
    BY <1>5, <1>8 DEF Present
  <1> WITNESS n \in Nat \ {0}
  <1> QED
    BY <1>1, <1>2, <1>4, <1>8, <1>9, <1>10 DEF new, p, Bytes, Present

(* A step of a writing call keeps every thread's descriptor on a version     *)
(* that exists.                                                              *)
LEMMA StepInv ==
    ASSUME FileTypes, PutInv, NEW t \in Threads, PutStep(t)
    PROVE  FileTypes' /\ PutInv'
  <1>1. put[t] \in Puts /\ \A u \in Threads : put[u] \in Puts
    BY DEF PutInv
  <1>2. CASE PutSome(t)
    <2>1. PICK n \in Nat \ {0} :
             /\ put[t].written + n <= Len(put[t].data)
             /\ versions' \in Seq(Seq(Byte)) /\ Len(versions') = Present
             /\ put' = [put EXCEPT ![t].written = @ + n] /\ meanwhile' = meanwhile
             /\ put[t].pc = "write"
      BY <1>2, SomeBytes
    <2>2. /\ put' \in [Threads -> Puts]
          /\ \A u \in Threads : u # t => put'[u] = put[u]
          /\ put'[t].written = put[t].written + n /\ put'[t].data = put[t].data
          /\ put'[t].on = put[t].on /\ put'[t].pc = "write"
      <3> DEFINE q == [put[t] EXCEPT !.written = @ + n]
      <3>1. /\ q \in Puts /\ q.written = put[t].written + n /\ q.data = put[t].data
            /\ q.on = put[t].on /\ q.pc = "write"
        <4>1. put[t] \in Puts /\ put[t].pc = "write" /\ n \in Nat
          BY <1>1, <2>1
        <4>2. put[t].written + n \in Nat
          BY <4>1 DEF Puts
        <4> QED
          BY <4>1, <4>2 DEF Puts
      <3>2. put' = [put EXCEPT ![t] = q] /\ put \in [Threads -> Puts]
        BY <2>1 DEF PutInv
      <3> HIDE DEF q
      <3> QED
        BY <3>1, <3>2
    <2> QED
      BY <2>1, <2>2 DEF PutInv, FileTypes, Putting, AllWritten, Present
  <1>3. CASE PutFails(t) \/ PutClose(t)
    <2>1. PICK answer \in BOOLEAN : PutReturns(t, answer) /\ (answer => AllWritten(t))
      BY <1>3 DEF PutFails, PutClose, AllWritten
    <2>2. /\ put' \in [Threads -> Puts] /\ UNCHANGED fileVars
          /\ \A u \in Threads : u # t => put'[u] = put[u]
          /\ put'[t].written = put[t].written /\ put'[t].data = put[t].data
          /\ put'[t].on = put[t].on /\ put'[t].pc = "returned" /\ put'[t].ok = answer
      BY <1>1, <2>1 DEF PutInv, Puts, PutReturns
    <2> QED
      BY <2>1, <2>2 DEF PutInv, FileTypes, Putting, AllWritten, Present, fileVars
  <1>4. CASE PutWritten(t)
    <2>1. /\ put' \in [Threads -> Puts] /\ UNCHANGED fileVars
          /\ \A u \in Threads : u # t => put'[u] = put[u]
          /\ put'[t].written = put[t].written /\ put'[t].data = put[t].data
          /\ put'[t].on = put[t].on /\ put'[t].pc = "close"
          /\ put[t].pc = "write" /\ put[t].written = Len(put[t].data)
      BY <1>1, <1>4 DEF PutInv, Puts, PutWritten
    <2> QED
      BY <2>1 DEF PutInv, FileTypes, Putting, AllWritten, Present, fileVars
  <1> QED
    BY <1>2, <1>3, <1>4 DEF PutStep

(* So does every step that changes the files.                                *)
LEMMA FilesInv ==
    ASSUME FileTypes, PutInv, FileStep
    PROVE  FileTypes' /\ PutInv'
  <1>1. \A u \in Threads : put[u] \in Puts
    BY DEF PutInv
  <1>2. ASSUME NEW t \in Threads, PutDone(t), UNCHANGED fileVars PROVE FileTypes' /\ PutInv'
    <2>1. put' = [put EXCEPT ![t] = NoPut] /\ NoPut \in Puts
      BY <1>2, NoPutType DEF PutDone
    <2>2. NoPut.pc = "idle" /\ NoPut.written = 0 /\ NoPut.data = <<>>
      BY DEF NoPut
    <2> QED
      BY <1>2, <2>1, <2>2 DEF PutInv, FileTypes, Putting, AllWritten, Present, fileVars
  <1>3. CASE ByProgram
    <2>1. PICK f \in Seq(Byte) : Replaced(f)
      BY <1>3 DEF ByProgram
    <2>2. versions' \in Seq(Seq(Byte)) /\ Len(versions') = Present + 1
      BY <2>1, AppendProperties DEF Replaced, FileTypes, Present
    <2>3. FileTypes'
      BY <2>1, <2>2 DEF FileTypes, Replaced
    <2>4. ASSUME NEW u \in Threads
          PROVE  /\ put'[u] \in Puts /\ put'[u].pc = put[u].pc /\ put'[u].on = put[u].on
                 /\ put'[u].written = put[u].written /\ put'[u].data = put[u].data
                 /\ put'[u].ok = put[u].ok
      BY <1>1, <2>1 DEF Replaced, Puts
    <2>5. put' \in [Threads -> Puts]
      BY <2>1, <2>4 DEF Replaced
    <2>6. Present \in Nat
      BY DEF FileTypes, Present
    <2> QED
      BY SMTT(30), <2>2, <2>3, <2>4, <2>5, <2>6 DEF PutInv, Putting, AllWritten, Present
  <1>4. CASE ByEdit
    <2>1. versions' \in Seq(Seq(Byte)) /\ Len(versions') = Present + 1 /\ Present \in Nat
      BY <1>4, AppendProperties DEF ByEdit, FileTypes, Present
    <2> QED
      BY <1>4, <2>1 DEF ByEdit, FileTypes, PutInv, Putting, AllWritten, Present
  <1>5. CASE Elsewhere
    BY <1>5 DEF Elsewhere, fileVars, FileTypes, PutInv, Putting, AllWritten, Present
  <1> QED
    BY <1>2, <1>3, <1>4, <1>5, OpenInv, StepInv DEF FileStep, ByThread

(* ------------------ what a step does to one call ------------------------- *)

Opened(u) ==
    \E append \in BOOLEAN, data \in Seq(Byte) : PutOpen(u, append, data)
Ended(u) == put'[u].pc \in {"idle", "returned"} /\ ~put'[u].ok /\ UNCHANGED fileVars

Same(u) ==
    /\ put'[u].append = put[u].append /\ put'[u].data = put[u].data
    /\ put'[u].on = put[u].on /\ put'[u].base = put[u].base
    /\ put'[u].intact => put[u].intact
Waits(u) ==
    put'[u].pc = put[u].pc /\ put'[u].ok = put[u].ok /\ put'[u].written = put[u].written
Advances(u) ==
    /\ Putting(u) /\ put'[u].pc \in {"close", "returned"} /\ put'[u].written = put[u].written
    /\ AllWritten(u)' => put[u].written = Len(put[u].data)
    /\ UNCHANGED fileVars

Goes(u) ==
    \/ Opened(u)
    \/ Ended(u) /\ (u # Owner => put'[u].pc = "idle")
    \/ Same(u) /\ (Waits(u) \/ PutSome(u) \/ Advances(u))

(* What other threads and programs do leaves the call where it is.          *)
LEMMA Bystander ==
    ASSUME PutInv, NEW u \in Threads, (\E t \in Threads \ {u} : ByThread(t)) \/ ByProgram
    PROVE  Same(u) /\ Waits(u)
  <1>1. put \in [Threads -> Puts] /\ put[u] \in Puts
    BY DEF PutInv
  <1>2. ASSUME NEW t \in Threads \ {u}, ByThread(t) PROVE Same(u) /\ Waits(u)
    <2>1. CASE put'[u] = put[u]
      BY <2>1 DEF Same, Waits
    <2>2. ASSUME NEW append, NEW data, PutOpen(t, append, data) PROVE Same(u) /\ Waits(u)
      <3>1. put'[u] = [put[u] EXCEPT !.intact = @ /\ (append \/ put[u].on # Len(versions'))]
        BY <1>2, <2>2 DEF PutOpen
      <3> QED
        BY <1>1, <3>1 DEF Same, Waits, Puts
    <2>3. (\E append, data : PutOpen(t, append, data)) \/ put'[u] = put[u]
      BY <1>1, <1>2 DEF ByThread, Opens, PutOpenFails, PutStep, PutSome, PutFails, PutClose,
         PutReturns, PutWritten, PutDone
    <2> QED
      BY <2>1, <2>2, <2>3
  <1>3. CASE ByProgram
    <2>1. put'[u] = [put[u] EXCEPT !.intact = FALSE]
      BY <1>3 DEF ByProgram, Replaced
    <2> QED
      BY <1>1, <2>1 DEF Same, Waits, Puts
  <1> QED
    BY <1>2, <1>3

(* A writing call's own step writes or moves it on, and leaves the others'   *)
(* calls alone.                                                              *)
LEMMA OwnStep ==
    ASSUME FileTypes, PutInv, NEW t \in Threads, PutStep(t)
    PROVE  /\ Same(t) /\ (PutSome(t) \/ Advances(t)) /\ put[t].pc # "idle" /\ put'[t].pc # "idle"
           /\ put'[t].pc = "write" => put[t].pc = "write"
  <1>1. put \in [Threads -> Puts] /\ put[t] \in Puts
    BY DEF PutInv
  <1>2. CASE PutSome(t)
    <2>1. PICK n \in Nat : put' = [put EXCEPT ![t].written = @ + n]
      BY <1>1, <1>2, SomeBytes
    <2>2. put'[t] = [put[t] EXCEPT !.written = @ + n]
      BY <1>1, <2>1
    <2>3. Same(t) /\ put[t].pc = "write" /\ put'[t].pc = "write"
      BY <1>1, <1>2, <2>2 DEF Same, Puts, PutSome
    <2> QED
      BY <1>2, <2>3
  <1>3. CASE PutFails(t) \/ PutClose(t)
    <2>1. PICK answer \in BOOLEAN :
             PutReturns(t, answer) /\ (answer => put[t].pc = "close") /\ Putting(t)
      BY <1>3 DEF PutFails, PutClose, Putting
    <2>2. put'[t] = [put[t] EXCEPT !.pc = "returned", !.ok = answer]
      BY <1>1, <2>1 DEF PutReturns
    <2>3. /\ Same(t) /\ put'[t].pc = "returned" /\ put'[t].ok = answer
          /\ put'[t].written = put[t].written
      BY <1>1, <2>2 DEF Same, Puts
    <2>4. answer => put[t].written = Len(put[t].data)
      BY <2>1 DEF PutInv, AllWritten
    <2> QED
      BY <2>1, <2>3, <2>4 DEF Advances, AllWritten, PutReturns, Putting
  <1>4. CASE PutWritten(t)
    <2>1. put'[t] = [put[t] EXCEPT !.pc = "close"]
      BY <1>1, <1>4 DEF PutWritten
    <2>2. Same(t) /\ put'[t].pc = "close" /\ put'[t].written = put[t].written
      BY <1>1, <2>1 DEF Same, Puts
    <2> QED
      BY <1>4, <2>2 DEF Advances, AllWritten, PutWritten, Putting
  <1> QED
    BY <1>2, <1>3, <1>4 DEF PutStep

(* What any step does to one thread's call: nothing, or that call's own      *)
(* step.                                                                     *)
LEMMA CallGoes ==
    ASSUME FileTypes, PutInv, FileStep, NEW u \in Threads
    PROVE  Goes(u)
  <1>1. put \in [Threads -> Puts] /\ put[u] \in Puts
    BY DEF PutInv
  <1>2. CASE Opens(u)
    <2>1. PICK append \in BOOLEAN, data \in Seq(Byte) :
             PutOpen(u, append, data) \/ (u = Owner /\ PutOpenFails(u, append, data))
      BY <1>2 DEF Opens
    <2>2. ASSUME PutOpenFails(u, append, data) PROVE Ended(u)
      <3>1. put'[u] = [NoPut EXCEPT !.pc = "returned", !.append = append, !.data = data, !.base = Content]
        BY <1>1, <2>2 DEF PutOpenFails
      <3>2. put'[u].pc = "returned" /\ put'[u].ok = FALSE
        BY <3>1 DEF NoPut
      <3> QED
        BY <2>2, <3>2 DEF Ended, PutOpenFails
    <2> QED
      BY <2>1, <2>2 DEF Goes, Opened
  <1>3. CASE PutDone(u) /\ UNCHANGED fileVars
    <2>1. put'[u].pc = "idle" /\ put'[u].ok = FALSE
      BY <1>1, <1>3 DEF PutDone, NoPut
    <2> QED
      BY <1>3, <2>1 DEF Ended, Goes
  <1>4. CASE PutStep(u)
    BY <1>4, OwnStep DEF Goes
  <1>5. CASE (\E t \in Threads \ {u} : ByThread(t)) \/ ByProgram
    BY <1>5, Bystander DEF Goes
  <1>6. CASE ByEdit \/ Elsewhere
    <2>1. put' = put
      BY <1>6 DEF ByEdit, Elsewhere
    <2>2. Same(u) /\ Waits(u)
      BY <2>1 DEF Same, Waits
    <2> QED
      BY <2>2 DEF Goes
  <1>7. (\E t \in Threads \ {u} : ByThread(t)) \/ ByThread(u) \/ ByProgram \/ ByEdit \/ Elsewhere
    BY DEF FileStep
  <1> QED
    BY <1>2, <1>3, <1>4, <1>5, <1>6, <1>7 DEF ByThread

(* What others did is never forgotten.                                      *)
LEMMA Remembered ==
    ASSUME FileTypes, PutInv, FileStep
    PROVE  /\ meanwhile \subseteq meanwhile'
           /\ \A t \in Threads \ {Owner}, append \in BOOLEAN, data \in Seq(Byte) :
                 PutOpen(t, append, data) =>
                     meanwhile' # {} /\ (~append => "truncated" \in meanwhile')
  <1>1. ASSUME NEW t \in Threads, ByThread(t) PROVE meanwhile \subseteq meanwhile'
    <2>1. CASE Opens(t)
      BY <2>1 DEF Opens, PutOpen, PutOpenFails, Note, fileVars
    <2>2. CASE PutStep(t) \/ (PutDone(t) /\ UNCHANGED fileVars)
      BY <2>2 DEF PutStep, PutSome, PutFails, PutClose, PutReturns, PutWritten, fileVars
    <2> QED
      BY <1>1, <2>1, <2>2 DEF ByThread
  <1>2. meanwhile \subseteq meanwhile'
    BY <1>1 DEF FileStep, ByProgram, Replaced, ByEdit, Elsewhere, fileVars
  <1> QED
    BY <1>2 DEF PutOpen, Note

(* Only the threads beside the owner write for the others.                   *)
LEMMA OthersStep ==
    ASSUME FileTypes, PutInv, OthersInv, FileStep
    PROVE  OthersInv'
  <1> SUFFICES ASSUME NEW t \in Threads \ {Owner}
               PROVE  /\ meanwhile' = {} => put'[t].pc = "idle"
                      /\ "truncated" \notin meanwhile' /\ put'[t].pc = "write" => put'[t].append
    BY DEF OthersInv
  <1>1. Goes(t) /\ meanwhile \subseteq meanwhile'
    BY CallGoes, Remembered
  <1>2. CASE Opened(t)
    <2>1. PICK append \in BOOLEAN, data \in Seq(Byte) : PutOpen(t, append, data)
      BY <1>2 DEF Opened
    <2>2. put'[t].append = append
      BY <2>1 DEF PutOpen, NoPut, PutInv
    <2> QED
      BY <2>1, <2>2, Remembered
  <1>3. CASE Ended(t) /\ put'[t].pc = "idle"
    BY <1>3
  <1>4. CASE Same(t) /\ (Waits(t) \/ PutSome(t) \/ Advances(t))
    <2>1. put[t].pc = "idle" => put'[t].pc = "idle"
      BY <1>4 DEF Waits, PutSome, Advances, Putting
    <2>2. put'[t].pc = "write" => put[t].pc = "write"
      BY <1>4 DEF Waits, PutSome, Advances
    <2> QED
      BY <1>1, <1>4, <2>1, <2>2 DEF OthersInv, Same
  <1> QED
    BY <1>1, <1>2, <1>3, <1>4 DEF Goes

(* A version keeps what it was opened with until somebody is seen to         *)
(* disturb it.                                                               *)
LEMMA IntactStep ==
    ASSUME FileTypes, PutInv, IntactInv, FileStep
    PROVE  IntactInv'
  <1> SUFFICES ASSUME NEW t \in Threads, NEW u \in Threads,
                      Putting(t)', put'[t].append, put'[t].intact,
                      put'[u].pc = "write", put'[u].on = put'[t].on
               PROVE  put'[u].append
    BY DEF IntactInv
  <1>1. Goes(t) /\ Goes(u) /\ put \in [Threads -> Puts]
    BY CallGoes DEF PutInv
  <1>2. CASE t = u
    BY <1>2
  <1>3. ASSUME t # u, NEW append \in BOOLEAN, NEW data \in Seq(Byte), PutOpen(t, append, data)
        PROVE  put'[u].append
    <2>1. put'[t].on = Len(versions') /\ (put'[t].intact = ~Overwritten(Len(versions')))
      BY <1>1, <1>3 DEF PutOpen, NoPut
    <2>2. put'[u] = [put[u] EXCEPT !.intact = @ /\ (append \/ put[u].on # Len(versions'))]
      BY <1>1, <1>3 DEF PutOpen
    <2>3. put'[u].pc = put[u].pc /\ put'[u].on = put[u].on /\ put'[u].append = put[u].append
      BY <1>1, <2>2 DEF Puts
    <2> QED
      BY <2>1, <2>3 DEF Overwritten
  <1>4. ASSUME t # u, NEW append \in BOOLEAN, NEW data \in Seq(Byte), PutOpen(u, append, data)
        PROVE  put'[u].append
    <2>1. put'[u].on = Len(versions') /\ put'[u].append = append
      BY <1>1, <1>4 DEF PutOpen, NoPut
    <2>2. put'[t] = [put[t] EXCEPT !.intact = @ /\ (append \/ put[t].on # Len(versions'))]
      BY <1>1, <1>4 DEF PutOpen
    <2>3. put'[t].on = put[t].on /\ (put'[t].intact => append \/ put[t].on # Len(versions'))
      BY <1>1, <2>2 DEF Puts
    <2> QED
      BY <2>1, <2>3
  <1>5. CASE Same(t) /\ Same(u) /\ ~Opened(t) /\ ~Opened(u)
    <2>1. Putting(t)
      BY <1>1, <1>5 DEF Goes, Ended, Waits, PutSome, Advances, Putting
    <2>2. put[u].pc = "write"
      BY <1>1, <1>5 DEF Goes, Ended, Waits, PutSome, Advances
    <2> QED
      BY <1>5, <2>1, <2>2 DEF Same, IntactInv
  <1> QED
    BY <1>1, <1>2, <1>3, <1>4, <1>5 DEF Goes, Opened, Ended, Putting

(* A file changes if it is opened to be written anew, or written to.        *)
LEMMA FileChanges ==
    ASSUME FileTypes, PutInv, FileStep
    PROVE  /\ Present <= Len(versions')
           /\ \A v \in 1 .. Present :
                 \/ versions'[v] = versions[v]
                 \/ v = Len(versions')
                    /\ \E t \in Threads, data \in Seq(Byte) : PutOpen(t, FALSE, data)
                 \/ \E t \in Threads : PutSome(t) /\ put[t].on = v
  <1> DEFINE Claim ==
                /\ Present <= Len(versions')
                /\ \A v \in 1 .. Present :
                      \/ versions'[v] = versions[v]
                      \/ v = Len(versions')
                         /\ \E t \in Threads, data \in Seq(Byte) : PutOpen(t, FALSE, data)
                      \/ \E t \in Threads : PutSome(t) /\ put[t].on = v
  <1>1. Present \in Nat
    BY DEF FileTypes, Present
  <1>2. ASSUME UNCHANGED versions PROVE Claim
    BY <1>1, <1>2 DEF Present
  <1>3. ASSUME NEW t \in Threads, Opens(t) PROVE Claim
    <2>1. PICK append \in BOOLEAN, data \in Seq(Byte) :
             PutOpen(t, append, data) \/ PutOpenFails(t, append, data)
      BY <1>3 DEF Opens
    <2>2. CASE PutOpen(t, append, data)
      <3>1. versions' = IF append THEN KeptOrNew ELSE TruncatedOrNew
        BY <2>2 DEF PutOpen
      <3>2. /\ Present <= Len(versions')
            /\ \A v \in 1 .. Present :
                  versions'[v] = versions[v] \/ (append = FALSE /\ v = Len(versions'))
        BY <3>1, OpenedFiles
      <3> QED
        BY <2>2, <3>2
    <2>3. CASE PutOpenFails(t, append, data)
      BY <1>2, <2>3 DEF PutOpenFails, fileVars
    <2> QED
      BY <2>1, <2>2, <2>3
  <1>4. ASSUME NEW t \in Threads, PutStep(t) PROVE Claim
    <2>1. CASE PutSome(t)
      <3>1. /\ Len(versions') = Present
            /\ \A x \in 1 .. Present : x # put[t].on => versions'[x] = versions[x]
        BY <2>1, SomeBytes
      <3>2. Present <= Len(versions')
        BY <1>1, <3>1
      <3>3. \A v \in 1 .. Present : versions'[v] = versions[v] \/ put[t].on = v
        BY <3>1
      <3> QED
        BY <2>1, <3>2, <3>3, Zenon
    <2> QED
      BY <1>2, <1>4, <2>1 DEF PutStep, PutFails, PutClose, PutReturns, PutWritten, fileVars
  <1>5. ASSUME NEW f \in Seq(Byte), versions' = Append(versions, f) PROVE Claim
    <2>1. Len(versions') = Present + 1 /\ \A v \in 1 .. Present : versions'[v] = versions[v]
      BY <1>5, AppendProperties DEF FileTypes, Present
    <2>2. Present <= Len(versions')
      BY <1>1, <2>1
    <2> QED
      BY <2>1, <2>2, Zenon
  <1> QED
    BY <1>2, <1>3, <1>4, <1>5
       DEF FileStep, ByThread, ByProgram, Replaced, ByEdit, Elsewhere, fileVars

(* Undisturbed, the owner's version holds what the owner has written so      *)
(* far.                                                                      *)
LEMMA OwnerWroteStep ==
    ASSUME FileTypes, PutInv, OthersInv, OwnerWrote, FileStep
    PROVE  OwnerWrote'
  <1> SUFFICES ASSUME meanwhile' = {}, Putting(Owner)' \/ AllWritten(Owner)'
               PROVE  /\ Exists' /\ (Putting(Owner)' => put'[Owner].on = Present')
                      /\ Content' = (IF put'[Owner].append THEN put'[Owner].base ELSE <<>>)
                                    \o SubSeq(put'[Owner].data, 1, put'[Owner].written)
    BY DEF OwnerWrote
  <1>1. Owner \in Threads /\ put[Owner] \in Puts /\ put \in [Threads -> Puts]
    BY DirectWriteAssumption DEF PutInv
  <1>2. meanwhile = {} /\ \A t \in Threads \ {Owner} : put[t].pc = "idle" /\ ~Opened(t)
    BY Remembered DEF OthersInv, Opened
  <1>3. Goes(Owner) /\ Content \in Seq(Byte)
    BY <1>1, CallGoes, ContentType
  <1>4. CASE Opened(Owner)
    <2>1. PICK append \in BOOLEAN, data \in Seq(Byte) : PutOpen(Owner, append, data)
      BY <1>4 DEF Opened
    <2> DEFINE p == put'[Owner]
    <2>2. /\ p.append = append /\ p.data = data /\ p.on = Len(versions')
          /\ p.base = Content /\ p.written = 0
      BY <1>1, <2>1 DEF PutOpen, NoPut
    <2>3. versions' = IF append THEN KeptOrNew ELSE TruncatedOrNew
      BY <2>1 DEF PutOpen
    <2>4. Len(versions') \in Nat \ {0} /\ versions'[Len(versions')] = IF append THEN Content ELSE <<>>
      BY <2>3, OpenedFiles
    <2>5. Exists' /\ Content' = IF append THEN Content ELSE <<>>
      BY <2>4 DEF Exists, Content, Present
    <2> HIDE DEF p
    <2>6. SubSeq(p.data, 1, p.written) = <<>>
      BY <2>2, SubSeqEmpty
    <2>7. Content \o <<>> = Content /\ <<>> \o <<>> = <<>>
      BY <1>3, EmptySeq, ConcatEmptySeq
    <2> QED
      BY <2>2, <2>5, <2>6, <2>7 DEF p, Present
  <1>5. ASSUME Same(Owner), Waits(Owner) \/ PutSome(Owner) \/ Advances(Owner),
               Putting(Owner) \/ AllWritten(Owner), ~PutSome(Owner)
        PROVE  /\ Exists' /\ (Putting(Owner)' => put'[Owner].on = Present')
               /\ Content' = (IF put'[Owner].append THEN put'[Owner].base ELSE <<>>)
                             \o SubSeq(put'[Owner].data, 1, put'[Owner].written)
    <2>1. /\ Exists /\ (Putting(Owner) => put[Owner].on = Present)
          /\ Content = (IF put[Owner].append THEN put[Owner].base ELSE <<>>)
                       \o SubSeq(put[Owner].data, 1, put[Owner].written)
      BY <1>2, <1>5 DEF OwnerWrote
    <2>2. Putting(Owner)' => Putting(Owner)
      BY <1>5 DEF Waits, Advances, Putting
    <2>3. versions' = versions
      <3>1. \A t \in Threads : ~Opened(t)
        <4>1. ~Opened(Owner)
          BY <1>1, <1>5 DEF Opened, PutOpen, Putting, AllWritten
        <4> QED
          BY <1>2, <4>1
      <3>2. ~ByProgram
        BY DEF ByProgram, Replaced
      <3>3. ~ByEdit
        BY <1>5 DEF ByEdit, Putting, AllWritten
      <3>4. \A t \in Threads : ~PutSome(t)
        <4>1. \A t \in Threads \ {Owner} : ~PutSome(t)
          BY <1>2 DEF PutSome
        <4> QED
          BY <1>5, <4>1
      <3>5. \A t \in Threads : Opens(t) => versions' = versions
        BY <3>1 DEF Opens, Opened, PutOpenFails, fileVars
      <3>6. \A t \in Threads : PutStep(t) => versions' = versions
        BY <3>4 DEF PutStep, PutFails, PutClose, PutReturns, PutWritten, fileVars
      <3> QED
        BY <3>2, <3>3, <3>5, <3>6 DEF FileStep, ByThread, Elsewhere, fileVars
    <2> QED
      BY <1>5, <2>1, <2>2, <2>3 DEF Same, Waits, Advances, Exists, Content, Present
  <1>6. CASE PutSome(Owner)
    <2> DEFINE p == put[Owner]
               before == IF p.append THEN p.base ELSE <<>>
               Bytes(n) == SubSeq(p.data, p.written + 1, p.written + n)
    <2>1. /\ p \in Puts /\ p.pc = "write"
          /\ p.data \in Seq(Byte) /\ p.written \in Nat /\ p.base \in Seq(Byte)
      BY <1>1, <1>6 DEF PutSome, Puts
    <2>2. /\ Exists /\ p.on = Present /\ Content = versions[Present]
          /\ Content = before \o SubSeq(p.data, 1, p.written)
      BY <1>2, <2>1 DEF OwnerWrote, Putting, Content
    <2>3. PICK n \in Nat \ {0} :
             /\ p.written + n <= Len(p.data)
             /\ Bytes(n) \in Seq(Byte) /\ Len(Bytes(n)) = n
             /\ p.on \in 1 .. Present
             /\ versions' \in Seq(Seq(Byte)) /\ Len(versions') = Present
             /\ versions'[p.on] = IF p.append THEN versions[p.on] \o Bytes(n)
                                  ELSE WrittenAt(versions[p.on], p.written, Bytes(n))
             /\ put' = [put EXCEPT ![Owner].written = @ + n]
      BY <1>1, <1>6, SomeBytes
    <2>4. put'[Owner] = [put[Owner] EXCEPT !.written = @ + n]
      BY <1>1, <2>3
    <2>5. /\ put'[Owner].append = p.append /\ put'[Owner].base = p.base
          /\ put'[Owner].data = p.data /\ put'[Owner].on = p.on
          /\ put'[Owner].written = p.written + n
      BY <2>1, <2>4 DEF Puts
    <2>6. Exists' /\ Present' = Present /\ Content' = versions'[p.on]
      <3>1. Len(versions') = Present /\ Len(versions') # 0
        BY <2>3
      <3>2. versions' # <<>>
        BY <3>1, EmptySeq
      <3> QED
        BY <2>2, <3>1, <3>2 DEF Exists, Present, Content
    <2> HIDE DEF p
    <2>7. SubSeq(p.data, 1, p.written) \o Bytes(n) = SubSeq(p.data, 1, p.written + n)
      BY <2>1, <2>3, PrefixesJoin
    <2>8. SubSeq(p.data, 1, p.written) \in Seq(Byte) /\ Len(SubSeq(p.data, 1, p.written)) = p.written
      <3>1. p.written \in 0 .. Len(p.data) /\ 0 \in Nat
        <4>1. p.written + n <= Len(p.data) /\ n \in Nat
          BY <2>3
        <4>2. Len(p.data) \in Nat /\ p.written \in Nat
          BY <2>1
        <4> QED
          BY <4>1, <4>2
      <3>2. SubSeq(p.data, 0 + 1, p.written) \in Seq(Byte)
            /\ Len(SubSeq(p.data, 0 + 1, p.written)) = IF 0 <= p.written THEN p.written - 0 ELSE 0
        BY <2>1, <3>1, SubSeqType
      <3> QED
        BY <2>1, <3>2
    <2>9. Content' = Content \o Bytes(n)
      <3>1. CASE p.append
        BY <2>2, <2>3, <2>6, <3>1
      <3>2. CASE ~p.append
        <4>1. Content = SubSeq(p.data, 1, p.written)
          BY <2>2, <2>8, <3>2, ConcatEmptySeq
        <4>2. WrittenAt(Content, p.written, Bytes(n)) = Content \o Bytes(n)
          BY <1>3, <2>1, <2>3, <2>8, <4>1, WrittenBytes
        <4> QED
          BY <2>2, <2>3, <2>6, <3>2, <4>2
      <3> QED
        BY <3>1, <3>2
    <2>10. before \in Seq(Byte)
      BY <2>1, EmptySeq
    <2> HIDE DEF before, Bytes
    <2>11. Content' = before \o SubSeq(p.data, 1, p.written + n)
      <3>1. Content' = (before \o SubSeq(p.data, 1, p.written)) \o Bytes(n)
        BY <2>2, <2>9
      <3>2. /\ before \in Seq(Byte) /\ SubSeq(p.data, 1, p.written) \in Seq(Byte)
            /\ Bytes(n) \in Seq(Byte)
        BY <2>3, <2>8, <2>10
      <3>3. (before \o SubSeq(p.data, 1, p.written)) \o Bytes(n)
                = before \o (SubSeq(p.data, 1, p.written) \o Bytes(n))
        BY <3>2, JoinedTwice
      <3> QED
        BY <2>7, <3>1, <3>3
    <2> QED
      BY <2>2, <2>5, <2>6, <2>11 DEF p, before
  <1>7. Same(Owner) /\ (Waits(Owner) \/ Advances(Owner)) => Putting(Owner) \/ AllWritten(Owner)
    BY DEF Same, Waits, Advances, Putting, AllWritten
  <1> QED
    BY <1>3, <1>4, <1>5, <1>6, <1>7 DEF Goes, Ended, Putting, AllWritten

(* --------------- bytes of one thread among those of others --------------- *)

(* Every file keeps the empty sequence.                                      *)
LEMMA KeptNothing ==
    ASSUME NEW f \in Seq(Byte)
    PROVE  KeptIn(<<>>, f)
  <1> DEFINE at == [i \in {} |-> 0]
  <1>1. DOMAIN <<>> = {}
    OBVIOUS
  <1>2. at \in [DOMAIN <<>> -> DOMAIN f]
    BY <1>1
  <1> QED
    BY <1>1, <1>2 DEF KeptIn

(* A file that grows at its end keeps what it kept.                          *)
LEMMA KeptLonger ==
    ASSUME NEW s \in Seq(Byte), NEW f \in Seq(Byte), NEW b \in Seq(Byte), KeptIn(s, f)
    PROVE  KeptIn(s, f \o b)
  <1>1. PICK at \in [DOMAIN s -> DOMAIN f] :
           /\ \A i, j \in DOMAIN s : i < j => at[i] < at[j]
           /\ \A i \in DOMAIN s : f[at[i]] = s[i]
    BY DEF KeptIn
  <1>2. DOMAIN f \subseteq DOMAIN (f \o b) /\ \A k \in DOMAIN f : (f \o b)[k] = f[k]
    OBVIOUS
  <1>3. at \in [DOMAIN s -> DOMAIN (f \o b)] /\ \A i \in DOMAIN s : (f \o b)[at[i]] = s[i]
    <2>1. \A i \in DOMAIN s : at[i] \in DOMAIN f
      OBVIOUS
    <2> QED
      BY <1>1, <1>2, <2>1, Zenon
  <1> QED
    BY <1>1, <1>3, Zenon DEF KeptIn

(* A file that grows by what is to be kept keeps it as well.                 *)
LEMMA KeptMore ==
    ASSUME NEW s \in Seq(Byte), NEW f \in Seq(Byte), NEW b \in Seq(Byte), KeptIn(s, f)
    PROVE  KeptIn(s \o b, f \o b)
  <1>1. PICK old \in [DOMAIN s -> DOMAIN f] :
           /\ \A i, j \in DOMAIN s : i < j => old[i] < old[j]
           /\ \A i \in DOMAIN s : f[old[i]] = s[i]
    BY DEF KeptIn
  <1>2. /\ DOMAIN s = 1 .. Len(s) /\ DOMAIN f = 1 .. Len(f)
        /\ Len(s) \in Nat /\ Len(f) \in Nat /\ Len(b) \in Nat
        /\ DOMAIN (s \o b) = 1 .. Len(s) + Len(b) /\ DOMAIN (f \o b) = 1 .. Len(f) + Len(b)
        /\ \A i \in 1 .. Len(s) + Len(b) :
              (s \o b)[i] = IF i <= Len(s) THEN s[i] ELSE b[i - Len(s)]
        /\ \A i \in 1 .. Len(f) + Len(b) :
              (f \o b)[i] = IF i <= Len(f) THEN f[i] ELSE b[i - Len(f)]
    OBVIOUS
  <1> DEFINE Place(i) == IF i <= Len(s) THEN old[i] ELSE i - Len(s) + Len(f)
             at == [i \in 1 .. Len(s) + Len(b) |-> Place(i)]
  <1>3. \A i \in 1 .. Len(s) : old[i] \in 1 .. Len(f)
    BY <1>1, <1>2
  <1>4. ASSUME NEW i \in 1 .. Len(s) + Len(b)
        PROVE  Place(i) \in 1 .. Len(f) + Len(b) /\ (f \o b)[Place(i)] = (s \o b)[i]
    <2>1. CASE i <= Len(s)
      <3>1. i \in 1 .. Len(s) /\ old[i] \in 1 .. Len(f)
        BY <1>2, <1>3, <2>1
      <3>2. Place(i) = old[i] /\ f[old[i]] = s[i]
        BY <1>1, <1>2, <2>1, <3>1
      <3> HIDE DEF Place
      <3> QED
        BY <1>2, <2>1, <3>1, <3>2
    <2>2. CASE ~(i <= Len(s))
      <3>1. Place(i) = i - Len(s) + Len(f) /\ Place(i) > Len(f) /\ Place(i) \in 1 .. Len(f) + Len(b)
        BY <1>2, <2>2
      <3>2. (s \o b)[i] = b[i - Len(s)]
        BY <1>2, <2>2
      <3> HIDE DEF Place
      <3>3. (f \o b)[Place(i)] = b[Place(i) - Len(f)] /\ Place(i) - Len(f) = i - Len(s)
        BY <1>2, <3>1
      <3> QED
        BY <3>1, <3>2, <3>3
    <2> QED
      BY <2>1, <2>2
  <1>5. ASSUME NEW i \in 1 .. Len(s) + Len(b), NEW j \in 1 .. Len(s) + Len(b), i < j
        PROVE  Place(i) < Place(j)
    <2>1. CASE j <= Len(s)
      <3>1. i \in 1 .. Len(s) /\ j \in 1 .. Len(s) /\ i <= Len(s)
        BY <1>2, <1>5, <2>1
      <3>2. old[i] < old[j]
        BY <1>1, <1>2, <1>5, <3>1
      <3> QED
        BY <2>1, <3>1, <3>2
    <2>2. CASE i <= Len(s) /\ ~(j <= Len(s))
      <3>1. i \in 1 .. Len(s) /\ old[i] \in 1 .. Len(f)
        BY <1>2, <1>3, <2>2
      <3> QED
        BY <1>2, <2>2, <3>1
    <2>3. CASE ~(i <= Len(s)) /\ ~(j <= Len(s))
      BY <1>2, <1>5, <2>3
    <2> QED
      BY <1>2, <1>5, <2>1, <2>2, <2>3
  <1> HIDE DEF Place
  <1>6. /\ at \in [DOMAIN (s \o b) -> DOMAIN (f \o b)]
        /\ \A i \in DOMAIN (s \o b) : at[i] = Place(i)
    BY <1>2, <1>4
  <1> HIDE DEF at
  <1>7. \A i, j \in DOMAIN (s \o b) : i < j => at[i] < at[j]
    BY <1>2, <1>5, <1>6
  <1>8. \A i \in DOMAIN (s \o b) : (f \o b)[at[i]] = (s \o b)[i]
    BY <1>2, <1>4, <1>6
  <1> QED
    BY <1>6, <1>7, <1>8, Zenon DEF KeptIn

(* What a thread has appended after base is in the file behind base.        *)
KeptAfter(base, done, f) ==
    IsPrefix(base, f) /\ KeptIn(done, SubSeq(f, Len(base) + 1, Len(f)))

(* An append that has just opened its file has nothing to keep.              *)
LEMMA KeptAfterOpen ==
    ASSUME NEW f \in Seq(Byte)
    PROVE  KeptAfter(f, <<>>, f)
  <1>1. SubSeq(f, Len(f) + 1, Len(f)) \in Seq(Byte)
    BY SubSeqType
  <1>2. KeptIn(<<>>, SubSeq(f, Len(f) + 1, Len(f)))
    BY <1>1, KeptNothing
  <1>3. Len(f) <= Len(f)
    OBVIOUS
  <1> QED
    BY <1>2, <1>3 DEF KeptAfter, IsPrefix

(* An append of anybody keeps what every append has written.                 *)
LEMMA KeptAfterWrite ==
    ASSUME NEW base \in Seq(Byte), NEW done \in Seq(Byte), NEW f \in Seq(Byte),
           NEW b \in Seq(Byte), KeptAfter(base, done, f)
    PROVE  KeptAfter(base, done, f \o b) /\ KeptAfter(base, done \o b, f \o b)
  <1>1. Len(base) \in 0 .. Len(f) /\ SubSeq(base, 1, Len(base)) = SubSeq(f, 1, Len(base))
    BY DEF KeptAfter, IsPrefix
  <1>2. IsPrefix(base, f \o b)
    <2>1. SubSeq(f \o b, 1, Len(base)) = SubSeq(f, 1, Len(base))
      BY <1>1, PrefixKept
    <2>2. Len(base) <= Len(f \o b)
      BY <1>1
    <2> QED
      BY <1>1, <2>1, <2>2 DEF IsPrefix
  <1> DEFINE rest == SubSeq(f, Len(base) + 1, Len(f))
  <1>3. rest \in Seq(Byte) /\ SubSeq(f \o b, Len(base) + 1, Len(f \o b)) = rest \o b
    <2>1. Len(base) \in Nat /\ Len(f) \in 0 .. Len(f)
      OBVIOUS
    <2>2. rest \in Seq(Byte)
      BY <2>1, SubSeqType
    <2>3. SubSeq(f \o b, Len(base) + 1, Len(f \o b)) = SubSeq(f, Len(base) + 1, Len(f)) \o b
      BY <1>1, RestKept
    <2> QED
      BY <2>2, <2>3
  <1>4. KeptIn(done, rest)
    BY DEF KeptAfter
  <1> HIDE DEF rest
  <1>5. KeptIn(done, rest \o b) /\ KeptIn(done \o b, rest \o b)
    BY <1>3, <1>4, KeptLonger, KeptMore
  <1> QED
    BY <1>2, <1>3, <1>5 DEF KeptAfter

(* While all threads append, no step takes away what one of them has         *)
(* appended.                                                                 *)
LEMMA AppendsStep ==
    ASSUME FileTypes, PutInv, IntactInv, AppendsKept, FileStep
    PROVE  AppendsKept'
  <1> USE DEF KeptAfter
  <1>1. \A t \in Threads :
           Putting(t) /\ put[t].append /\ put[t].intact =>
               KeptAfter(put[t].base, SubSeq(put[t].data, 1, put[t].written), versions[put[t].on])
    BY Zenon DEF AppendsKept, Putting
  <1>2. SUFFICES ASSUME NEW t \in Threads, Putting(t)', put'[t].append, put'[t].intact
                 PROVE  KeptAfter(put'[t].base, SubSeq(put'[t].data, 1, put'[t].written),
                                  versions'[put'[t].on])
    BY Zenon DEF AppendsKept, Putting
  <1> HIDE DEF KeptAfter
  <1> DEFINE p == put[t]
             done == SubSeq(p.data, 1, p.written)
             f == versions[p.on]
  <1>3. Goes(t) /\ put \in [Threads -> Puts] /\ p \in Puts
    BY CallGoes DEF PutInv
  <1>4. CASE Opened(t)
    <2>1. PICK append \in BOOLEAN, data \in Seq(Byte) : PutOpen(t, append, data)
      BY <1>4 DEF Opened
    <2> DEFINE q == put'[t]
    <2>2. q.append = append /\ q.on = Len(versions') /\ q.base = Content /\ q.written = 0
      BY <1>3, <2>1 DEF PutOpen, NoPut
    <2>3. versions' = KeptOrNew
      BY <1>2, <2>1, <2>2 DEF PutOpen
    <2>4. versions'[q.on] = Content /\ Content \in Seq(Byte)
      BY <2>2, <2>3, OpenedFiles, ContentType
    <2> HIDE DEF q
    <2>5. SubSeq(q.data, 1, q.written) = <<>>
      BY <2>2, SubSeqEmpty
    <2> QED
      BY <2>2, <2>4, <2>5, KeptAfterOpen DEF q
  <1>5. CASE Same(t) /\ ~Opened(t)
    <2>1. /\ Putting(t) /\ p.append /\ p.intact
          /\ put'[t].base = p.base /\ put'[t].data = p.data /\ put'[t].on = p.on
      BY <1>2, <1>3, <1>5 DEF Goes, Ended, Same, Waits, PutSome, Advances, Putting
    <2>2. KeptAfter(p.base, done, f) /\ p.on \in 1 .. Present /\ p.written <= Len(p.data)
      BY <1>1, <2>1 DEF PutInv
    <2>3. p.base \in Seq(Byte) /\ p.data \in Seq(Byte) /\ p.written \in Nat /\ p.on \in Nat
      BY <1>3 DEF Puts
    <2>4. done \in Seq(Byte)
      <3>1. p.written \in 0 .. Len(p.data) /\ 0 \in Nat
        BY <2>2, <2>3
      <3> HIDE DEF p
      <3>2. SubSeq(p.data, 0 + 1, p.written) \in Seq(Byte)
        BY <2>3, <3>1, SubSeqType
      <3> QED
        BY <3>2
    <2>5. f \in Seq(Byte)
      BY <2>2, ElementOfSeq DEF FileTypes, Present
    <2> HIDE DEF p, done, f
    <2>6. CASE PutSome(t)
      <3>1. PICK n \in Nat \ {0} :
               LET bytes == SubSeq(p.data, p.written + 1, p.written + n)
               IN  /\ p.written + n <= Len(p.data) /\ bytes \in Seq(Byte)
                   /\ versions'[p.on] = IF p.append THEN f \o bytes
                                        ELSE WrittenAt(f, p.written, bytes)
                   /\ put' = [put EXCEPT ![t].written = @ + n]
        BY <2>6, SomeBytes DEF p, f
      <3> DEFINE bytes == SubSeq(p.data, p.written + 1, p.written + n)
      <3>2. /\ p.written + n <= Len(p.data) /\ bytes \in Seq(Byte)
            /\ versions'[p.on] = f \o bytes
        BY <2>1, <3>1
      <3>3. put'[t].written = p.written + n
        BY <1>3, <3>1 DEF p, Puts
      <3>4. done \o bytes = SubSeq(p.data, 1, p.written + n)
        BY <2>3, <3>2, PrefixesJoin DEF done
      <3> HIDE DEF bytes
      <3>5. KeptAfter(p.base, done \o bytes, f \o bytes)
        BY <2>2, <2>3, <2>4, <2>5, <3>2, KeptAfterWrite
      <3> QED
        BY <2>1, <3>2, <3>3, <3>4, <3>5
    <2>7. CASE ~PutSome(t)
      <3>1. put'[t].written = p.written
        BY <1>2, <1>3, <1>5, <2>7 DEF Goes, Waits, Advances, Ended, Putting, p
      <3>2. CASE versions'[p.on] = f
        BY <2>1, <2>2, <3>1, <3>2 DEF done
      <3>3. ASSUME NEW u \in Threads, NEW data \in Seq(Byte), PutOpen(u, FALSE, data),
                   p.on = Len(versions')
            PROVE  FALSE
        <4>1. u # t
          BY <1>5, <3>3 DEF Opened
        <4>2. put'[t] = [put[t] EXCEPT !.intact = @ /\ (FALSE \/ put[t].on # Len(versions'))]
          BY <1>3, <3>3, <4>1 DEF PutOpen
        <4>3. put'[t].intact = FALSE
          BY <1>3, <3>3, <4>2 DEF p, Puts
        <4> QED
          BY <1>2, <4>3
      <3>4. ASSUME NEW u \in Threads, PutSome(u), put[u].on = p.on
            PROVE  KeptAfter(p.base, done, versions'[p.on])
        <4>1. put[u].append
          BY <2>1, <3>4 DEF IntactInv, PutSome, p
        <4>2. PICK n \in Nat \ {0} :
                 LET bytes == SubSeq(put[u].data, put[u].written + 1, put[u].written + n)
                 IN  /\ bytes \in Seq(Byte)
                     /\ versions'[put[u].on] =
                            IF put[u].append THEN versions[put[u].on] \o bytes
                            ELSE WrittenAt(versions[put[u].on], put[u].written, bytes)
          BY <3>4, SomeBytes
        <4> DEFINE bytes == SubSeq(put[u].data, put[u].written + 1, put[u].written + n)
        <4>3. bytes \in Seq(Byte) /\ versions'[p.on] = f \o bytes
          BY <3>4, <4>1, <4>2 DEF f
        <4> HIDE DEF bytes
        <4> QED
          BY <2>2, <2>3, <2>4, <2>5, <4>3, KeptAfterWrite
      <3>5. \/ versions'[p.on] = f
            \/ \E u \in Threads, data \in Seq(Byte) :
                   PutOpen(u, FALSE, data) /\ p.on = Len(versions')
            \/ \E u \in Threads : PutSome(u) /\ put[u].on = p.on
        BY <2>2, FileChanges DEF f
      <3>6. KeptAfter(p.base, done, versions'[p.on])
        BY <2>2, <3>3, <3>4, <3>5
      <3> QED
        BY <2>1, <3>1, <3>6 DEF done
    <2> QED
      BY <2>6, <2>7
  <1> QED
    BY <1>2, <1>3, <1>4, <1>5 DEF Goes, Ended, Putting

(* While nobody truncates the file, what is in it stays.                    *)
LEMMA FilesGrow ==
    ASSUME FileTypes, PutInv, OthersInv, FileStep, put[Owner].pc = "idle", ~Opened(Owner),
           "truncated" \notin meanwhile', NEW v \in 1 .. Present
    PROVE  /\ versions'[v] \in Seq(Byte) /\ Len(versions[v]) <= Len(versions'[v])
           /\ \A m \in 0 .. Len(versions[v]) :
                 SubSeq(versions'[v], 1, m) = SubSeq(versions[v], 1, m)
  <1>1. versions[v] \in Seq(Byte)
    BY ElementOfSeq DEF FileTypes, Present
  <1>2. \E b \in Seq(Byte) : versions'[v] = versions[v] \o b
    <2>1. CASE versions'[v] = versions[v]
      BY <1>1, <2>1, EmptySeq, ConcatEmptySeq
    <2>2. ASSUME NEW t \in Threads, NEW data \in Seq(Byte), PutOpen(t, FALSE, data) PROVE FALSE
      <3>1. t # Owner
        BY <2>2 DEF Opened
      <3> QED
        BY <2>2, <3>1, Remembered
    <2>3. ASSUME NEW t \in Threads, PutSome(t), put[t].on = v
          PROVE  \E b \in Seq(Byte) : versions'[v] = versions[v] \o b
      <3>1. put[t].append
        <4>1. "truncated" \notin meanwhile /\ put[t].pc = "write"
          BY <2>3, Remembered DEF PutSome
        <4> QED
          BY <4>1 DEF OthersInv
      <3>2. PICK n \in Nat \ {0} :
               LET bytes == SubSeq(put[t].data, put[t].written + 1, put[t].written + n)
               IN  /\ bytes \in Seq(Byte)
                   /\ versions'[put[t].on] =
                          IF put[t].append THEN versions[put[t].on] \o bytes
                          ELSE WrittenAt(versions[put[t].on], put[t].written, bytes)
        BY <2>3, SomeBytes
      <3> QED
        BY <2>3, <3>1, <3>2
    <2> QED
      BY <2>1, <2>2, <2>3, FileChanges
  <1>3. PICK b \in Seq(Byte) : versions'[v] = versions[v] \o b
    BY <1>2
  <1> QED
    BY <1>1, <1>3, PrefixKept

(* ------------------------ what an edit is to do -------------------------- *)

(* The pieces of a file and where it is cut into them.                       *)
LEMMA CutsAre ==
    ASSUME NEW f \in Seq(Byte)
    PROVE  /\ PieceCount(f) \in Nat \ {0} /\ PieceCount(f) = NewlinesBefore(f, Len(f)) + 1
           /\ Cut(f, 0) = 0 /\ Cut(f, PieceCount(f)) = Len(f)
           /\ \A i \in 0 .. PieceCount(f) : Cut(f, i) \in 0 .. Len(f)
           /\ \A i \in 1 .. PieceCount(f) - 1 : Cut(f, i) \in 1 .. Len(f) /\ f[Cut(f, i)] = Nl
           /\ \A i \in 0 .. PieceCount(f) - 1 : NewlinesBefore(f, Cut(f, i)) = i
  <1> DEFINE S == NewlinesIn(f, 0, Len(f))
             t == InOrder(S)
             starts == <<0>> \o t
             n == NewlinesBefore(f, Len(f))
  <1>1. Len(f) \in Nat
    OBVIOUS
  <1>2. t \in Seq(Nat)
    <2>1. /\ S \in SUBSET Int /\ IsFiniteSet(S)
          /\ \A e : e \in S <=> e \in 1 .. Len(f) /\ f[e] = Nl
      BY <1>1, FirstNewlines
    <2>2. S \in SUBSET Nat
      BY <1>1, <2>1
    <2>3. t \in Seq(S) /\ Len(t) = Cardinality(S) /\ \A i \in 1 .. Cardinality(S) : t[i] \in S
      BY <2>1, InOrderIs
    <2> HIDE DEF S, t
    <2>4. \A i \in 1 .. Len(t) : t[i] \in Nat
      BY <2>2, <2>3
    <2>5. t = [i \in 1 .. Len(t) |-> t[i]]
      BY <2>3
    <2> QED
      BY <2>3, <2>4, <2>5
  <1>3. /\ n \in Nat /\ Len(starts) = n + 1
        /\ \A i \in 0 .. n :
              /\ starts[i + 1] \in 0 .. Len(f)
              /\ starts[i + 1] = 0 \/ f[starts[i + 1]] = Nl
              /\ NewlinesBefore(f, starts[i + 1]) = i
    BY StartAt
  <1>4. starts \in Seq(Nat) /\ starts[1] = 0
    <2> HIDE DEF t
    <2> QED
      BY <1>2
  <1> HIDE DEF S, t, starts, n
  <1>5. /\ Len(Cuts(f)) = n + 2
        /\ \A i \in 1 .. n + 1 : Cuts(f)[i] = starts[i]
        /\ Cuts(f)[n + 2] = Len(f)
    <2>1. Cuts(f) = starts \o <<Len(f)>>
      BY DEF Cuts, starts, t, S
    <2> QED
      BY <1>1, <1>3, <1>4, <2>1
  <1>6. PieceCount(f) = n + 1
    BY <1>3, <1>5 DEF PieceCount
  <1>7. \A i \in 0 .. n : Cut(f, i) = starts[i + 1]
    BY <1>3, <1>5 DEF Cut
  <1>8. Cut(f, n + 1) = Len(f)
    <2>1. n + 1 + 1 = n + 2
      BY <1>3
    <2> QED
      BY <1>5, <2>1 DEF Cut
  <1>9. \A i \in 0 .. n : Cut(f, i) \in 0 .. Len(f) /\ NewlinesBefore(f, Cut(f, i)) = i
    BY <1>3, <1>7
  <1>10. \A i \in 0 .. n + 1 : Cut(f, i) \in 0 .. Len(f)
    <2> TAKE i \in 0 .. n + 1
    <2>1. i \in 0 .. n \/ i = n + 1
      BY <1>3
    <2> QED
      BY <1>1, <1>8, <1>9, <2>1
  <1>11. ASSUME NEW i \in 1 .. n PROVE Cut(f, i) \in 1 .. Len(f) /\ f[Cut(f, i)] = Nl
    <2>1. i \in 0 .. n /\ i # 0
      BY <1>3
    <2>2. Cut(f, i) # 0
      BY <1>9, <2>1, NoneBeforeTheFirst
    <2> QED
      BY <1>1, <1>3, <1>7, <1>9, <2>1, <2>2
  <1>12. Cut(f, 0) = 0
    BY <1>3, <1>4, <1>7
  <1>13. n + 1 - 1 = n /\ n + 1 \in Nat \ {0}
    BY <1>3
  <1>14. PieceCount(f) - 1 = n
    BY <1>3, <1>6
  <1>15. /\ \A i \in 1 .. PieceCount(f) - 1 : Cut(f, i) \in 1 .. Len(f) /\ f[Cut(f, i)] = Nl
         /\ \A i \in 0 .. PieceCount(f) - 1 : NewlinesBefore(f, Cut(f, i)) = i
         /\ \A i \in 0 .. PieceCount(f) : Cut(f, i) \in 0 .. Len(f)
    BY <1>6, <1>9, <1>10, <1>11, <1>14, Zenon
  <1> QED
    BY <1>6, <1>8, <1>12, <1>13, <1>15 DEF n

(* A newline is where its piece ends.                                        *)
LEMMA CutAtNewline ==
    ASSUME NEW f \in Seq(Byte), NEW p \in 1 .. Len(f), f[p] = Nl
    PROVE  /\ NewlinesBefore(f, p) \in 1 .. PieceCount(f) - 1
           /\ Cut(f, NewlinesBefore(f, p)) = p
  <1> DEFINE i == NewlinesBefore(f, p)
             n == NewlinesBefore(f, Len(f))
  <1>1. p \in Nat \ {0} /\ p \in Nat /\ Len(f) \in Nat /\ p <= Len(f)
    OBVIOUS
  <1>2. i \in Nat /\ i >= 1
    BY <1>1, OneByteMore
  <1>3. n \in Nat /\ i <= n
    BY <1>1, CountGrows
  <1>4. i \in 1 .. PieceCount(f) - 1
    <2> HIDE DEF i, n
    <2>1. PieceCount(f) = n + 1
      BY CutsAre DEF n
    <2> QED
      BY <1>2, <1>3, <2>1
  <1> DEFINE q == Cut(f, i)
  <1>5. q \in 1 .. Len(f) /\ f[q] = Nl /\ NewlinesBefore(f, q) = i
    <2> HIDE DEF i
    <2>1. i \in 0 .. PieceCount(f) - 1
      BY <1>4, CutsAre
    <2> QED
      BY <1>4, <2>1, CutsAre
  <1> HIDE DEF q
  <1>6. ASSUME NEW c \in 1 .. Len(f), NEW d \in 1 .. Len(f), c < d, f[d] = Nl
        PROVE  NewlinesBefore(f, c) # NewlinesBefore(f, d)
    <2>1. c \in Nat /\ d \in Nat \ {0} /\ d - 1 \in Nat /\ c <= d - 1
      BY <1>6
    <2>2. /\ NewlinesBefore(f, c) \in Nat /\ NewlinesBefore(f, d - 1) \in Nat
          /\ NewlinesBefore(f, c) <= NewlinesBefore(f, d - 1)
      BY <2>1, CountGrows
    <2>3. NewlinesBefore(f, d) = NewlinesBefore(f, d - 1) + 1
      BY <1>6, <2>1, OneByteMore
    <2> QED
      BY <2>2, <2>3
  <1>7. ~(p < q) /\ ~(q < p)
    BY <1>5, <1>6
  <1>8. q = p
    BY <1>1, <1>5, <1>7
  <1> QED
    BY <1>4, <1>8 DEF q

(* The cuts of a file are in order, and only the last piece may be empty.    *)
LEMMA CutsGrow ==
    ASSUME NEW f \in Seq(Byte), NEW i \in 0 .. PieceCount(f), NEW j \in 0 .. PieceCount(f), i <= j
    PROVE  /\ Cut(f, i) <= Cut(f, j)
           /\ i < j /\ j < PieceCount(f) => Cut(f, i) < Cut(f, j)
  <1> DEFINE n == PieceCount(f)
  <1>1. /\ n \in Nat /\ Len(f) \in Nat /\ Cut(f, n) = Len(f)
        /\ Cut(f, i) \in 0 .. Len(f) /\ Cut(f, j) \in 0 .. Len(f)
        /\ \A k \in 0 .. n - 1 : NewlinesBefore(f, Cut(f, k)) = k
    BY CutsAre
  <1>2. Cut(f, i) \in Nat /\ Cut(f, j) \in Nat
    BY <1>1
  <1>3. ASSUME i < j, j < n PROVE Cut(f, i) < Cut(f, j)
    <2>1. i \in 0 .. n - 1 /\ j \in 0 .. n - 1
      BY <1>1, <1>3
    <2>2. NewlinesBefore(f, Cut(f, i)) = i /\ NewlinesBefore(f, Cut(f, j)) = j
      BY <1>1, <2>1
    <2>3. ASSUME Cut(f, j) <= Cut(f, i) PROVE FALSE
      <3>1. NewlinesBefore(f, Cut(f, j)) <= NewlinesBefore(f, Cut(f, i))
        BY <1>2, <2>3, CountGrows
      <3> QED
        BY <1>1, <1>3, <2>2, <3>1
    <2> QED
      BY <1>2, <2>3
  <1>4. Cut(f, i) <= Cut(f, j)
    <2>1. CASE i = j
      BY <1>2, <2>1
    <2>2. CASE j = n
      BY <1>1, <2>2
    <2>3. CASE i < j /\ j < n
      BY <1>2, <1>3, <2>3
    <2> QED
      BY <1>1, <2>1, <2>2, <2>3
  <1> QED
    BY <1>3, <1>4

(* The n-th newline of a file is its n-th cut.                               *)
LEMMA NthIs ==
    ASSUME NEW f \in Seq(Byte), NEW n \in Int
    PROVE  NthNewline(f, n) = IF n \in 1 .. PieceCount(f) - 1 THEN {Cut(f, n)} ELSE {}
  <1>1. \A p : p \in NewlinesIn(f, 0, Len(f)) <=> p \in 1 .. Len(f) /\ f[p] = Nl
    <2>1. Len(f) \in Nat
      OBVIOUS
    <2> QED
      BY <2>1, FirstNewlines
  <1>2. \A p : p \in NthNewline(f, n) <=> p \in 1 .. Len(f) /\ f[p] = Nl /\ NewlinesBefore(f, p) = n
    BY <1>1 DEF NthNewline
  <1>3. \A p \in NthNewline(f, n) : n \in 1 .. PieceCount(f) - 1 /\ Cut(f, n) = p
    BY <1>2, CutAtNewline
  <1>4. n \in 1 .. PieceCount(f) - 1 => Cut(f, n) \in NthNewline(f, n)
    <2> SUFFICES ASSUME n \in 1 .. PieceCount(f) - 1 PROVE Cut(f, n) \in NthNewline(f, n)
      OBVIOUS
    <2>1. n \in 0 .. PieceCount(f) - 1
      BY CutsAre
    <2> QED
      BY <1>2, <2>1, CutsAre
  <1> QED
    BY <1>3, <1>4

(* The pieces of a file lie between its cuts.                                *)
LEMMA PiecesAre ==
    ASSUME NEW f \in Seq(Byte)
    PROVE  /\ Pieces(f) \in Seq(Seq(Byte)) /\ Len(Pieces(f)) = PieceCount(f)
           /\ DOMAIN Pieces(f) = 1 .. PieceCount(f)
           /\ \A i \in 1 .. PieceCount(f) :
                 Pieces(f)[i] = SubSeq(f, Cut(f, i - 1) + 1, Cut(f, i))
  <1> DEFINE n == PieceCount(f)
  <1>1. n \in Nat /\ Len(f) \in Nat /\ \A i \in 0 .. n : Cut(f, i) \in 0 .. Len(f)
    BY CutsAre
  <1>2. Pieces(f) = [i \in 1 .. n |-> SubSeq(f, Cuts(f)[i] + 1, Cuts(f)[i + 1])]
    BY DEF Pieces, PieceCount
  <1> HIDE DEF n
  <1>3. ASSUME NEW i \in 1 .. n
        PROVE  /\ SubSeq(f, Cuts(f)[i] + 1, Cuts(f)[i + 1]) = SubSeq(f, Cut(f, i - 1) + 1, Cut(f, i))
               /\ SubSeq(f, Cut(f, i - 1) + 1, Cut(f, i)) \in Seq(Byte)
    <2>1. i - 1 \in 0 .. n /\ i \in 0 .. n /\ (i - 1) + 1 = i
      BY <1>1
    <2>2. Cut(f, i - 1) = Cuts(f)[i] /\ Cut(f, i) = Cuts(f)[i + 1]
      BY <2>1 DEF Cut
    <2>3. Cut(f, i - 1) \in Nat /\ Cut(f, i) \in Nat /\ Cut(f, i) <= Len(f)
      BY <1>1, <2>1
    <2> DEFINE x == Cut(f, i - 1)
               y == Cut(f, i)
    <2> HIDE DEF x, y
    <2>4. ASSUME x \in Nat, y \in Nat, y <= Len(f)
          PROVE  SubSeq(f, x + 1, y) \in Seq(Byte)
      BY <2>4
    <2> QED
      BY <2>2, <2>3, <2>4 DEF x, y
  <1>4. /\ Pieces(f) \in [1 .. n -> Seq(Byte)]
        /\ \A i \in 1 .. n : Pieces(f)[i] = SubSeq(f, Cut(f, i - 1) + 1, Cut(f, i))
    BY <1>2, <1>3
  <1>5. Pieces(f) \in Seq(Seq(Byte)) /\ Len(Pieces(f)) = n /\ DOMAIN Pieces(f) = 1 .. n
    BY <1>1, <1>4
  <1> QED
    BY <1>4, <1>5 DEF n

(* Neighbouring pieces together are the bytes from the first's start to the  *)
(* last's end.                                                               *)
LEMMA PiecesFlatten ==
    ASSUME NEW f \in Seq(Byte), NEW a \in 0 .. PieceCount(f), NEW b \in a .. PieceCount(f)
    PROVE  FlattenSeq(SubSeq(Pieces(f), a + 1, b)) = SubSeq(f, Cut(f, a) + 1, Cut(f, b))
  <1> DEFINE n == PieceCount(f)
             p == Pieces(f)
             s == SubSeq(p, a + 1, b)
             k == b - a
             h == [i \in 1 .. k |-> SubSeq(f, Cut(f, a) + 1, Cut(f, a + i))]
  <1>1. n \in Nat /\ Len(f) \in Nat /\ \A i \in 0 .. n : Cut(f, i) \in 0 .. Len(f)
    BY CutsAre
  <1>2. a \in Nat /\ b \in Nat /\ a <= b /\ b <= n /\ k \in Nat /\ a + k = b
    BY <1>1
  <1>3. /\ p \in Seq(Seq(Byte)) /\ Len(p) = n
        /\ \A i \in 1 .. n : p[i] = SubSeq(f, Cut(f, i - 1) + 1, Cut(f, i))
    BY PiecesAre
  <1>4. /\ s \in Seq(Seq(Byte)) /\ Len(s) = k /\ \A i \in 1 .. k : s[i] = p[a + i]
    <2> HIDE DEF p, n
    <2> QED
      BY <1>2, <1>3, PartIs
  <1> HIDE DEF p, n, s
  <1>5. CASE k = 0
    <2>1. s = <<>> /\ Len(s) = 0
      BY <1>4, <1>5, EmptySeq
    <2>2. FlattenSeq(s) = s
      BY <2>1 DEF FlattenSeq
    <2>3. a = b /\ Cut(f, a) \in Nat
      BY <1>1, <1>2, <1>5
    <2>4. SubSeq(f, Cut(f, a) + 1, Cut(f, a)) = <<>>
      BY <2>3, SubSeqEmpty
    <2> QED
      BY <2>1, <2>2, <2>3, <2>4 DEF s, p
  <1>6. CASE k # 0
    <2>1. ASSUME NEW i \in 1 .. k
          PROVE  h[i] = IF i = 1 THEN s[i] ELSE h[i - 1] \o s[i]
      <3>1. /\ a + i \in 0 .. n /\ a + i \in 1 .. n /\ a \in 0 .. n /\ (a + i) - 1 \in 0 .. n
            /\ a <= (a + i) - 1 /\ (a + i) - 1 <= a + i
        BY <1>1, <1>2
      <3>2. s[i] = SubSeq(f, Cut(f, (a + i) - 1) + 1, Cut(f, a + i))
        <4>1. s[i] = p[a + i]
          BY <1>4
        <4>2. p[a + i] = SubSeq(f, Cut(f, (a + i) - 1) + 1, Cut(f, a + i))
          BY <1>3, <3>1, Zenon
        <4> QED
          BY <4>1, <4>2
      <3>3. h[i] = SubSeq(f, Cut(f, a) + 1, Cut(f, a + i))
        OBVIOUS
      <3>4. CASE i = 1
        <4>1. (a + i) - 1 = a
          BY <1>2, <3>4
        <4> QED
          BY <3>2, <3>3, <3>4, <4>1
      <3>5. CASE i # 1
        <4>1. i - 1 \in 1 .. k /\ a + (i - 1) = (a + i) - 1
          BY <1>2, <3>5
        <4>2. h[i - 1] = SubSeq(f, Cut(f, a) + 1, Cut(f, (a + i) - 1))
          BY <4>1
        <4>3. /\ Cut(f, a) \in Nat /\ Cut(f, (a + i) - 1) \in Nat /\ Cut(f, a + i) \in Nat
              /\ Cut(f, a + i) <= Len(f)
          BY <1>1, <3>1
        <4>4. Cut(f, a) <= Cut(f, (a + i) - 1) /\ Cut(f, (a + i) - 1) <= Cut(f, a + i)
          BY <3>1, CutsGrow DEF n
        <4>5. SubSeq(f, Cut(f, a) + 1, Cut(f, (a + i) - 1))
                 \o SubSeq(f, Cut(f, (a + i) - 1) + 1, Cut(f, a + i))
              = SubSeq(f, Cut(f, a) + 1, Cut(f, a + i))
          BY <4>3, <4>4, PartsJoin
        <4> QED
          BY <3>2, <3>3, <3>5, <4>2, <4>5
      <3> QED
        BY <3>4, <3>5
    <2>2. k \in 1 .. k /\ k > 0
      BY <1>2, <1>6
    <2>3. h[k] = SubSeq(f, Cut(f, a) + 1, Cut(f, b))
      BY <1>2, <2>2
    <2>4. DOMAIN h = 1 .. k /\ h = [i \in 1 .. k |-> h[i]]
      OBVIOUS
    <2> HIDE DEF h, k
    <2>5. h = [i \in 1 .. Len(s) |-> IF i = 1 THEN s[i] ELSE h[i - 1] \o s[i]]
      BY <1>4, <2>1, <2>4
    <2>6. FlattenSeq(s) = h[Len(s)]
      BY <1>4, <2>2, <2>5, FlattenIs
    <2> QED
      BY <1>4, <2>3, <2>6 DEF s, p
  <1> QED
    BY <1>5, <1>6

(* Replacing pieces of a file is replacing the bytes between two cuts.       *)
LEMMA BetweenIs ==
    ASSUME NEW f \in Seq(Byte), NEW i \in 0 .. PieceCount(f), NEW j \in 0 .. PieceCount(f), NEW text
    PROVE  FlattenSeq(SubSeq(Pieces(f), 1, i)) \o text
               \o FlattenSeq(SubSeq(Pieces(f), j + 1, Len(Pieces(f))))
           = Splice(f, Cut(f, i), Cut(f, j), text)
  <1>1. PieceCount(f) \in Nat /\ Cut(f, 0) = 0 /\ Cut(f, PieceCount(f)) = Len(f)
    BY CutsAre
  <1>2. FlattenSeq(SubSeq(Pieces(f), 0 + 1, i)) = SubSeq(f, Cut(f, 0) + 1, Cut(f, i))
    <2>1. 0 \in 0 .. PieceCount(f)
      BY <1>1
    <2> QED
      BY <2>1, PiecesFlatten
  <1>3. FlattenSeq(SubSeq(Pieces(f), j + 1, PieceCount(f)))
            = SubSeq(f, Cut(f, j) + 1, Cut(f, PieceCount(f)))
    <2>1. PieceCount(f) \in j .. PieceCount(f)
      BY <1>1
    <2> QED
      BY <2>1, PiecesFlatten
  <1>4. 0 + 1 = 1
    OBVIOUS
  <1> QED
    BY <1>1, <1>2, <1>3, <1>4, PiecesAre DEF Splice

(* Only a piece that starts at the end of the file is empty, and the byte    *)
(* before a cut ends a piece.                                                *)
LEMMA PieceThere ==
    ASSUME NEW f \in Seq(Byte), NEW i \in 1 .. PieceCount(f)
    PROVE  /\ Pieces(f)[i] # <<>> <=> Cut(f, i - 1) < Len(f)
           /\ Pieces(f)[i] # <<>> => Last(Pieces(f)[i]) = f[Cut(f, i)]
           /\ Cut(f, i - 1) < Len(f) <=> Cut(f, i - 1) < Cut(f, i)
  <1> DEFINE x == Cut(f, i - 1)
             y == Cut(f, i)
             n == PieceCount(f)
  <1>1. n \in Nat /\ i - 1 \in 0 .. n /\ i \in 0 .. n /\ i - 1 < i
    BY CutsAre
  <1>2. x \in Nat /\ y \in Nat /\ x <= Len(f) /\ y <= Len(f) /\ Len(f) \in Nat /\ Cut(f, n) = Len(f)
    BY <1>1, CutsAre
  <1>3. x <= y /\ (i < n => x < y)
    BY <1>1, CutsGrow
  <1>4. i = n => y = Len(f)
    BY <1>2
  <1> HIDE DEF x, y, n
  <1>5. x < Len(f) <=> x < y
    <2>1. i < n \/ i = n
      BY <1>1 DEF n
    <2> QED
      BY <1>2, <1>3, <1>4, <2>1
  <1> DEFINE p == SubSeq(f, x + 1, y)
  <1>6. /\ Len(p) = y - x /\ p \in Seq(Byte)
        /\ x < y => p[y - x] = f[y]
    <2>1. /\ p \in Seq(Byte) /\ Len(p) = y - x
          /\ \A k \in 1 .. y - x : p[k] = f[x + k]
      BY <1>2, <1>3, PartIs
    <2>2. x < y => y - x \in 1 .. y - x /\ x + (y - x) = y
      BY <1>2
    <2> HIDE DEF p
    <2> QED
      BY <2>1, <2>2
  <1> HIDE DEF p
  <1>7. p # <<>> <=> x < y
    <2>1. p = <<>> <=> Len(p) = 0
      BY <1>6, EmptySeq
    <2> QED
      BY <1>2, <1>3, <1>6, <2>1
  <1>8. Pieces(f)[i] = p
    BY PiecesAre DEF p, x, y
  <1>9. x < y => Last(p) = f[y]
    BY <1>6 DEF Last
  <1> QED
    BY <1>5, <1>7, <1>8, <1>9 DEF x, y

(* What an edit is to make of a file, said of its cuts.                      *)
LEMMA EditedIs ==
    ASSUME NEW f \in Seq(Byte), NEW e \in EditRequests
    PROVE  Edited(f, e) = IF Editable(f, e)
                          THEN EditedTo(Splice(f, From(f, e), To(f, e), By(f, e)))
                          ELSE NotEdited
  <1> DEFINE p == Pieces(f)
             n == PieceCount(f)
             newline == IF p[e.first] # <<>> /\ Last(p[e.first]) = Nl THEN <<Nl>> ELSE <<>>
             Between(i, text, j) ==
                EditedTo(FlattenSeq(SubSeq(p, 1, i)) \o text \o FlattenSeq(SubSeq(p, j, Len(p))))
  <1>1. n \in Nat \ {0} /\ DOMAIN p = 1 .. n
    BY CutsAre, PiecesAre
  <1>2. /\ e.api \in EditApis /\ e.first \in Nat /\ e.last \in Nat /\ e.text \in Seq(Byte)
        /\ e.api = "deleteLines" => e.text = <<>>
        /\ e.api # "deleteLines" => e.last = e.first
    BY SizeMaxAssumption DEF EditRequests
  <1>3. \A text : \A i, j \in 0 .. n : Between(i, text, j + 1) = EditedTo(Splice(f, Cut(f, i), Cut(f, j), text))
    BY BetweenIs
  <1>4. /\ \A k \in 1 .. n : p[k] # <<>> <=> Cut(f, k - 1) < Len(f)
        /\ \A k \in 1 .. n : p[k] # <<>> => Last(p[k]) = f[Cut(f, k)]
    BY PieceThere
  <1>5. /\ \A k \in 1 .. n : k - 1 \in 0 .. n /\ k \in 0 .. n /\ (k - 1) + 1 = k
        /\ \A k \in Nat : k = 0 \/ k \in 1 .. n \/ k > n
    BY <1>1
  <1>6. Edited(f, e) =
          CASE e.api = "insertAt" /\ e.first <= Len(f) ->
                EditedTo(Splice(f, e.first, e.first, e.text))
          [] e.api = "insertBeforeLine" /\ e.first \in DOMAIN p ->
                Between(e.first - 1, e.text, e.first)
          [] e.api = "insertAfterLine" /\ e.first \in DOMAIN p ->
                Between(e.first, e.text, e.first + 1)
          [] e.api = "deleteLines" /\ {e.first, e.last} \subseteq DOMAIN p
                                   /\ e.first <= e.last ->
                Between(e.first - 1, <<>>, e.last + 1)
          [] e.api = "replaceLine" /\ e.first \in DOMAIN p /\ p[e.first] # <<>> ->
                Between(e.first - 1, e.text \o newline, e.first + 1)
          [] OTHER -> NotEdited
    BY DEF Edited
  <1> HIDE DEF p, n, Between
  <1>7. CASE e.api = "insertAt"
    <2>1. Edited(f, e) = IF e.first <= Len(f) THEN EditedTo(Splice(f, e.first, e.first, e.text))
                         ELSE NotEdited
      BY <1>6, <1>7
    <2>2. From(f, e) = e.first /\ To(f, e) = e.first /\ By(f, e) = e.text
          /\ (Editable(f, e) <=> e.first <= Len(f))
      BY <1>7 DEF From, To, By, Editable
    <2> QED
      BY <2>1, <2>2
  <1>8. CASE e.api = "insertBeforeLine"
    <2>1. Edited(f, e) = IF e.first \in 1 .. n THEN Between(e.first - 1, e.text, e.first)
                         ELSE NotEdited
      BY <1>1, <1>6, <1>8
    <2>2. From(f, e) = Cut(f, e.first - 1) /\ To(f, e) = Cut(f, e.first - 1) /\ By(f, e) = e.text
          /\ (Editable(f, e) <=> e.first \in 1 .. n)
      BY <1>2, <1>8 DEF From, To, By, Editable, n
    <2>3. e.first \in 1 .. n => Between(e.first - 1, e.text, (e.first - 1) + 1) =
              EditedTo(Splice(f, Cut(f, e.first - 1), Cut(f, e.first - 1), e.text))
      BY <1>3, <1>5
    <2> QED
      BY <1>5, <2>1, <2>2, <2>3
  <1>9. CASE e.api = "insertAfterLine"
    <2>1. Edited(f, e) = IF e.first \in 1 .. n THEN Between(e.first, e.text, e.first + 1)
                         ELSE NotEdited
      BY <1>1, <1>6, <1>9
    <2>2. From(f, e) = Cut(f, e.first) /\ To(f, e) = Cut(f, e.first) /\ By(f, e) = e.text
          /\ (Editable(f, e) <=> e.first \in 1 .. n)
      BY <1>2, <1>9 DEF From, To, By, Editable, n
    <2>3. e.first \in 1 .. n => Between(e.first, e.text, e.first + 1) =
              EditedTo(Splice(f, Cut(f, e.first), Cut(f, e.first), e.text))
      BY <1>3, <1>5
    <2> QED
      BY <2>1, <2>2, <2>3
  <1>10. CASE e.api = "deleteLines"
    <2> DEFINE There == {e.first, e.last} \subseteq 1 .. n /\ e.first <= e.last
    <2>1. Edited(f, e) = IF There THEN Between(e.first - 1, <<>>, e.last + 1) ELSE NotEdited
      BY <1>1, <1>6, <1>10
    <2>2. From(f, e) = Cut(f, e.first - 1) /\ To(f, e) = Cut(f, e.last) /\ By(f, e) = <<>>
          /\ (Editable(f, e) <=> There)
      BY <1>2, <1>10 DEF From, To, By, Editable, n
    <2>3. There => Between(e.first - 1, <<>>, e.last + 1) =
              EditedTo(Splice(f, Cut(f, e.first - 1), Cut(f, e.last), <<>>))
      BY <1>3, <1>5
    <2> HIDE DEF There
    <2> QED
      BY <2>1, <2>2, <2>3
  <1>11. CASE e.api = "replaceLine"
    <2> DEFINE There == e.first \in 1 .. n /\ Cut(f, e.first - 1) < Len(f)
               added == IF f[Cut(f, e.first)] = Nl THEN <<Nl>> ELSE <<>>
    <2>1. Edited(f, e) = IF There THEN Between(e.first - 1, e.text \o newline, e.first + 1)
                         ELSE NotEdited
      BY <1>1, <1>4, <1>6, <1>11
    <2>2. There => newline = added
      BY <1>4
    <2>3. /\ From(f, e) = Cut(f, e.first - 1) /\ To(f, e) = Cut(f, e.first)
          /\ (Editable(f, e) <=> There)
      BY <1>2, <1>11 DEF From, To, Editable, n
    <2>4. By(f, e) = e.text \o added
      <3>1. e.text \o <<>> = e.text
        BY <1>2, ConcatEmptySeq
      <3> QED
        BY <1>11, <3>1 DEF By
    <2> HIDE DEF newline, added
    <2>5. There => Between(e.first - 1, e.text \o added, e.first + 1) =
              EditedTo(Splice(f, Cut(f, e.first - 1), Cut(f, e.first), e.text \o added))
      BY <1>3, <1>5
    <2> HIDE DEF There
    <2> QED
      BY <2>1, <2>2, <2>3, <2>4, <2>5
  <1> QED
    BY <1>2, <1>7, <1>8, <1>9, <1>10, <1>11 DEF EditApis

(* ----------------------------- line edits -------------------------------- *)

Goals == {"start", "next", "last"}
Early == {"open", "size", "search", "lastSize", "peek", "peekRead", "rewrite"}

(* An edit under way is in a state of the type.                              *)
LEMMA EditKnown == EditTypes /\ ed.pc # "idle" => ed \in EditStates
  BY DEF EditTypes

(* The line a search looks for is a size_t.                                  *)
LEMMA TargetType ==
    ASSUME ed \in EditStates, NEW goal \in Goals
    PROVE  Target(goal) \in 0 .. SizeMax
  <1>1. ed.req \in EditRequests
    BY DEF EditStates
  <1>2. ed.req.first \in 0 .. SizeMax /\ ed.req.last \in 0 .. SizeMax
    BY <1>1 DEF EditRequests
  <1>3. Succ(ed.req.last) \in 0 .. SizeMax
    BY <1>2, SizeMaxAssumption DEF Succ
  <1> QED
    BY <1>2, <1>3 DEF Target, Goals

(* Where an edit goes when a search has found its line.                      *)
LEMMA EditMoves ==
    ASSUME ed \in EditStates, NEW e \in EditStates
    PROVE  /\ \A goal \in Goals :
                 /\ Search(e, goal) \in EditStates /\ Search(e, goal).pc = "search"
                 /\ Search(e, goal).fd = e.fd
           /\ \A end \in Nat :
                 /\ EndsAt(e, end) \in EditStates /\ EndsAt(e, end).pc \in {"peek", "rewrite"}
                 /\ EndsAt(e, end).fd = e.fd
           /\ \A start, end \in Nat :
                 /\ RewriteFrom(e, start, end) \in EditStates
                 /\ RewriteFrom(e, start, end).pc = "rewrite"
  <1>1. ASSUME NEW goal \in Goals
        PROVE  /\ Search(e, goal) \in EditStates /\ Search(e, goal).pc = "search"
               /\ Search(e, goal).fd = e.fd
    <2> DEFINE need == Target(goal) - 1
    <2>1. need \in Int
      BY <1>1, TargetType, SizeMaxAssumption
    <2>2. Search(e, goal) = [e EXCEPT !.pc = "search", !.goal = goal, !.pos = 0, !.need = need]
      BY DEF Search
    <2> HIDE DEF need
    <2>3. goal \in {"start", "next", "last"}
      BY DEF Goals
    <2> DEFINE s == [e EXCEPT !.pc = "search", !.goal = goal, !.pos = 0, !.need = need]
    <2>4. s \in EditStates
      BY <2>1, <2>3 DEF EditStates
    <2>5. s.pc = "search" /\ s.fd = e.fd
      BY DEF EditStates
    <2> QED
      BY <2>2, <2>4, <2>5
  <1>2. ASSUME NEW end \in Nat
        PROVE  /\ EndsAt(e, end) \in EditStates /\ EndsAt(e, end).pc \in {"peek", "rewrite"}
               /\ EndsAt(e, end).fd = e.fd
    <2> DEFINE pc == IF Is({"replaceLine"}) /\ end > e.start THEN "peek" ELSE "rewrite"
    <2>1. pc \in {"peek", "rewrite"}
      OBVIOUS
    <2>2. EndsAt(e, end) = [e EXCEPT !.pc = pc, !.end = end]
      BY DEF EndsAt
    <2> HIDE DEF pc
    <2> QED
      BY <1>2, <2>1, <2>2 DEF EditStates
  <1>3. ASSUME NEW start \in Nat, NEW end \in Nat
        PROVE  /\ RewriteFrom(e, start, end) \in EditStates
               /\ RewriteFrom(e, start, end).pc = "rewrite"
    BY <1>3 DEF EditStates, RewriteFrom
  <1> QED
    BY <1>1, <1>2, <1>3

(* An edit that returns is done, with its answer.                            *)
LEMMA EditReturns ==
    ASSUME NEW e \in EditStates, NEW answer \in BOOLEAN, Return(e, answer)
    PROVE  ed' \in EditStates /\ ed'.pc = "done" /\ ed'.answer = answer
  BY DEF Return, EditStates

(* The search, the look at the old line and the opening for the rewrite make *)
(* no file and change none.                                                  *)
Looks ==
    /\ ed' \in EditStates /\ ed'.pc \in Early \cup {"done"}
    /\ ed'.pc = "done" => ~ed'.answer
    /\ HasFile' => ed'.fd \in 1 .. Present

(* A search that has found its line has changed no file.                     *)
LEMMA FoundLooks ==
    ASSUME EditTypes, EditInv, ed.pc = "search", NEW offset \in Nat, Found(offset)
    PROVE  Looks
  <1>1. ed \in EditStates /\ ed.fd \in 1 .. Present
    BY DEF EditTypes, EditInv, HasFile
  <1>2. CASE Refuse
    BY <1>1, <1>2, EditReturns DEF Refuse, Looks, HasFile, Rewriting
  <1>3. CASE ed' = RewriteFrom(ed, offset, offset)
    BY <1>1, <1>3, EditMoves DEF Looks, HasFile, Rewriting, Early
  <1>4. CASE ed' = Search([ed EXCEPT !.start = offset], "next")
    <2> DEFINE e == [ed EXCEPT !.start = offset]
    <2>1. e \in EditStates /\ e.fd = ed.fd
      BY <1>1 DEF EditStates
    <2>2. ed' = Search(e, "next")
      BY <1>4
    <2> HIDE DEF e
    <2> QED
      BY <1>1, <2>1, <2>2, EditMoves DEF Looks, HasFile, Rewriting, Early, Goals
  <1>5. CASE ed' = EndsAt(ed, offset)
    BY <1>1, <1>5, EditMoves DEF Looks, HasFile, Rewriting, Early
  <1>6. CASE ed' = [ed EXCEPT !.pc = "lastSize"]
    BY <1>1, <1>6 DEF EditStates, Looks, HasFile, Rewriting, Early
  <1> QED
    BY <1>2, <1>3, <1>4, <1>5, <1>6 DEF Found

(* Nor has one that has not found it.                                        *)
LEMMA NotFoundLooks ==
    ASSUME EditTypes, EditInv, ed.pc = "search", NEW e \in EditStates, e.fd = ed.fd, NotFound(e)
    PROVE  Looks
  <1>1. ed \in EditStates /\ ed.fd \in 1 .. Present
    BY DEF EditTypes, EditInv, HasFile
  <1>2. CASE Return(e, FALSE)
    BY <1>1, <1>2, EditReturns DEF Looks, HasFile, Rewriting
  <1>3. CASE ed' = EndsAt(e, e.size)
    <2>1. e.size \in Nat
      BY DEF EditStates
    <2> QED
      BY <1>1, <1>3, <2>1, EditMoves DEF Looks, HasFile, Rewriting, Early
  <1>4. CASE ed' = Search(e, "last")
    BY <1>1, <1>4, EditMoves DEF Looks, HasFile, Rewriting, Early, Goals
  <1> QED
    BY <1>2, <1>3, <1>4 DEF NotFound

(* The newlines of a block are finitely many and lie in it.                  *)
LEMMA NewlineCount ==
    ASSUME NEW bytes \in Seq(Byte), NEW n \in Int
    PROVE  /\ Cardinality(NewlinesIn(bytes, 0, Len(bytes))) \in Nat
           /\ NthNewline(bytes, n) \subseteq 1 .. Len(bytes)
  <1>1. NewlinesIn(bytes, 0, Len(bytes)) \subseteq 1 .. Len(bytes) /\ Len(bytes) \in Nat
    BY DEF NewlinesIn
  <1>2. IsFiniteSet(1 .. Len(bytes))
    BY <1>1, FS_Interval
  <1>3. Cardinality(NewlinesIn(bytes, 0, Len(bytes))) \in Nat
    BY <1>1, <1>2, FS_Subset, FS_CardinalityType
  <1> QED
    BY <1>1, <1>3 DEF NthNewline

(* The steps of a search change no file.                                     *)
LEMMA SearchLooks ==
    ASSUME FileTypes, EditTypes, EditInv, SearchBlock \/ SearchEnds \/ SearchFails
    PROVE  Looks
  <1>1. ed \in EditStates /\ ed.fd \in 1 .. Present /\ ed.pc = "search"
    <2>1. ed.pc = "search"
      BY DEF SearchBlock, SearchEnds, SearchFails, At
    <2> QED
      BY <2>1, EditKnown DEF EditInv, HasFile
  <1>2. ed.pos \in Nat /\ ed.need \in Int
    BY <1>1 DEF EditStates
  <1>3. CASE SearchBlock
    <2>1. PICK bytes \in Got(ed.fd, ed.pos, Block) :
             \/ \E p \in NthNewline(bytes, ed.need) : Found(ed.pos + p)
             \/ ed' = [ed EXCEPT !.pos = @ + Len(bytes),
                                 !.need = @ - Cardinality(NewlinesIn(bytes, 0, Len(bytes)))]
      BY <1>3 DEF SearchBlock
    <2>2. bytes \in Seq(Byte) /\ Len(bytes) \in Nat
      BY <1>1, <1>2, SharedFileAssumption, GotBytes
    <2>3. CASE \E p \in NthNewline(bytes, ed.need) : Found(ed.pos + p)
      <3>1. PICK p \in NthNewline(bytes, ed.need) : Found(ed.pos + p)
        BY <2>3
      <3>2. p \in 1 .. Len(bytes)
        BY <1>2, <2>2, NewlineCount
      <3>3. ed.pos + p \in Nat
        BY <1>2, <2>2, <3>2
      <3> QED
        BY <1>1, <3>1, <3>3, FoundLooks
    <2>4. CASE ed' = [ed EXCEPT !.pos = @ + Len(bytes),
                                !.need = @ - Cardinality(NewlinesIn(bytes, 0, Len(bytes)))]
      <3> DEFINE pos == ed.pos + Len(bytes)
                 need == ed.need - Cardinality(NewlinesIn(bytes, 0, Len(bytes)))
      <3>1. pos \in Nat /\ need \in Int
        BY <1>2, <2>2, NewlineCount
      <3>2. ed' = [ed EXCEPT !.pos = pos, !.need = need]
        BY <2>4
      <3> HIDE DEF pos, need
      <3>3. ed' \in EditStates /\ ed'.pc = "search" /\ ed'.fd = ed.fd
        BY <1>1, <3>1, <3>2 DEF EditStates
      <3> QED
        BY <1>1, <3>3 DEF Looks, Early
    <2> QED
      BY <2>1, <2>3, <2>4
  <1>4. CASE SearchEnds
    <2>1. NotFound(ed) \/ Found(0)
      BY <1>4 DEF SearchEnds
    <2> QED
      BY <1>1, <2>1, FoundLooks, NotFoundLooks
  <1>5. CASE SearchFails
    <2> DEFINE e == [ed EXCEPT !.failed = TRUE]
    <2>1. e \in EditStates /\ e.fd = ed.fd
      BY <1>1 DEF EditStates
    <2>2. NotFound(e)
      BY <1>5 DEF SearchFails
    <2> HIDE DEF e
    <2> QED
      BY <1>1, <2>1, <2>2, NotFoundLooks
  <1> QED
    BY <1>3, <1>4, <1>5

(* The other steps before the rewriting change no file.                      *)
LEMMA OtherLooks ==
    ASSUME FileTypes, EditTypes, EditInv,
           Ask \/ Open \/ Size \/ LastSize \/ PeekOpen \/ PeekRead \/ OpenMissing
    PROVE  Looks
  <1>1. ed \in EditStates /\ (HasFile => ed.fd \in 1 .. Present)
    <2>1. ed.pc # "idle"
      BY DEF Ask, Open, Size, LastSize, PeekOpen, PeekRead, OpenMissing, At
    <2> QED
      BY <2>1, EditKnown DEF EditInv
  <1>2. ed.req.first \in Nat /\ ed.text \in Seq(Byte) /\ ed.start \in Nat
    BY <1>1, SizeMaxAssumption DEF EditStates, EditRequests
  <1>3. CASE Refuse
    BY <1>1, <1>3, EditReturns DEF Refuse, Looks, HasFile, Rewriting
  <1>4. CASE Ask
    <2>1. CASE ed' = RewriteFrom(ed, ed.req.first, ed.req.first)
      BY <1>1, <1>2, <2>1, EditMoves DEF Looks, Early, HasFile, Rewriting
    <2>2. CASE ed' = [ed EXCEPT !.pc = "open"]
      BY <1>1, <2>2 DEF Looks, Early, HasFile, Rewriting, EditStates
    <2> QED
      BY <1>3, <1>4, <2>1, <2>2 DEF Ask
  <1>5. CASE Open
    <2> DEFINE e == [ed EXCEPT !.fd = Present]
    <2>1. Present \in 1 .. Present
      BY <1>5, EmptySeq DEF Open, Exists, Present, FileTypes
    <2>2. e \in EditStates /\ e.fd = Present
      BY <1>1, <2>1 DEF EditStates
    <2>3. ed' = [e EXCEPT !.pc = "size"] \/ ed' = Search(e, "next") \/ ed' = Search(e, "start")
      BY <1>5 DEF Open
    <2>4. [e EXCEPT !.pc = "size"] \in EditStates /\ [e EXCEPT !.pc = "size"].pc = "size"
          /\ [e EXCEPT !.pc = "size"].fd = e.fd
      BY <2>2 DEF EditStates
    <2> HIDE DEF e
    <2>5. \A goal \in {"start", "next"} :
             /\ Search(e, goal) \in EditStates /\ Search(e, goal).pc = "search"
             /\ Search(e, goal).fd = e.fd
      BY <1>1, <2>2, EditMoves DEF Goals
    <2>6. ed' \in EditStates /\ ed'.pc \in {"size", "search"} /\ ed'.fd = Present
      BY <2>2, <2>3, <2>4, <2>5
    <2> QED
      BY <2>1, <2>6 DEF Looks, Early
  <1>6. ed.pc \in {"size", "lastSize", "peek", "peekRead"} =>
           /\ ed.fd \in 1 .. Present /\ Present \in Nat /\ Len(versions[ed.fd]) \in Nat
    <2>1. ASSUME ed.fd \in 1 .. Present PROVE Len(versions[ed.fd]) \in Nat
      BY <2>1, ElementOfSeq DEF FileTypes, Present
    <2> QED
      BY <1>1, <2>1 DEF HasFile, FileTypes, Present
  <1>7. CASE Size
    <2> DEFINE e == [ed EXCEPT !.size = Len(versions[ed.fd])]
    <2>1. ed.pc = "size" /\ ed' = Search(e, "start")
      BY <1>7 DEF Size, At
    <2>2. e \in EditStates /\ e.fd = ed.fd
      BY <1>1, <1>6, <2>1 DEF EditStates
    <2> HIDE DEF e
    <2> QED
      BY <1>1, <1>6, <2>1, <2>2, EditMoves DEF Looks, Early, Goals
  <1>8. CASE LastSize
    <2>1. PICK start \in Nat : ed' = RewriteFrom(ed, start, Len(versions[ed.fd])) /\ ed.pc = "lastSize"
      BY <1>2, <1>6, <1>8 DEF LastSize, At
    <2> QED
      BY <1>1, <1>6, <2>1, EditMoves DEF Looks, Early, HasFile, Rewriting
  <1>9. CASE PeekOpen
    <2>1. ed' = [ed EXCEPT !.pc = "peekRead", !.fd = Present] /\ ed.pc = "peek"
      BY <1>9 DEF PeekOpen, At
    <2>2. Present \in 1 .. Present /\ Present \in Nat
      BY <1>6, <2>1
    <2>3. ed' \in EditStates /\ ed'.pc = "peekRead" /\ ed'.fd = Present
      BY <1>1, <2>1, <2>2 DEF EditStates
    <2> QED
      BY <2>2, <2>3 DEF Looks, Early
  <1>10. CASE PeekRead
    <2>1. ASSUME NEW text \in Seq(Byte), ed' = [ed EXCEPT !.pc = "rewrite", !.text = text]
          PROVE  Looks
      <3>1. ed' \in EditStates /\ ed'.pc = "rewrite"
        BY <1>1, <2>1 DEF EditStates
      <3> QED
        BY <3>1 DEF Looks, Early, HasFile, Rewriting
    <2>2. <<Nl>> \in Seq(Byte)
      BY DEF Byte
    <2>3. ed.text \o <<Nl>> \in Seq(Byte)
      BY <1>2, <2>2, ConcatProperties
    <2>4. Refuse \/ \E text \in {ed.text, ed.text \o <<Nl>>} :
                       ed' = [ed EXCEPT !.pc = "rewrite", !.text = text]
      BY <1>10 DEF PeekRead
    <2> QED
      BY <1>2, <1>3, <2>1, <2>3, <2>4
  <1> QED
    BY <1>3, <1>4, <1>5, <1>7, <1>8, <1>9, <1>10 DEF OpenMissing

(* The rewrite.                                                             *)
LEMMA MiddleKept ==
    ASSUME NEW s \in Seq(Byte), NEW b \in Seq(Byte), NEW m \in Nat, NEW n \in 0 .. Len(s)
    PROVE  SubSeq(s \o b, m + 1, n) = SubSeq(s, m + 1, n)
  <1>1. s \o b \in Seq(Byte) /\ n \in 0 .. Len(s \o b) /\ n \in Nat
        /\ \A i \in 1 .. Len(s) : (s \o b)[i] = s[i]
    OBVIOUS
  <1> DEFINE l == SubSeq(s \o b, m + 1, n)
             r == SubSeq(s, m + 1, n)
             k == IF m <= n THEN n - m ELSE 0
  <1>2. l \in Seq(Byte) /\ Len(l) = k /\ \A i \in 1 .. k : l[i] = (s \o b)[m + i]
    BY <1>1, SubSeqType
  <1>3. r \in Seq(Byte) /\ Len(r) = k /\ \A i \in 1 .. k : r[i] = s[m + i]
    BY <1>1, SubSeqType
  <1>4. \A i \in 1 .. k : m + i \in 1 .. Len(s)
    BY <1>1
  <1> HIDE DEF l, r, k
  <1>5. \A i \in 1 .. Len(l) : l[i] = r[i]
    BY <1>1, <1>2, <1>3, <1>4
  <1> QED
    BY <1>2, <1>3, <1>5, SeqEqual DEF l, r

(* What was put at the end of a file is found there.                         *)
LEMMA TextThere ==
    ASSUME NEW s \in Seq(Byte), NEW text \in Seq(Byte)
    PROVE  /\ SubSeq(s \o text, Len(s) + 1, Len(s) + Len(text)) = text
           /\ Len(s \o text) = Len(s) + Len(text)
  <1>1. /\ Len(s) \in 0 .. Len(s) /\ Len(s) \in Nat /\ Len(s \o text) = Len(s) + Len(text)
        /\ Len(text) \in Nat
    OBVIOUS
  <1>2. SubSeq(s \o text, Len(s) + 1, Len(s \o text)) = SubSeq(s, Len(s) + 1, Len(s)) \o text
    BY <1>1, RestKept
  <1>3. SubSeq(s, Len(s) + 1, Len(s)) = <<>>
    BY <1>1, SubSeqEmpty
  <1>4. <<>> \o text = text
    BY ConcatEmptySeq
  <1> QED
    BY <1>1, <1>2, <1>3, <1>4

Around(f, start, text, end, m) == (SubSeq(f, 1, start) \o text) \o SubSeq(f, end + 1, m)

(* What the rewriting makes of a file it has read only as far as m.          *)
LEMMA SpliceOfPrefix ==
    ASSUME NEW f \in Seq(Byte), NEW text \in Seq(Byte), NEW start \in Nat, NEW end \in Nat,
           NEW m \in Nat, start <= end, end <= m, m <= Len(f)
    PROVE  Splice(SubSeq(f, 1, m), start, end, text) = Around(f, start, text, end, m)
  <1> DEFINE g == SubSeq(f, 1, m)
             b == SubSeq(f, m + 1, Len(f))
  <1>1. m \in 0 .. Len(f) /\ Len(f) \in 0 .. Len(f) /\ 0 \in Nat
    OBVIOUS
  <1>2. g \in Seq(Byte) /\ Len(g) = m /\ b \in Seq(Byte)
    <2>1. SubSeq(f, 0 + 1, m) \in Seq(Byte)
          /\ Len(SubSeq(f, 0 + 1, m)) = IF 0 <= m THEN m - 0 ELSE 0
      BY <1>1, SubSeqType
    <2>2. b \in Seq(Byte)
      BY <1>1, SubSeqType
    <2> QED
      BY <2>1, <2>2
  <1>3. f = g \o b
    <2>1. SubSeq(f, 1, m) \o SubSeq(f, m + 1, m + (Len(f) - m)) = SubSeq(f, 1, m + (Len(f) - m))
      <3>1. Len(f) - m \in Nat /\ m + (Len(f) - m) <= Len(f)
        BY <1>1
      <3> QED
        BY <3>1, PrefixesJoin
    <2>2. m + (Len(f) - m) = Len(f) /\ SubSeq(f, 1, Len(f)) = f
      BY <1>1, SubSeqFull
    <2> QED
      BY <2>1, <2>2
  <1> HIDE DEF g, b
  <1>4. start \in 0 .. Len(g) /\ m \in 0 .. Len(g)
    BY <1>2
  <1>5. SubSeq(f, 1, start) = SubSeq(g, 1, start)
    BY <1>2, <1>3, <1>4, PrefixKept
  <1>6. SubSeq(f, end + 1, m) = SubSeq(g, end + 1, m)
    BY <1>2, <1>3, <1>4, MiddleKept
  <1> QED
    BY <1>2, <1>5, <1>6 DEF Splice, Around, g

(* The steps before the rewriting keep the edit's invariant.                 *)
LEMMA LooksInv ==
    ASSUME FileTypes, EditTypes, EditInv, Looks, UNCHANGED <<versions, meanwhile, temp>>,
           ed.pc \notin {"idle", "done"}, ~Rewriting
    PROVE  EditTypes' /\ EditInv'
  <1>1. ed'.pc \notin {"create", "range", "head", "seek", "tail", "close", "rename", "idle"} /\ ~Rewriting'
    BY DEF Looks, Early, Rewriting
  <1>2. EditTypes'
    BY <1>1 DEF EditTypes, Looks
  <1>3. "replaced" \in meanwhile \/ Present <= 1
    BY DEF EditInv
  <1>4. EditInv'
    BY <1>1, <1>3 DEF EditInv, Looks, Present
  <1> QED
    BY <1>2, <1>4

(* So do the steps that open, measure and create,                            *)
LEMMA BeginsRewrite ==
    ASSUME FileTypes, EditTypes, EditInv, RewriteOpen \/ CheckRange \/ CreateTemp,
           UNCHANGED meanwhile
    PROVE  EditTypes' /\ EditInv'
  <1>1. /\ ed \in EditStates /\ ed.pc \in {"rewrite", "range", "create"} /\ temp = NoFile
        /\ "replaced" \in meanwhile \/ Present <= 1
    <2>1. ed.pc \in {"rewrite", "range", "create"}
      BY DEF RewriteOpen, CheckRange, CreateTemp, At
    <2>2. ~Rewriting
      BY <2>1 DEF Rewriting
    <2> QED
      BY <2>1, <2>2, EditKnown DEF EditTypes, EditInv
  <1>2. CASE RewriteOpen
    <2>1. Present \in 1 .. Present /\ Present \in Nat
      BY <1>2, EmptySeq DEF RewriteOpen, Exists, Present, FileTypes
    <2>2. ed' = [ed EXCEPT !.pc = "range", !.fd = Present, !.pos = 0] /\ UNCHANGED <<versions, temp>>
      BY <1>2 DEF RewriteOpen
    <2>3. ed' \in EditStates /\ ed'.pc = "range" /\ ed'.fd = Present /\ ed'.pos = 0
      BY <1>1, <2>1, <2>2 DEF EditStates
    <2> QED
      BY <1>1, <2>1, <2>2, <2>3 DEF EditTypes, EditInv, Rewriting, HasFile, Present
  <1>3. CASE CheckRange /\ Refuse
    <2>1. ed' \in EditStates /\ ed'.pc = "done" /\ ed'.answer = FALSE
      BY <1>1, <1>3, EditReturns DEF Refuse
    <2>2. Looks /\ ~Rewriting
      BY <1>1, <2>1 DEF Looks, HasFile, Rewriting
    <2> QED
      BY <1>1, <1>3, <2>2, LooksInv DEF CheckRange
  <1>4. CASE CheckRange /\ ~Refuse
    <2>1. /\ ed.pc = "range" /\ UNCHANGED <<versions, temp>>
          /\ ed.start <= ed.end /\ ed.end <= Len(versions[ed.fd])
          /\ ed' = [ed EXCEPT !.pc = "create", !.size = Len(versions[ed.fd])]
      BY <1>4 DEF CheckRange, InRange, At
    <2>2. ed.fd \in 1 .. Present /\ ed.pos = 0
      BY <2>1 DEF EditInv, HasFile
    <2>3. Len(versions[ed.fd]) \in Nat
      BY <2>2, ElementOfSeq DEF FileTypes, Present
    <2>4. /\ ed' \in EditStates /\ ed'.pc = "create" /\ ed'.fd = ed.fd /\ ed'.pos = 0
          /\ ed'.size = Len(versions[ed.fd]) /\ ed'.start = ed.start /\ ed'.end = ed.end
      BY <1>1, <2>1, <2>2, <2>3 DEF EditStates
    <2> QED
      BY <1>1, <2>1, <2>2, <2>3, <2>4 DEF EditTypes, EditInv, Rewriting, HasFile, Present
  <1>5. CASE CreateTemp
    <2>1. /\ ed.pc = "create" /\ temp' = <<>> /\ ed' = [ed EXCEPT !.pc = "head"]
          /\ UNCHANGED versions
      BY <1>5 DEF CreateTemp, At
    <2>2. /\ ed.fd \in 1 .. Present /\ ed.pos = 0 /\ ed.start <= ed.end /\ ed.end <= ed.size
          /\ "truncated" \notin meanwhile => ed.size <= Len(versions[ed.fd])
      BY <2>1 DEF EditInv, HasFile
    <2>3. /\ ed' \in EditStates /\ ed'.pc = "head" /\ ed'.fd = ed.fd /\ ed'.pos = 0
          /\ ed'.size = ed.size /\ ed'.start = ed.start /\ ed'.end = ed.end
          /\ ed.start \in Nat
      BY <1>1, <2>1, <2>2 DEF EditStates
    <2>4. <<>> \in Seq(Byte) /\ Len(<<>>) = 0 /\ SubSeq(versions[ed.fd], 1, 0) = <<>>
      BY EmptySeq, SubSeqEmpty
    <2> QED
      BY <1>1, <2>1, <2>2, <2>3, <2>4 DEF EditTypes, EditInv, Rewriting, HasFile, Present
  <1> QED
    BY <1>2, <1>3, <1>4, <1>5

(* What is known throughout the rewriting.                                   *)
LEMMA RewriteTypes ==
    ASSUME FileTypes, EditTypes, EditInv, Rewriting
    PROVE  /\ ed \in EditStates /\ temp \in Seq(Byte) /\ ed.text \in Seq(Byte)
           /\ ed.start \in Nat /\ ed.end \in Nat /\ ed.size \in Nat /\ ed.pos \in Nat
           /\ ed.fd \in 1 .. Present /\ versions[ed.fd] \in Seq(Byte)
           /\ ed.start <= ed.end /\ ed.end <= ed.size
           /\ "truncated" \notin meanwhile => ed.size <= Len(versions[ed.fd])
           /\ "replaced" \in meanwhile \/ Present <= 1
  <1>1. ed \in EditStates /\ temp \in Seq(Byte)
    BY EditKnown DEF EditTypes, Rewriting
  <1>2. ed.fd \in 1 .. Present
    BY DEF EditInv, HasFile
  <1>3. versions[ed.fd] \in Seq(Byte)
    BY <1>2, ElementOfSeq DEF FileTypes, Present
  <1> QED
    BY <1>1, <1>2, <1>3 DEF EditInv, EditStates, Rewriting

(* and a block copied from before the range,                                 *)
LEMMA HeadCopied ==
    ASSUME FileTypes, EditTypes, EditInv, CopyHead, UNCHANGED meanwhile
    PROVE  EditTypes' /\ EditInv'
  <1>1. Rewriting /\ ed.pc = "head"
    BY DEF CopyHead, At, Rewriting
  <1> DEFINE v == versions[ed.fd]
             most == Min({Block, ed.start - Len(temp)})
  <1>2. /\ ed \in EditStates /\ temp \in Seq(Byte) /\ ed.start \in Nat /\ ed.pos \in Nat
        /\ ed.fd \in 1 .. Present /\ v \in Seq(Byte)
    BY <1>1, RewriteTypes
  <1>3. most \in Nat /\ most <= ed.start - Len(temp)
    <2>1. Block \in Int /\ Block > 0 /\ ed.start - Len(temp) \in Int /\ ed.start - Len(temp) > 0
      BY <1>2, SharedFileAssumption DEF CopyHead
    <2> HIDE DEF most
    <2>2. most \in {Block, ed.start - Len(temp)} /\ most <= ed.start - Len(temp)
      BY <2>1, MinOfTwo, Zenon DEF most
    <2> QED
      BY <2>1, <2>2
  <1>4. PICK bytes \in Got(ed.fd, ed.pos, most) :
           /\ temp' = temp \o bytes
           /\ ed' = [ed EXCEPT !.pos = @ + Len(bytes)]
           /\ UNCHANGED versions
    BY DEF CopyHead
  <1> HIDE DEF most
  <1>5. /\ bytes \in Seq(Byte) /\ Len(bytes) \in 1 .. most /\ ed.pos + Len(bytes) <= Len(v)
        /\ bytes = SubSeq(v, ed.pos + 1, ed.pos + Len(bytes))
    BY <1>2, <1>3, <1>4, GotBytes
  <1> DEFINE pos == ed.pos + Len(bytes)
  <1>6. temp' \in Seq(Byte) /\ Len(temp') = Len(temp) + Len(bytes) /\ Len(temp') <= ed.start /\ pos \in Nat
    <2>1. /\ Len(bytes) \in Nat /\ Len(temp) \in Nat /\ Len(bytes) <= most
          /\ temp \o bytes \in Seq(Byte) /\ Len(temp \o bytes) = Len(temp) + Len(bytes)
      BY <1>2, <1>3, <1>5, ConcatProperties
    <2>2. Len(temp) + Len(bytes) <= ed.start
      BY <1>2, <1>3, <2>1
    <2> QED
      BY <1>2, <1>4, <2>1, <2>2
  <1>7. /\ ed' \in EditStates /\ ed'.pc = "head" /\ ed'.fd = ed.fd /\ ed'.pos = pos
        /\ ed'.size = ed.size /\ ed'.start = ed.start /\ ed'.end = ed.end
    <2>1. ed' = [ed EXCEPT !.pos = pos] /\ pos \in Nat
      BY <1>4, <1>6
    <2> HIDE DEF pos
    <2> QED
      BY <1>1, <1>2, <2>1 DEF EditStates
  <1>8. ASSUME "truncated" \notin meanwhile
        PROVE  pos = Len(temp') /\ temp' = SubSeq(v, 1, pos)
    <2>1. ed.pos = Len(temp) /\ temp = SubSeq(v, 1, ed.pos)
      BY <1>1, <1>8 DEF EditInv
    <2>2. SubSeq(v, 1, ed.pos) \o SubSeq(v, ed.pos + 1, ed.pos + Len(bytes))
              = SubSeq(v, 1, ed.pos + Len(bytes))
      <3>1. Len(bytes) \in Nat /\ v \in Seq(Byte) /\ ed.pos \in Nat /\ ed.pos + Len(bytes) <= Len(v)
        BY <1>2, <1>5
      <3> HIDE DEF v
      <3> QED
        BY <3>1, PrefixesJoin
    <2> QED
      BY <1>4, <1>5, <1>6, <2>1, <2>2
  <1>9. EditTypes'
    BY <1>6, <1>7 DEF EditTypes, Rewriting
  <1> HIDE DEF v, pos
  <1>10. versions'[ed'.fd] = v /\ Present' = Present
    BY <1>4, <1>7 DEF v, Present
  <1>11. /\ ed.start <= ed.end /\ ed.end <= ed.size
         /\ "truncated" \notin meanwhile => ed.size <= Len(v)
         /\ "replaced" \in meanwhile \/ Present <= 1
    BY <1>1, RewriteTypes DEF v
  <1>12. EditInv'
    BY <1>2, <1>6, <1>7, <1>8, <1>10, <1>11 DEF EditInv, Rewriting, HasFile
  <1> QED
    BY <1>9, <1>12

(* and the text in its place,                                                *)
LEMMA TextPut ==
    ASSUME FileTypes, EditTypes, EditInv, PutText, UNCHANGED meanwhile
    PROVE  EditTypes' /\ EditInv'
  <1>1. Rewriting /\ ed.pc = "head" /\ Len(temp) = ed.start
    BY DEF PutText, At, Rewriting
  <1> DEFINE v == versions[ed.fd]
             pc == IF ed.end < ed.size THEN "seek" ELSE "close"
  <1>2. /\ ed \in EditStates /\ temp \in Seq(Byte) /\ ed.text \in Seq(Byte)
        /\ ed.start \in Nat /\ ed.end \in Nat /\ ed.size \in Nat
        /\ ed.fd \in 1 .. Present /\ v \in Seq(Byte)
        /\ ed.start <= ed.end /\ ed.end <= ed.size
        /\ "truncated" \notin meanwhile => ed.size <= Len(v)
        /\ "replaced" \in meanwhile \/ Present <= 1
    BY <1>1, RewriteTypes
  <1>3. temp' = temp \o ed.text /\ ed' = [ed EXCEPT !.pc = pc] /\ UNCHANGED versions
    BY DEF PutText
  <1>4. pc \in {"seek", "close"} /\ (pc = "close" => ed.end = ed.size)
    BY <1>2
  <1> HIDE DEF pc
  <1>5. /\ ed' \in EditStates /\ ed'.pc = pc /\ ed'.fd = ed.fd /\ ed'.text = ed.text
        /\ ed'.size = ed.size /\ ed'.start = ed.start /\ ed'.end = ed.end
    BY <1>2, <1>3, <1>4 DEF EditStates
  <1>6. /\ temp' \in Seq(Byte) /\ Len(temp') = ed.start + Len(ed.text)
        /\ SubSeq(temp', ed.start + 1, ed.start + Len(ed.text)) = ed.text
    <2>1. temp \o ed.text \in Seq(Byte)
      BY <1>2, ConcatProperties
    <2>2. /\ Len(temp \o ed.text) = Len(temp) + Len(ed.text)
          /\ SubSeq(temp \o ed.text, Len(temp) + 1, Len(temp) + Len(ed.text)) = ed.text
      BY <1>2, TextThere
    <2> QED
      BY <1>1, <1>3, <2>1, <2>2
  <1>7. ASSUME "truncated" \notin meanwhile
        PROVE  temp' = Splice(SubSeq(v, 1, ed.end), ed.start, ed.end, ed.text)
    <2>1. temp = SubSeq(v, 1, ed.start)
      BY <1>1, <1>7 DEF EditInv
    <2>2. Splice(SubSeq(v, 1, ed.end), ed.start, ed.end, ed.text)
              = Around(v, ed.start, ed.text, ed.end, ed.end)
      <3>1. Len(v) \in Nat
        BY <1>2
      <3>2. ed.end <= ed.end /\ ed.end <= Len(v)
        BY <1>2, <1>7, <3>1
      <3> HIDE DEF v
      <3> QED
        <4>1. /\ v \in Seq(Byte) /\ ed.text \in Seq(Byte) /\ ed.start \in Nat /\ ed.end \in Nat
              /\ ed.start <= ed.end
          BY <1>2
        <4> QED
          BY <3>2, <4>1, SpliceOfPrefix
    <2>3. SubSeq(v, ed.end + 1, ed.end) = <<>>
      BY <1>2, SubSeqEmpty
    <2>4. temp' \o <<>> = temp'
      BY <1>6, ConcatEmptySeq
    <2> QED
      BY <1>3, <2>1, <2>2, <2>3, <2>4 DEF Around
  <1>8. EditTypes'
    BY <1>4, <1>5, <1>6 DEF EditTypes, Rewriting
  <1> HIDE DEF v
  <1>9. versions'[ed'.fd] = v /\ Present' = Present
    BY <1>3, <1>5 DEF v, Present
  <1>10. "truncated" \notin meanwhile => ed.end \in ed.end .. Len(v)
    BY <1>2
  <1>11. EditInv'
    BY SMTT(30), <1>2, <1>4, <1>5, <1>6, <1>7, <1>9, <1>10 DEF EditInv, Rewriting, HasFile, Copied
  <1> QED
    BY <1>8, <1>11

(* and a block copied from behind the range,                                 *)
LEMMA TailCopied ==
    ASSUME FileTypes, EditTypes, EditInv, CopyTail, UNCHANGED meanwhile
    PROVE  EditTypes' /\ EditInv'
  <1>1. Rewriting /\ ed.pc = "tail"
    BY DEF CopyTail, At, Rewriting
  <1> DEFINE v == versions[ed.fd]
  <1>2. /\ ed \in EditStates /\ temp \in Seq(Byte) /\ ed.text \in Seq(Byte)
        /\ ed.start \in Nat /\ ed.end \in Nat /\ ed.pos \in Nat
        /\ ed.fd \in 1 .. Present /\ v \in Seq(Byte)
        /\ ed.start <= ed.end /\ ed.end <= ed.size
        /\ "truncated" \notin meanwhile => ed.size <= Len(v)
        /\ "replaced" \in meanwhile \/ Present <= 1
    BY <1>1, RewriteTypes
  <1>3. PICK bytes \in Got(ed.fd, ed.pos, Block) :
           /\ temp' = temp \o bytes
           /\ ed' = [ed EXCEPT !.pos = @ + Len(bytes)]
           /\ UNCHANGED versions
    BY DEF CopyTail
  <1>4. /\ bytes \in Seq(Byte) /\ Len(bytes) \in Nat /\ ed.pos + Len(bytes) <= Len(v)
        /\ bytes = SubSeq(v, ed.pos + 1, ed.pos + Len(bytes))
    <2>1. Block \in Nat /\ ed.pos \in Nat /\ ed.fd \in 1 .. Present /\ bytes \in Got(ed.fd, ed.pos, Block)
      BY <1>2, <1>3, SharedFileAssumption
    <2>2. /\ bytes \in Seq(Byte) /\ Len(bytes) \in 1 .. Block
          /\ ed.pos + Len(bytes) <= Len(versions[ed.fd])
          /\ bytes = SubSeq(versions[ed.fd], ed.pos + 1, ed.pos + Len(bytes))
      BY <2>1, GotBytes
    <2>3. Len(bytes) \in Nat
      BY <2>2
    <2> QED
      BY <2>2, <2>3
  <1> DEFINE pos == ed.pos + Len(bytes)
  <1>5. pos \in Nat /\ temp' \in Seq(Byte) /\ Len(temp') = Len(temp) + Len(bytes) /\ Len(temp) \in Nat
    <2>1. temp \o bytes \in Seq(Byte) /\ Len(temp \o bytes) = Len(temp) + Len(bytes)
      BY <1>2, <1>4, ConcatProperties
    <2> QED
      BY <1>2, <1>3, <1>4, <2>1
  <1>6. /\ ed' \in EditStates /\ ed'.pc = "tail" /\ ed'.fd = ed.fd /\ ed'.pos = pos
        /\ ed'.size = ed.size /\ ed'.start = ed.start /\ ed'.end = ed.end /\ ed'.text = ed.text
    <2>1. ed' = [ed EXCEPT !.pos = pos] /\ pos \in Nat
      BY <1>3, <1>5
    <2> HIDE DEF pos
    <2> QED
      BY <1>1, <1>2, <2>1 DEF EditStates
  <1>7. /\ Len(temp') >= ed.start + Len(ed.text)
        /\ SubSeq(temp', ed.start + 1, ed.start + Len(ed.text)) = ed.text
    <2>1. /\ Len(temp) >= ed.start + Len(ed.text) /\ Len(ed.text) \in Nat
          /\ SubSeq(temp, ed.start + 1, ed.start + Len(ed.text)) = ed.text
      BY <1>1, <1>2 DEF EditInv
    <2>2. ed.start + Len(ed.text) \in 0 .. Len(temp)
      BY SMTT(30), <1>2, <1>5, <2>1
    <2>3. SubSeq(temp \o bytes, ed.start + 1, ed.start + Len(ed.text))
              = SubSeq(temp, ed.start + 1, ed.start + Len(ed.text))
      BY <1>2, <1>4, <2>2, MiddleKept
    <2>4. Len(temp) + Len(bytes) >= ed.start + Len(ed.text)
      BY <1>2, <1>4, <1>5, <2>1
    <2> QED
      BY <1>3, <1>5, <2>1, <2>3, <2>4
  <1>8. ASSUME "truncated" \notin meanwhile
        PROVE  /\ pos \in ed.end .. Len(v)
               /\ temp' = Splice(SubSeq(v, 1, pos), ed.start, ed.end, ed.text)
    <2> DEFINE front == SubSeq(v, 1, ed.start) \o ed.text
    <2>1. /\ ed.end <= ed.pos /\ ed.pos <= Len(v) /\ Len(v) \in Nat
          /\ temp = Splice(SubSeq(v, 1, ed.pos), ed.start, ed.end, ed.text)
      BY <1>1, <1>2, <1>8 DEF EditInv, Copied
    <2>2. /\ v \in Seq(Byte) /\ ed.text \in Seq(Byte) /\ ed.start \in Nat /\ ed.end \in Nat
          /\ ed.start <= ed.end
      BY <1>2
    <2>3. pos \in Nat /\ ed.end <= pos /\ pos <= Len(v) /\ ed.pos \in Nat
      BY <1>2, <1>4, <2>1
    <2> HIDE DEF v, pos
    <2>4. temp = front \o SubSeq(v, ed.end + 1, ed.pos)
      <3>1. ed.pos \in Nat /\ ed.end <= ed.pos /\ ed.pos <= Len(v)
        BY <2>1, <2>3
      <3>2. Splice(SubSeq(v, 1, ed.pos), ed.start, ed.end, ed.text)
                = Around(v, ed.start, ed.text, ed.end, ed.pos)
        BY <2>2, <3>1, SpliceOfPrefix
      <3> QED
        BY <2>1, <3>2 DEF Around
    <2>5. Splice(SubSeq(v, 1, pos), ed.start, ed.end, ed.text) = front \o SubSeq(v, ed.end + 1, pos)
      <3>1. pos \in Nat /\ ed.end <= pos /\ pos <= Len(v)
        BY <2>3
      <3>2. Splice(SubSeq(v, 1, pos), ed.start, ed.end, ed.text)
                = Around(v, ed.start, ed.text, ed.end, pos)
        BY <2>2, <3>1, SpliceOfPrefix
      <3> QED
        BY <3>2 DEF Around
    <2>6. SubSeq(v, ed.end + 1, ed.pos) \o bytes = SubSeq(v, ed.end + 1, pos)
      <3>1. /\ ed.end + 1 \in 1 .. Len(v) + 1 /\ ed.pos \in (ed.end + 1) - 1 .. Len(v)
            /\ pos \in ed.pos .. Len(v)
        <4>1. ed.pos <= pos
          BY <1>4, <2>3 DEF pos
        <4> QED
          BY <2>1, <2>2, <2>3, <4>1
      <3>2. SubSeq(v, ed.end + 1, ed.pos) \o SubSeq(v, ed.pos + 1, pos) = SubSeq(v, ed.end + 1, pos)
        BY <2>2, <3>1, ConcatAdjacentSubSeq
      <3> QED
        BY <1>4, <3>2 DEF pos, v
    <2>7. front \in Seq(Byte) /\ SubSeq(v, ed.end + 1, ed.pos) \in Seq(Byte)
      <3>1. ed.pos \in 0 .. Len(v) /\ ed.start \in 0 .. Len(v) /\ 0 \in Nat
        BY <2>1, <2>2, <2>3
      <3>2. SubSeq(v, ed.end + 1, ed.pos) \in Seq(Byte) /\ SubSeq(v, 0 + 1, ed.start) \in Seq(Byte)
        BY <2>2, <3>1, SubSeqType
      <3> QED
        BY <2>2, <3>2, ConcatProperties
    <2> HIDE DEF front
    <2>8. temp' = front \o SubSeq(v, ed.end + 1, pos)
      <3>1. (front \o SubSeq(v, ed.end + 1, ed.pos)) \o bytes
                = front \o (SubSeq(v, ed.end + 1, ed.pos) \o bytes)
        BY <1>4, <2>7, JoinedTwice
      <3> QED
        BY <1>3, <2>4, <2>6, <3>1
    <2>9. pos \in ed.end .. Len(v)
      BY <2>1, <2>2, <2>3
    <2> QED
      BY <2>5, <2>8, <2>9
  <1>9. EditTypes'
    BY <1>5, <1>6 DEF EditTypes, Rewriting
  <1> HIDE DEF v, pos
  <1>10. versions'[ed'.fd] = v /\ Present' = Present
    BY <1>3, <1>6 DEF v, Present
  <1>11. EditInv'
    BY <1>2, <1>6, <1>7, <1>8, <1>10 DEF EditInv, Rewriting, HasFile, Copied
  <1> QED
    BY <1>9, <1>11

(* and the steps around that copy.                                           *)
LEMMA TailSteps ==
    ASSUME FileTypes, EditTypes, EditInv, SeekTail \/ TailDone \/ CloseBoth, UNCHANGED meanwhile
    PROVE  EditTypes' /\ EditInv'
  <1>1. Rewriting /\ ed.pc \in {"seek", "tail", "close"} /\ UNCHANGED <<versions, temp>>
    BY DEF SeekTail, TailDone, CloseBoth, At, Rewriting
  <1> DEFINE v == versions[ed.fd]
  <1>2. /\ ed \in EditStates /\ temp \in Seq(Byte) /\ ed.text \in Seq(Byte)
        /\ ed.start \in Nat /\ ed.end \in Nat /\ ed.pos \in Nat
        /\ ed.fd \in 1 .. Present /\ v \in Seq(Byte)
        /\ ed.start <= ed.end /\ ed.end <= ed.size
        /\ "truncated" \notin meanwhile => ed.size <= Len(v)
        /\ "replaced" \in meanwhile \/ Present <= 1
    BY <1>1, RewriteTypes
  <1>3. /\ Len(temp) >= ed.start + Len(ed.text)
        /\ SubSeq(temp, ed.start + 1, ed.start + Len(ed.text)) = ed.text
    BY <1>1 DEF EditInv
  <1>4. PICK pc \in {"tail", "close", "rename"}, pos \in Nat :
           /\ ed' = [ed EXCEPT !.pc = pc, !.pos = pos]
           /\ pc = "tail" => SeekTail /\ pos = ed.end
           /\ pc = "close" => TailDone
           /\ pc = "rename" => CloseBoth
    <2>1. CASE SeekTail
      BY <1>2, <2>1 DEF SeekTail
    <2>2. CASE TailDone
      <3>1. ed' = [ed EXCEPT !.pc = "close", !.pos = ed.pos]
        BY <1>2, <2>2 DEF TailDone, EditStates
      <3> QED
        BY <1>2, <2>2, <3>1
    <2>3. CASE CloseBoth
      <3>1. ed' = [ed EXCEPT !.pc = "rename", !.pos = ed.pos]
        BY <1>2, <2>3 DEF CloseBoth, EditStates
      <3> QED
        BY <1>2, <2>3, <3>1
    <2> QED
      BY <2>1, <2>2, <2>3
  <1>5. /\ ed' \in EditStates /\ ed'.pc = pc /\ ed'.fd = ed.fd /\ ed'.pos = pos
        /\ ed'.size = ed.size /\ ed'.start = ed.start /\ ed'.end = ed.end /\ ed'.text = ed.text
    BY <1>2, <1>4 DEF EditStates
  <1>6. EditTypes'
    BY <1>1, <1>2, <1>5 DEF EditTypes, Rewriting
  <1>7. ASSUME "truncated" \notin meanwhile
        PROVE  /\ pc = "tail" => pos \in ed.end .. Len(v)
                                 /\ temp = Splice(SubSeq(v, 1, pos), ed.start, ed.end, ed.text)
               /\ pc \in {"close", "rename"} =>
                     \E m \in ed.end .. Len(v) :
                         temp = Splice(SubSeq(v, 1, m), ed.start, ed.end, ed.text)
    <2>1. CASE pc = "tail"
      <3>1. temp = Copied(ed.end) /\ pos = ed.end
        BY <1>4, <1>7, <2>1 DEF SeekTail, At, EditInv
      <3>2. ed.end \in ed.end .. Len(v)
        <4>1. Len(v) \in Nat /\ ed.size \in Nat
          BY <1>2 DEF EditStates
        <4> QED
          BY <1>2, <1>7, <4>1
      <3> QED
        BY <2>1, <3>1, <3>2 DEF Copied
    <2>2. CASE pc = "close"
      <3>1. ed.pos \in ed.end .. Len(v) /\ temp = Copied(ed.pos)
        BY <1>4, <1>7, <2>2 DEF TailDone, At, EditInv
      <3> QED
        BY <2>2, <3>1 DEF Copied
    <2>3. CASE pc = "rename"
      <3>1. \E m \in ed.end .. Len(v) : temp = Copied(m)
        BY <1>4, <1>7, <2>3 DEF CloseBoth, At, EditInv
      <3> QED
        BY <2>3, <3>1 DEF Copied
    <2> QED
      BY <2>1, <2>2, <2>3
  <1> HIDE DEF v
  <1>8. versions'[ed'.fd] = v /\ Present' = Present /\ temp' = temp
    BY <1>1, <1>5 DEF v, Present
  <1>9. EditInv'
    BY <1>2, <1>3, <1>5, <1>7, <1>8 DEF EditInv, Rewriting, HasFile, Copied
  <1> QED
    BY <1>6, <1>9

(* The call returns: its temporary file has become the file, or is gone.    *)
LEMMA EditReturnsInv ==
    ASSUME FileTypes, EditTypes, EditInv, Rename \/ HeadCutShort \/ CallFails, UNCHANGED meanwhile
    PROVE  EditTypes' /\ EditInv'
  <1>1. ed \in EditStates
    <2>1. ed.pc # "idle"
      BY DEF Rename, HeadCutShort, CallFails, At
    <2> QED
      BY <2>1, EditKnown
  <1>2. "replaced" \in meanwhile \/ Present <= 1
    <2>1. ed.pc \notin {"idle", "done"}
      BY DEF Rename, HeadCutShort, CallFails, At
    <2> QED
      BY <2>1 DEF EditInv
  <1>3. CASE Rename
    <2>1. ed' \in EditStates /\ ed'.pc = "done" /\ ed'.answer = TRUE /\ temp' = NoFile
      BY <1>1, <1>3, EditReturns DEF Rename
    <2> QED
      BY <2>1 DEF EditTypes, EditInv, Rewriting, HasFile
  <1>4. ASSUME NEW e \in EditStates, Return(e, FALSE), temp' = NoFile, UNCHANGED versions
        PROVE  EditTypes' /\ EditInv'
    <2>1. ed' \in EditStates /\ ed'.pc = "done" /\ ed'.answer = FALSE
      BY <1>4, EditReturns
    <2> QED
      BY <1>2, <1>4, <2>1 DEF EditTypes, EditInv, Rewriting, HasFile, Present
  <1>5. CASE HeadCutShort
    BY <1>1, <1>4, <1>5 DEF HeadCutShort, Fail
  <1>6. CASE CallFails
    <2> DEFINE e == [ed EXCEPT !.failed = TRUE]
    <2>1. e \in EditStates
      BY <1>1 DEF EditStates
    <2>2. Return(e, FALSE) /\ temp' = NoFile /\ UNCHANGED versions
      BY <1>6 DEF CallFails, Fail, EditTypes, Rewriting
    <2> HIDE DEF e
    <2> QED
      BY <1>4, <2>1, <2>2
  <1> QED
    BY <1>3, <1>5, <1>6

(* Every step of an edit keeps its invariant.                                *)
LEMMA EditStepInv ==
    ASSUME FileTypes, EditTypes, EditInv, EditStep, UNCHANGED meanwhile
    PROVE  EditTypes' /\ EditInv'
  <1>1. CASE SearchBlock \/ SearchEnds \/ SearchFails
    <2>1. Looks /\ UNCHANGED <<versions, temp>> /\ ed.pc = "search"
      BY <1>1, SearchLooks DEF SearchBlock, SearchEnds, SearchFails, At
    <2> QED
      BY <2>1, LooksInv DEF Rewriting
  <1>2. CASE Ask \/ Open \/ Size \/ LastSize \/ PeekOpen \/ PeekRead \/ OpenMissing
    <2>1. /\ Looks /\ UNCHANGED <<versions, temp>>
          /\ ed.pc \in {"ask", "open", "size", "lastSize", "peek", "peekRead", "rewrite"}
      BY <1>2, OtherLooks DEF Ask, Open, Size, LastSize, PeekOpen, PeekRead, OpenMissing, At
    <2> QED
      BY <2>1, LooksInv DEF Rewriting
  <1>3. CASE RewriteOpen \/ CheckRange \/ CreateTemp
    BY <1>3, BeginsRewrite
  <1>4. CASE CopyHead \/ PutText \/ CopyTail
    BY <1>4, HeadCopied, TextPut, TailCopied
  <1>5. CASE SeekTail \/ TailDone \/ CloseBoth
    BY <1>5, TailSteps
  <1>6. CASE Rename \/ HeadCutShort \/ CallFails
    BY <1>6, EditReturnsInv
  <1> QED
    BY <1>1, <1>2, <1>3, <1>4, <1>5, <1>6 DEF EditStep

(* What others do to the file during an edit.                               *)
LEMMA EditUndisturbed ==
    ASSUME FileTypes, PutInv, OthersInv, EditTypes, EditInv, FileStep,
           UNCHANGED editVars,
           ed.pc # "idle" =>
              /\ put[Owner].pc = "idle" /\ ~Opened(Owner)
              /\ Present <= 1 => Len(versions') <= 1 \/ "replaced" \in meanwhile'
    PROVE  EditTypes' /\ EditInv'
  <1>1. UNCHANGED <<ed, temp>>
    BY DEF editVars
  <1>2. EditTypes'
    BY <1>1 DEF EditTypes, Rewriting
  <1>3. meanwhile \subseteq meanwhile' /\ Present <= Len(versions') /\ Present \in Nat
    <2>1. Present \in Nat
      BY DEF FileTypes, Present
    <2> QED
      BY <2>1, Remembered, FileChanges
  <1>4. CASE ed.pc = "idle"
    <2>1. ed'.pc = "idle"
      BY <1>1, <1>4
    <2> QED
      BY <1>2, <2>1 DEF EditInv, HasFile, Rewriting
  <1>5. CASE ed.pc # "idle"
    <2> DEFINE v == versions[ed.fd]
               new == versions'[ed.fd]
    <2>1. HasFile => ed.fd \in 1 .. Present /\ ed.fd \in 1 .. Len(versions')
      <3>1. FileTypes'
        BY FilesInv
      <3>2. Len(versions') \in Nat
        BY <3>1 DEF FileTypes
      <3> QED
        BY <1>3, <3>2 DEF EditInv
    <2>2. HasFile /\ "truncated" \notin meanwhile' =>
             /\ v \in Seq(Byte) /\ new \in Seq(Byte) /\ Len(v) <= Len(new)
             /\ \A m \in 0 .. Len(v) : SubSeq(new, 1, m) = SubSeq(v, 1, m)
      <3>1. HasFile => v \in Seq(Byte)
        BY <2>1, ElementOfSeq DEF FileTypes, Present
      <3> QED
        BY <1>5, <2>1, <3>1, FilesGrow
    <2>3. ed \in EditStates
      BY <1>5, EditKnown
    <2>4. "replaced" \in meanwhile \/ Present <= 1 =>
             "replaced" \in meanwhile' \/ Len(versions') <= 1
      BY <1>3, <1>5
    <2>5. ASSUME HasFile, "truncated" \notin meanwhile', NEW m \in 0 .. Len(v)
          PROVE  /\ SubSeq(new, 1, m) = SubSeq(v, 1, m) /\ m \in 0 .. Len(new)
      <3>1. Len(v) \in Nat /\ Len(new) \in Nat /\ Len(v) <= Len(new)
        BY <2>2, <2>5
      <3> QED
        BY <2>2, <2>5, <3>1
    <2> HIDE DEF v, new
    <2>6. "truncated" \notin meanwhile' => "truncated" \notin meanwhile
      BY <1>3
    <2>7. ASSUME ed.pc = "create" \/ Rewriting
          PROVE  /\ ed.start <= ed.end /\ ed.end <= ed.size
                 /\ "truncated" \notin meanwhile' => ed.size <= Len(new)
      <3>1. /\ ed.start <= ed.end /\ ed.end <= ed.size /\ ed.size \in Nat
            /\ "truncated" \notin meanwhile => ed.size <= Len(v)
        BY <2>3, <2>7 DEF EditInv, EditStates, v
      <3>2. HasFile
        BY <2>7 DEF HasFile
      <3>3. "truncated" \notin meanwhile' => Len(v) \in Nat /\ Len(new) \in Nat /\ Len(v) <= Len(new)
        BY <2>2, <3>2
      <3> QED
        BY <2>6, <3>1, <3>3
    <2>8. ASSUME ed.pc = "head"
          PROVE  /\ Len(temp) <= ed.start
                 /\ "truncated" \notin meanwhile' =>
                       ed.pos = Len(temp) /\ temp = SubSeq(new, 1, ed.pos)
      <3>1. /\ HasFile /\ Rewriting /\ temp \in Seq(Byte) /\ Len(temp) <= ed.start
            /\ ed.start \in Nat /\ ed.end \in Nat /\ ed.size \in Nat
            /\ ed.start <= ed.end /\ ed.end <= ed.size
            /\ "truncated" \notin meanwhile =>
                  ed.pos = Len(temp) /\ temp = SubSeq(v, 1, ed.pos) /\ ed.size <= Len(v)
        BY <2>3, <2>8 DEF EditInv, EditTypes, EditStates, HasFile, Rewriting, v
      <3>2. "truncated" \notin meanwhile' => ed.pos \in 0 .. Len(v)
        <4>1. "truncated" \notin meanwhile' => Len(v) \in Nat
          BY <2>2, <3>1
        <4>2. Len(temp) \in Nat
          BY <3>1
        <4> QED
          BY <2>6, <3>1, <4>1, <4>2
      <3> QED
        BY <2>5, <2>6, <3>1, <3>2
    <2>9. ASSUME HasFile, "truncated" \notin meanwhile', NEW m \in Nat, m <= Len(v)
          PROVE  Copied(m) = Splice(SubSeq(new, 1, m), ed.start, ed.end, ed.text)
      <3>1. m \in 0 .. Len(v)
        BY <2>2, <2>9
      <3> QED
        BY <2>5, <2>9, <3>1 DEF Copied, v
    <2>10. ASSUME "truncated" \notin meanwhile'
           PROVE  /\ ed.pc = "seek" =>
                        temp = Splice(SubSeq(new, 1, ed.end), ed.start, ed.end, ed.text)
                  /\ ed.pc = "tail" =>
                        /\ ed.pos \in ed.end .. Len(new)
                        /\ temp = Splice(SubSeq(new, 1, ed.pos), ed.start, ed.end, ed.text)
                  /\ ed.pc \in {"close", "rename"} =>
                        \E m \in ed.end .. Len(new) :
                            temp = Splice(SubSeq(new, 1, m), ed.start, ed.end, ed.text)
      <3>1. ed.end \in Nat /\ ed.pos \in Nat /\ ed.size \in Nat
        BY <2>3 DEF EditStates
      <3>2. HasFile => Len(v) \in Nat /\ Len(new) \in Nat /\ Len(v) <= Len(new)
        BY <2>2, <2>10
      <3>3. CASE ed.pc = "seek"
        <4>1. HasFile /\ temp = Copied(ed.end) /\ ed.end <= ed.size /\ ed.size <= Len(v)
          BY <2>6, <2>10, <3>3 DEF EditInv, HasFile, Rewriting, v
        <4>2. ed.end <= Len(v)
          BY <3>1, <3>2, <4>1
        <4> QED
          BY <2>9, <2>10, <3>1, <3>3, <4>1, <4>2
      <3>4. CASE ed.pc = "tail"
        <4>1. HasFile /\ temp = Copied(ed.pos) /\ ed.pos \in ed.end .. Len(v)
          BY <2>6, <2>10, <3>4 DEF EditInv, HasFile, Rewriting, v
        <4>2. ed.pos <= Len(v) /\ ed.pos \in ed.end .. Len(new)
          BY <3>1, <3>2, <4>1
        <4> QED
          BY <2>9, <2>10, <3>1, <3>4, <4>1, <4>2
      <3>5. CASE ed.pc \in {"close", "rename"}
        <4>1. HasFile /\ \E m \in ed.end .. Len(v) : temp = Copied(m)
          BY <2>6, <2>10, <3>5 DEF EditInv, HasFile, Rewriting, v
        <4>2. PICK m \in ed.end .. Len(v) : temp = Copied(m)
          BY <4>1
        <4>3. m \in Nat /\ m <= Len(v) /\ m \in ed.end .. Len(new)
          BY <3>1, <3>2, <4>1
        <4> QED
          BY <2>9, <2>10, <3>5, <4>1, <4>2, <4>3
      <3> QED
        BY <3>3, <3>4, <3>5
    <2>11. EditInv'
      <3> USE DEF EditInv
      <3> QED
        BY <1>1, <2>1, <2>4, <2>7, <2>8, <2>10 DEF Rewriting, HasFile, Copied, Present, new
    <2> QED
      BY <1>2, <2>11
  <1> QED
    BY <1>2, <1>4, <1>5

(* ------------------------------- reads ----------------------------------- *)

(* What is known of a read under way.                                        *)
LEMMA ReadKnown ==
    ASSUME FileTypes, ReadTypes, rd.pc # "idle"
    PROVE  /\ rd = [pc |-> rd.pc, req |-> rd.req, hasher |-> rd.hasher, fd |-> rd.fd,
                    size |-> rd.size, want |-> rd.want, got |-> rd.got, answer |-> rd.answer,
                    seen |-> rd.seen, failed |-> rd.failed, missing |-> rd.missing]
           /\ rd.pc \in {"stat", "open", "size", "read", "stream", "view", "done"}
           /\ rd.req \in ReadRequests
           /\ rd.size \in Nat /\ rd.want \in Nat /\ rd.got \in Seq(Byte)
           /\ rd.pc \in {"size", "read", "stream", "view"} =>
                 rd.fd \in 1 .. Present /\ versions[rd.fd] \in Seq(Byte)
           /\ rd.pc \in {"stat", "open", "size"} => rd.got = <<>>
           /\ rd.pc = "read" => Len(rd.got) <= rd.want
  <1>1. ASSUME rd.fd \in 1 .. Present PROVE versions[rd.fd] \in Seq(Byte)
    BY <1>1, ElementOfSeq DEF FileTypes, Present
  <1>2. rd # [pc |-> "idle"]
    OBVIOUS
  <1> QED
    BY <1>1, <1>2 DEF ReadTypes

(* What a read wants is a number of bytes, and readall wants all there are.  *)
LEMMA WantedType ==
    ASSUME rd.req \in ReadRequests, NEW size \in Nat, NEW want \in Wanted(size)
    PROVE  want \in Nat /\ (rd.req.api = "readall" => want = size)
  <1>1. CASE rd.req.api # "readRange"
    BY <1>1 DEF Wanted, RIs
  <1>2. CASE rd.req.api = "readRange"
    <2>1. rd.req.offset \in Nat /\ rd.req.len \in Nat
      BY <1>2 DEF ReadRequests
    <2>2. ~(rd.req.offset > size) /\ want = Remaining(size)
      BY <1>2 DEF Wanted, RIs
    <2>3. Remaining(size) \in {size - rd.req.offset, rd.req.len}
      BY DEF Remaining
    <2> QED
      BY <1>2, <2>1, <2>2, <2>3
  <1> QED
    BY <1>1, <1>2

(* Where a read goes on.                                                     *)
LEMMA ReadOffset ==
    ASSUME rd.req \in ReadRequests, rd.got \in Seq(Byte)
    PROVE  Offset \in Nat /\ (rd.req.api = "readall" => Offset = Len(rd.got))
  <1>1. rd.req.api = "readRange" => rd.req.offset \in Nat
    BY DEF ReadRequests
  <1> QED
    BY <1>1 DEF Offset, Start, RIs

(* A step of a read keeps its types.                                         *)
LEMMA ReadStepTypes ==
    ASSUME FileTypes, ReadTypes, ReadStep
    PROVE  ReadTypes'
  <1>1. UNCHANGED fileVars /\ rd.pc # "idle"
    BY DEF ReadStep, ReadOpen, ReadMissing, ReadStat, ReadSize, Sized, ReadSome, ReadDone,
       ReadShort, HashSome, HashDone, View, ReadCallFails, RAt
  <1> DEFINE Shape ==
                rd = [pc |-> rd.pc, req |-> rd.req, hasher |-> rd.hasher, fd |-> rd.fd,
                      size |-> rd.size, want |-> rd.want, got |-> rd.got, answer |-> rd.answer,
                      seen |-> rd.seen, failed |-> rd.failed, missing |-> rd.missing]
  <1>2. /\ Shape /\ rd.req \in ReadRequests
        /\ rd.size \in Nat /\ rd.want \in Nat /\ rd.got \in Seq(Byte)
        /\ rd.pc \in {"size", "read", "stream", "view"} =>
              rd.fd \in 1 .. Present /\ versions[rd.fd] \in Seq(Byte)
        /\ rd.pc \in {"stat", "open", "size"} => rd.got = <<>>
        /\ rd.pc = "read" => Len(rd.got) <= rd.want
    BY <1>1, ReadKnown
  <1>3. Present' = Present /\ Present \in Nat
    BY <1>1 DEF fileVars, Present, FileTypes
  <1>4. ASSUME NEW answer, NEW seen, NEW failed, NEW missing,
               rd' = [rd EXCEPT !.pc = "done", !.answer = answer, !.seen = seen,
                                !.failed = failed, !.missing = missing]
        PROVE  ReadTypes'
    <2>1. Shape' /\ rd'.pc = "done" /\ rd'.req = rd.req /\ rd'.size = rd.size
          /\ rd'.want = rd.want /\ rd'.got = rd.got
      BY <1>2, <1>4
    <2> QED
      BY <1>2, <2>1 DEF ReadTypes
  <1>5. ASSUME NEW answer, RReturn(answer) PROVE ReadTypes'
    <2>1. rd' = [rd EXCEPT !.pc = "done", !.answer = answer, !.seen = rd.seen,
                           !.failed = rd.failed, !.missing = rd.missing]
      BY <1>2, <1>5 DEF RReturn
    <2> QED
      BY <1>4, <2>1
  <1>6. ASSUME Exists PROVE Present \in 1 .. Present /\ Len(versions[Present]) \in Nat
    <2>1. Present \in 1 .. Present
      BY <1>3, <1>6, EmptySeq DEF Exists, Present, FileTypes
    <2>2. versions[Present] \in Seq(Byte)
      BY <2>1, ElementOfSeq DEF Present, FileTypes
    <2> QED
      BY <2>1, <2>2
  <1>7. CASE ReadOpen
    <2>1. /\ Present \in 1 .. Present /\ rd.got = <<>> /\ Len(rd.got) <= rd.want
      BY <1>2, <1>6, <1>7, EmptySeq DEF ReadOpen, RAt
    <2> DEFINE Entered(pc, seen) == [rd EXCEPT !.pc = pc, !.fd = Present, !.seen = seen]
    <2>2. PICK pc, seen : pc \in {"size", "read", "stream", "view"} /\ rd' = Entered(pc, seen)
      <3>1. rd.req.api \in WholeApis
        BY <1>2 DEF ReadRequests, WholeApis
      <3>2. \/ RIs({"readall", "readRange"}) \/ RIs({"filesEqual"})
            \/ RIs(DOMAIN Hashing) \/ RIs({"readMapped"})
        BY <3>1 DEF WholeApis, RIs
      <3>3. ("size" \in {"size", "read", "stream", "view"}) /\ ("read" \in {"size", "read", "stream", "view"})
            /\ ("stream" \in {"size", "read", "stream", "view"}) /\ ("view" \in {"size", "read", "stream", "view"})
        OBVIOUS
      <3> DEFINE next == CASE RIs({"readall", "readRange"}) -> "size"
                           [] RIs({"filesEqual"}) -> "read"
                           [] RIs(DOMAIN Hashing) -> "stream"
                           [] RIs({"readMapped"}) -> "view"
      <3>4. next \in {"size", "read", "stream", "view"}
        BY <3>2
      <3> DEFINE both == rd.seen \cup {Sight}
      <3>5. rd' = Entered(next, both)
        BY <1>7 DEF ReadOpen
      <3> HIDE DEF next, both, Entered
      <3> QED
        BY <3>4, <3>5
    <2>3. /\ Shape' /\ rd'.pc = pc /\ rd'.req = rd.req /\ rd'.size = rd.size
          /\ rd'.want = rd.want /\ rd'.got = rd.got /\ rd'.fd = Present
      BY <1>2, <2>2
    <2> HIDE DEF Shape
    <2>4. ReadTypes'
      BY <1>2, <1>3, <2>1, <2>2, <2>3 DEF ReadTypes, Shape
    <2> QED
      BY <2>4
  <1>8. CASE ReadMissing \/ ReadCallFails
    <2>1. \E answer, failed, missing :
             rd' = [rd EXCEPT !.pc = "done", !.answer = answer, !.seen = rd.seen,
                              !.failed = failed, !.missing = missing]
      <3>1. CASE ReadMissing
        <4>1. rd' = [rd EXCEPT !.pc = "done", !.answer = NoAnswer, !.seen = rd.seen,
                               !.failed = rd.failed, !.missing = TRUE]
          BY <1>2, <3>1 DEF ReadMissing
        <4> QED
          BY <4>1
      <3>2. CASE ReadCallFails
        <4>1. rd' = [rd EXCEPT !.pc = "done", !.answer = NoAnswer, !.seen = rd.seen,
                               !.failed = TRUE, !.missing = rd.missing]
          BY <1>2, <3>2 DEF ReadCallFails
        <4> QED
          BY <4>1
      <3> QED
        BY <1>8, <3>1, <3>2
    <2> QED
      BY ZenonT(60), <1>4, <2>1
  <1>9. CASE ReadStat
    <2>1. ASSUME NEW answer, StatAnswers(answer) PROVE ReadTypes'
      <3>1. rd' = [rd EXCEPT !.pc = "done", !.answer = answer, !.seen = {Sight},
                             !.failed = rd.failed, !.missing = rd.missing]
        BY <1>2, <2>1 DEF StatAnswers
      <3> QED
        BY <1>4, <3>1
    <2> DEFINE size == Len(versions[Present])
    <2>2. ASSUME rd' = [rd EXCEPT !.pc = "open", !.size = size, !.want = size, !.seen = {Sight}]
          PROVE  ReadTypes'
      <3>1. size \in Nat /\ rd.got = <<>>
        BY <1>2, <1>6, <1>9 DEF ReadStat, RAt
      <3> HIDE DEF size
      <3>2. /\ Shape' /\ rd'.pc = "open" /\ rd'.req = rd.req /\ rd'.size = size
            /\ rd'.want = size /\ rd'.got = rd.got
        BY <1>2, <2>2
      <3> QED
        BY <1>2, <3>1, <3>2 DEF ReadTypes
    <2> QED
      BY <1>9, <2>1, <2>2 DEF ReadStat
  <1>10. CASE ReadSize
    <2>1. Sized(Len(versions[rd.fd])) /\ rd.pc = "size"
      BY <1>10 DEF ReadSize, Sized, RAt
    <2>2. Len(versions[rd.fd]) \in Nat /\ rd.got = <<>> /\ rd.fd \in 1 .. Present
      BY <1>2, <2>1
    <2>3. RReturn(Refused) \/ \E want \in Wanted(Len(versions[rd.fd])) :
                                  rd' = [rd EXCEPT !.pc = "read", !.want = want]
      BY <2>1 DEF Sized
    <2>4. ASSUME NEW want \in Nat, rd' = [rd EXCEPT !.pc = "read", !.want = want]
          PROVE  ReadTypes'
      <3>1. /\ Shape' /\ rd'.pc = "read" /\ rd'.req = rd.req /\ rd'.size = rd.size
            /\ rd'.want = want /\ rd'.got = rd.got /\ rd'.fd = rd.fd
        BY <1>2, <2>4
      <3>2. Len(rd.got) <= want
        BY <2>2, EmptySeq
      <3> QED
        BY <1>2, <1>3, <2>2, <3>1, <3>2 DEF ReadTypes
    <2>5. \A want \in Wanted(Len(versions[rd.fd])) : want \in Nat
      BY <1>2, <2>2, WantedType
    <2> QED
      BY <1>5, <2>3, <2>4, <2>5
  <1>11. CASE ReadDone \/ ReadShort \/ HashDone \/ View
    BY <1>5, <1>11 DEF ReadDone, ReadShort, HashDone, View
  <1>12. Offset \in Nat
    BY <1>2, ReadOffset
  <1>13. CASE ReadSome
    <2>1. PICK bytes \in Got(rd.fd, Offset, rd.want - Len(rd.got)) :
             rd' = [rd EXCEPT !.got = @ \o bytes] /\ rd.pc = "read"
      BY <1>13 DEF ReadSome, RAt
    <2>2. rd.want - Len(rd.got) \in Nat /\ Len(rd.got) \in Nat /\ rd.fd \in 1 .. Present
      BY <1>2, <2>1
    <2>3. bytes \in Seq(Byte) /\ Len(bytes) \in 1 .. rd.want - Len(rd.got)
      BY <1>12, <2>1, <2>2, GotBytes
    <2>4. rd.got \o bytes \in Seq(Byte) /\ Len(rd.got \o bytes) = Len(rd.got) + Len(bytes)
      BY <1>2, <2>3, ConcatProperties
    <2>5. Len(rd.got) + Len(bytes) <= rd.want
      BY <1>2, <2>2, <2>3
    <2>6. /\ Shape' /\ rd'.pc = "read" /\ rd'.req = rd.req /\ rd'.size = rd.size
          /\ rd'.want = rd.want /\ rd'.got = rd.got \o bytes /\ rd'.fd = rd.fd
      BY <1>2, <2>1
    <2> QED
      BY <1>2, <1>3, <2>2, <2>4, <2>5, <2>6 DEF ReadTypes
  <1>14. CASE HashSome
    <2>1. PICK bytes \in Got(rd.fd, Offset, Block) :
             /\ rd' = [rd EXCEPT !.got = @ \o bytes, !.hasher = Update(@, bytes)]
             /\ rd.pc = "stream"
      BY <1>14 DEF HashSome, RAt
    <2>2. rd.fd \in 1 .. Present /\ Block \in Nat
      BY <1>2, <2>1, SharedFileAssumption
    <2>3. bytes \in Seq(Byte)
      BY <1>12, <2>1, <2>2, GotBytes
    <2>4. rd.got \o bytes \in Seq(Byte)
      BY <1>2, <2>3, ConcatProperties
    <2>5. /\ Shape' /\ rd'.pc = "stream" /\ rd'.req = rd.req /\ rd'.size = rd.size
          /\ rd'.want = rd.want /\ rd'.got = rd.got \o bytes /\ rd'.fd = rd.fd
      BY <1>2, <2>1
    <2> QED
      BY <1>2, <1>3, <2>2, <2>4, <2>5 DEF ReadTypes
  <1> QED
    BY <1>7, <1>8, <1>9, <1>10, <1>11, <1>13, <1>14 DEF ReadStep

(* The calls that feed a hasher.                                             *)
LEMMA HashingApis == DOMAIN Hashing = {"fileHash", "fileCrc32", "fileXxHash64"}
  BY DEF Hashing

(* What File::insert reads.                                                 *)
LEMMA InsertReads ==
    ASSUME FileTypes, ReadTypes, InsertInv, ReadStep, UNCHANGED <<w, put>>
    PROVE  InsertInv'
  <1> SUFFICES ASSUME w.pc = "reading"
               PROVE  /\ rd'.pc \in {"open", "size", "read", "done"} /\ rd'.req.api = "readall"
                      /\ meanwhile = {} /\ rd'.pc \in {"size", "read"} => rd'.fd = Present
                      /\ meanwhile = {} /\ rd'.pc = "read" =>
                            rd'.want = Len(Content) /\ rd'.got = SubSeq(Content, 1, Len(rd'.got))
                      /\ rd'.pc = "done" =>
                            \/ rd'.answer = Refused
                            \/ /\ rd'.answer.is = "ok" /\ rd'.answer.value \in Seq(Byte)
                               /\ meanwhile = {} => rd'.answer.value = Content
    <2>1. UNCHANGED <<versions, meanwhile>>
      BY DEF ReadStep, ReadOpen, ReadMissing, ReadStat, ReadSize, Sized, ReadSome, ReadDone,
         ReadShort, HashSome, HashDone, View, ReadCallFails, fileVars
    <2>2. Content' = Content /\ Present' = Present
      BY <2>1 DEF Content, Exists, Present
    <2> QED
      BY <2>1, <2>2 DEF InsertInv
  <1>1. /\ rd.pc \in {"open", "size", "read", "done"} /\ rd.req.api = "readall"
        /\ meanwhile = {} /\ rd.pc \in {"size", "read"} => rd.fd = Present
        /\ meanwhile = {} /\ rd.pc = "read" =>
              rd.want = Len(Content) /\ rd.got = SubSeq(Content, 1, Len(rd.got))
    BY DEF InsertInv
  <1> DEFINE Shape ==
                rd = [pc |-> rd.pc, req |-> rd.req, hasher |-> rd.hasher, fd |-> rd.fd,
                      size |-> rd.size, want |-> rd.want, got |-> rd.got, answer |-> rd.answer,
                      seen |-> rd.seen, failed |-> rd.failed, missing |-> rd.missing]
  <1>2. /\ Shape /\ rd.req \in ReadRequests
        /\ rd.want \in Nat /\ rd.got \in Seq(Byte)
        /\ rd.pc \in {"size", "read", "stream", "view"} =>
              rd.fd \in 1 .. Present /\ versions[rd.fd] \in Seq(Byte)
        /\ rd.pc \in {"stat", "open", "size"} => rd.got = <<>>
        /\ rd.pc = "read" => Len(rd.got) <= rd.want
    BY <1>1, ReadKnown
  <1>3. NoAnswer = Refused /\ Content \in Seq(Byte)
    BY <1>1, ContentType DEF NoAnswer, RIs
  <1>4. ASSUME rd.pc \in {"size", "read"}, meanwhile = {} PROVE versions[rd.fd] = Content
    <2>1. rd.fd = Present /\ rd.fd \in 1 .. Present
      BY <1>1, <1>2, <1>4
    <2>2. versions # <<>>
      BY <2>1, EmptySeq DEF Present
    <2> QED
      BY <2>1, <2>2 DEF Content, Exists
  <1>5. Offset \in Nat /\ Offset = Len(rd.got)
    BY <1>1, <1>2, ReadOffset
  <1>6. ASSUME NEW answer, RReturn(answer),
               \/ answer = Refused
               \/ answer.is = "ok" /\ answer.value \in Seq(Byte)
                  /\ (meanwhile = {} => answer.value = Content)
        PROVE  /\ rd'.pc = "done" /\ rd'.req = rd.req
               /\ \/ rd'.answer = Refused
                  \/ /\ rd'.answer.is = "ok" /\ rd'.answer.value \in Seq(Byte)
                     /\ meanwhile = {} => rd'.answer.value = Content
    <2>1. rd'.pc = "done" /\ rd'.req = rd.req /\ rd'.answer = answer
      BY <1>2, <1>6 DEF RReturn
    <2> QED
      BY <1>6, <2>1
  <1>7. CASE ReadOpen
    <2>1. rd'.pc = "size" /\ rd'.req = rd.req /\ rd'.fd = Present
      <3>1. rd' = [rd EXCEPT !.pc = CASE RIs({"readall", "readRange"}) -> "size"
                                      [] RIs({"filesEqual"}) -> "read"
                                      [] RIs(DOMAIN Hashing) -> "stream"
                                      [] RIs({"readMapped"}) -> "view",
                             !.fd = Present, !.seen = @ \cup {Sight}]
        BY <1>7 DEF ReadOpen
      <3>2. (CASE RIs({"readall", "readRange"}) -> "size"
               [] RIs({"filesEqual"}) -> "read"
               [] RIs(DOMAIN Hashing) -> "stream"
               [] RIs({"readMapped"}) -> "view") = "size"
        <4>1. RIs({"readall", "readRange"}) /\ ~RIs({"filesEqual"}) /\ ~RIs({"readMapped"})
          BY <1>1 DEF RIs
        <4>2. ~RIs(DOMAIN Hashing)
          BY <1>1, HashingApis DEF RIs
        <4> QED
          BY <4>1, <4>2
      <3> QED
        BY <1>2, <3>1, <3>2
    <2> QED
      BY <1>1, <2>1
  <1>8. CASE ReadMissing \/ ReadCallFails
    <2>1. rd'.pc = "done" /\ rd'.req = rd.req /\ rd'.answer = NoAnswer
      BY <1>2, <1>8 DEF ReadMissing, ReadCallFails
    <2> QED
      BY <1>1, <1>3, <2>1
  <1>9. CASE ReadSize
    <2>1. Sized(Len(versions[rd.fd])) /\ rd.pc = "size"
      BY <1>9 DEF ReadSize, Sized, RAt
    <2>2. Len(versions[rd.fd]) \in Nat /\ rd.got = <<>>
      BY <1>2, <2>1
    <2>3. CASE RReturn(Refused)
      BY <1>1, <1>6, <2>3
    <2>4. ASSUME NEW want \in Wanted(Len(versions[rd.fd])),
                 rd' = [rd EXCEPT !.pc = "read", !.want = want]
          PROVE  /\ rd'.pc = "read" /\ rd'.req = rd.req
                 /\ meanwhile = {} =>
                       rd'.fd = Present /\ rd'.want = Len(Content)
                       /\ rd'.got = SubSeq(Content, 1, Len(rd'.got))
      <3>1. /\ rd'.pc = "read" /\ rd'.req = rd.req /\ rd'.fd = rd.fd /\ rd'.want = want
            /\ rd'.got = rd.got
        BY <1>2, <2>4
      <3>2. want = Len(versions[rd.fd])
        BY <1>1, <1>2, <2>2, <2>4, WantedType
      <3>3. SubSeq(Content, 1, Len(rd.got)) = <<>>
        BY <2>2, EmptySeq, SubSeqEmpty
      <3> QED
        BY <1>1, <1>4, <2>1, <2>2, <3>1, <3>2, <3>3
    <2> QED
      BY <1>1, <2>1, <2>3, <2>4 DEF Sized
  <1>10. CASE ReadSome
    <2>1. PICK bytes \in Got(rd.fd, Offset, rd.want - Len(rd.got)) :
             rd' = [rd EXCEPT !.got = @ \o bytes] /\ rd.pc = "read"
      BY <1>10 DEF ReadSome, RAt
    <2>2. rd.want - Len(rd.got) \in Nat /\ Len(rd.got) \in Nat /\ rd.fd \in 1 .. Present
      BY <1>2, <2>1
    <2>3. /\ bytes \in Seq(Byte) /\ Len(bytes) \in 1 .. rd.want - Len(rd.got)
          /\ Offset + Len(bytes) <= Len(versions[rd.fd])
          /\ bytes = SubSeq(versions[rd.fd], Offset + 1, Offset + Len(bytes))
      BY <1>5, <2>1, <2>2, GotBytes
    <2>4. /\ rd'.pc = "read" /\ rd'.req = rd.req /\ rd'.fd = rd.fd /\ rd'.want = rd.want
          /\ rd'.got = rd.got \o bytes
      BY <1>2, <2>1
    <2>5. ASSUME meanwhile = {}
          PROVE  rd.got \o bytes = SubSeq(Content, 1, Len(rd.got \o bytes))
      <3>1. Len(rd.got \o bytes) = Len(rd.got) + Len(bytes)
        BY <1>2, <2>3, ConcatProperties
      <3>2. rd.got = SubSeq(Content, 1, Len(rd.got)) /\ versions[rd.fd] = Content
        BY <1>1, <1>4, <2>1, <2>5
      <3>3. Len(bytes) \in Nat /\ Len(rd.got) + Len(bytes) <= Len(Content)
            /\ bytes = SubSeq(Content, Len(rd.got) + 1, Len(rd.got) + Len(bytes))
        <4>1. Len(bytes) \in Nat
          BY <2>3
        <4>2. Offset + Len(bytes) <= Len(Content)
              /\ bytes = SubSeq(Content, Offset + 1, Offset + Len(bytes))
          BY <2>3, <3>2
        <4> QED
          BY <1>5, <4>1, <4>2
      <3>4. SubSeq(Content, 1, Len(rd.got)) \o SubSeq(Content, Len(rd.got) + 1, Len(rd.got) + Len(bytes))
                = SubSeq(Content, 1, Len(rd.got) + Len(bytes))
        BY <1>3, <2>2, <3>3, PrefixesJoin
      <3> QED
        BY <3>1, <3>2, <3>3, <3>4
    <2> QED
      BY <1>1, <2>1, <2>4, <2>5
  <1>11. CASE ReadDone
    <2>1. RReturn(Ok(rd.got)) /\ rd.pc = "read" /\ Len(rd.got) = rd.want
      BY <1>1, <1>11 DEF ReadDone, RIs, RAt
    <2>2. Ok(rd.got).is = "ok" /\ Ok(rd.got).value = rd.got
      BY DEF Ok
    <2>3. meanwhile = {} => rd.got = Content
      BY <1>1, <1>3, <2>1, SubSeqFull
    <2> QED
      BY <1>1, <1>2, <1>6, <2>1, <2>2, <2>3
  <1>12. CASE ReadShort
    BY <1>1, <1>3, <1>6, <1>12 DEF ReadShort
  <1>13. ~ReadStat /\ ~HashSome /\ ~HashDone /\ ~View
    BY <1>1 DEF ReadStat, HashSome, HashDone, View, RAt
  <1> QED
    BY <1>7, <1>8, <1>9, <1>10, <1>11, <1>12, <1>13 DEF ReadStep

(* ----------------------------- all the steps ----------------------------- *)

ByOthers == (\E t \in Threads \ {Owner} : ByThread(t)) \/ ByProgram

OwnerEdits == EditStep /\ UNCHANGED <<meanwhile, put, rd, w, others>>
OwnerReads == ReadStep /\ UNCHANGED <<editVars, put, w, others>>
OwnerWrites == WriterStep /\ UNCHANGED <<editVars, others>>
OthersDo == ByOthers /\ others' \in {others, others + 1} /\ UNCHANGED <<editVars, rd, w>>

(* What the others do to the file shows.                                    *)
LEMMA OthersShow ==
    ASSUME FileTypes, PutInv, OthersInv, ByOthers
    PROVE  meanwhile' # {}
  <1>1. CASE ByProgram
    BY <1>1 DEF ByProgram, Replaced
  <1>2. ASSUME NEW t \in Threads \ {Owner}, ByThread(t) PROVE meanwhile' # {}
    <2>1. CASE Opens(t)
      BY <1>2, <2>1 DEF Opens, PutOpen, Note
    <2>2. CASE ~Opens(t)
      <3>1. put[t].pc # "idle"
        BY <1>2, <2>2 DEF ByThread, PutStep, PutSome, PutFails, PutWritten, PutClose, PutDone
      <3>2. meanwhile # {}
        BY <3>1 DEF OthersInv
      <3>3. meanwhile \subseteq meanwhile'
        BY <1>2, Remembered DEF FileStep
      <3> QED
        BY <3>2, <3>3
    <2> QED
      BY <2>1, <2>2
  <1> QED
    BY <1>1, <1>2 DEF ByOthers

(* Every step is of the owner's edit, read or Writer, or of somebody else.   *)
LEMMA NextKinds ==
    ASSUME Next, SharingAssumption
    PROVE  OwnerEdits \/ OwnerReads \/ OwnerWrites \/ OthersDo
  <1>1. CASE OwnerStep
    BY <1>1 DEF OwnerStep, OwnerEdits, OwnerReads, OwnerWrites
  <1>2. Other \in Threads \ {Owner}
    BY DEF SharingAssumption
  <1>3. CASE OtherBegins
    <2>1. PICK append \in BOOLEAN, data \in OtherData : PutOpen(Other, append, data)
      BY <1>3 DEF OtherBegins
    <2>2. data \in Seq(Byte)
      BY DEF SharingAssumption
    <2>3. ByThread(Other)
      BY <2>1, <2>2 DEF ByThread, Opens
    <2> QED
      BY <1>2, <1>3, <2>3 DEF OtherBegins, OthersDo, ByOthers
  <1>4. CASE OtherStep
    BY <1>2, <1>4 DEF OtherStep, OthersDo, ByOthers, ByThread
  <1>5. CASE OtherReplaces
    <2>1. \E f \in Seq(Byte) : Replaced(f)
      BY <1>5 DEF OtherReplaces, SharingAssumption
    <2> QED
      BY <1>5, <2>1 DEF OtherReplaces, OthersDo, ByOthers, ByProgram
  <1> QED
    BY <1>1, <1>3, <1>4, <1>5 DEF Next

(* A step of an edit, as the files, the read and the Writer see it.          *)
LEMMA EditsInFiles ==
    ASSUME IInv, OwnerEdits
    PROVE  FileStep /\ ed.pc # "idle" /\ rd.pc = "idle" /\ w.pc = "none" /\ put[Owner].pc = "idle"
  <1>1. ed.pc # "idle"
    BY DEF OwnerEdits, EditStep, At, Ask, Open, Size, SearchBlock, SearchEnds, SearchFails, LastSize,
       PeekOpen, PeekRead, RewriteOpen, OpenMissing, CheckRange, CreateTemp, CopyHead,
       HeadCutShort, PutText, SeekTail, CopyTail, TailDone, CloseBoth, Rename, CallFails
  <1>2. rd.pc = "idle" /\ w.pc = "none" /\ put[Owner].pc = "idle"
    BY <1>1 DEF IInv, Modes, WriterInv, Committing
  <1>3. UNCHANGED <<meanwhile, put>>
    BY DEF OwnerEdits
  <1>4. CASE Rename
    <2>1. temp \in Seq(Byte)
      BY <1>4 DEF IInv, EditTypes, Rewriting, Rename, At
    <2>2. ByEdit
      BY <1>2, <1>3, <1>4, <2>1 DEF ByEdit, Rename
    <2> QED
      BY <1>1, <1>2, <2>2 DEF FileStep
  <1>5. CASE ~Rename
    <2>1. UNCHANGED versions
      BY <1>5 DEF OwnerEdits, EditStep, Ask, Open, Size, SearchBlock, SearchEnds, SearchFails, LastSize,
         PeekOpen, PeekRead, RewriteOpen, OpenMissing, CheckRange, CreateTemp, CopyHead,
         HeadCutShort, PutText, SeekTail, CopyTail, TailDone, CloseBoth, CallFails
    <2>2. Elsewhere
      BY <1>3, <2>1 DEF Elsewhere, fileVars
    <2> QED
      BY <1>1, <1>2, <2>2 DEF FileStep
  <1> QED
    BY <1>4, <1>5

(* A step of a read changes nothing but the read.                            *)
LEMMA ReadsInFiles ==
    ASSUME IInv, OwnerReads
    PROVE  Elsewhere /\ rd.pc # "idle" /\ rd'.pc # "idle" /\ ed.pc = "idle"
           /\ w.pc \in {"none", "reading"}
  <1>1. UNCHANGED <<fileVars, put>> /\ rd.pc # "idle"
    BY DEF OwnerReads, ReadStep, ReadOpen, ReadMissing, ReadStat, ReadSize, Sized, ReadSome,
       ReadDone, ReadShort, HashSome, HashDone, View, ReadCallFails, RAt
  <1>2. ReadTypes'
    BY ReadStepTypes DEF IInv, OwnerReads
  <1>3. DOMAIN rd = {"pc", "req", "hasher", "fd", "size", "want", "got", "answer", "seen",
                     "failed", "missing"}
    BY <1>1, ReadKnown DEF IInv
  <1>4. DOMAIN rd' = DOMAIN rd
    BY <1>1 DEF OwnerReads, ReadStep, ReadOpen, ReadMissing, ReadStat, StatAnswers, ReadSize, Sized, ReadSome,
       ReadDone, ReadShort, HashSome, HashDone, View, ReadCallFails, RReturn
  <1>5. rd' # [pc |-> "idle"]
    BY <1>3, <1>4
  <1>6. rd'.pc # "idle"
    BY <1>2, <1>5 DEF ReadTypes
  <1> QED
    BY <1>1, <1>6 DEF Elsewhere, IInv, Modes

(* A step of somebody else is noted, and leaves the owner's call alone.      *)
LEMMA OthersInFiles ==
    ASSUME IInv, OthersDo
    PROVE  /\ FileStep /\ ~Opened(Owner) /\ Same(Owner) /\ Waits(Owner) /\ meanwhile' # {}
           /\ Present <= 1 => Len(versions') <= 1 \/ "replaced" \in meanwhile'
  <1>1. FileTypes /\ PutInv /\ OthersInv /\ ByOthers /\ Owner \in Threads
    BY DirectWriteAssumption DEF IInv, OthersDo
  <1>2. Same(Owner) /\ Waits(Owner)
    BY <1>1, Bystander DEF ByOthers
  <1>3. ~Opened(Owner)
    <2>1. ASSUME NEW append, NEW data, PutOpen(Owner, append, data) PROVE FALSE
      <3>1. put'[Owner].pc = "write" /\ put[Owner].pc = "idle"
        BY <1>1, <2>1 DEF PutOpen, NoPut
      <3> QED
        BY <1>2, <3>1 DEF Waits
    <2> QED
      BY <2>1 DEF Opened
  <1>4. FileStep /\ meanwhile' # {}
    BY <1>1, OthersShow DEF FileStep, ByOthers
  <1>5. ASSUME Present <= 1, NEW t \in Threads, ByThread(t) PROVE Len(versions') <= 1
    <2>1. ASSUME UNCHANGED versions PROVE Len(versions') <= 1
      BY <1>5, <2>1 DEF Present
    <2>2. ASSUME NEW append, NEW data, PutOpen(t, append, data) PROVE Len(versions') <= 1
      <3>1. versions' = IF append THEN KeptOrNew ELSE TruncatedOrNew
        BY <2>2 DEF PutOpen
      <3>2. Len(KeptOrNew) <= 1 /\ Len(TruncatedOrNew) <= 1
        <4>1. CASE Exists
          BY <1>1, <1>5, <4>1, OpenedFiles
        <4>2. CASE ~Exists
          BY <4>2 DEF KeptOrNew, TruncatedOrNew
        <4> QED
          BY <4>1, <4>2
      <3> QED
        BY <3>1, <3>2
    <2>3. ASSUME PutSome(t) PROVE Len(versions') <= 1
      <3>1. Len(versions') = Present
        BY <1>1, <2>3, SomeBytes
      <3> QED
        BY <1>5, <3>1
    <2> QED
      BY <1>5, <2>1, <2>2, <2>3 DEF ByThread, Opens, PutOpenFails, PutStep, PutFails, PutWritten,
         PutClose, PutReturns, fileVars
  <1>6. ByProgram => "replaced" \in meanwhile'
    BY DEF ByProgram, Replaced
  <1> QED
    BY <1>1, <1>2, <1>3, <1>4, <1>5, <1>6 DEF ByOthers

(* ----------------------------- the Writer -------------------------------- *)

(* A splice of bytes is a file of bytes.                                     *)
LEMMA SpliceType ==
    ASSUME NEW f \in Seq(Byte), NEW text \in Seq(Byte), NEW start \in 0 .. Len(f),
           NEW end \in 0 .. Len(f)
    PROVE  Splice(f, start, end, text) \in Seq(Byte)
  <1>1. SubSeq(f, 1, start) \in Seq(Byte)
    BY SubSeqType
  <1>2. SubSeq(f, end + 1, Len(f)) \in Seq(Byte)
    BY SubSeqType
  <1>3. SubSeq(f, 1, start) \o text \in Seq(Byte)
    BY <1>1, ConcatProperties
  <1> QED
    BY <1>2, <1>3, ConcatProperties DEF Splice

(* A step on the buffer leaves a Writer that holds bytes, and what insert   *)
(* has read as it was.                                                      *)
Keeps ==
    /\ w.pc = "live" /\ w' \in WriterStates /\ w'.pc \in {"live", "gone"}
    /\ w'.pc = "live" /\ w'.fresh /\ ~w'.blind /\ ~w'.poisoned =>
          w.fresh /\ ~w.blind /\ ~w.poisoned /\ w'.read = w.read
    /\ w'.pc = "gone" /\ w'.autoCommit => w'.buffer = <<>> \/ w'.reported

(* A call that changes the buffer leaves the rest of the Writer.             *)
LEMMA NewBuffer ==
    ASSUME w \in WriterStates, w.pc = "live", NEW b \in Seq(Byte), With([w EXCEPT !.buffer = b])
    PROVE  Keeps
  <1>1. w.ops + 1 \in Nat
    BY DEF WriterStates
  <1>2. w' = [w EXCEPT !.buffer = b, !.ops = w.ops + 1]
    BY DEF With, WriterStates
  <1> QED
    BY <1>1, <1>2 DEF Keeps, WriterStates

(* A call that changes nothing keeps the Writer.                             *)
LEMMA SameWriter ==
    ASSUME w \in WriterStates, w.pc = "live", With(w)
    PROVE  Keeps
  <1>1. w.ops + 1 \in Nat
    BY DEF WriterStates
  <1>2. w' = [w EXCEPT !.ops = w.ops + 1]
    BY DEF With
  <1> QED
    BY <1>1, <1>2 DEF Keeps, WriterStates

(* findLineStart answers an offset of the buffer.                            *)
LEMMA LineStarts ==
    ASSUME w \in WriterStates, NEW n \in Int, NEW offset \in FindLineStart(n)
    PROVE  offset \in 0 .. Len(w.buffer)
  <1>1. w.buffer \in Seq(Byte)
    BY DEF WriterStates
  <1>2. NthNewline(w.buffer, n - 1) \subseteq 1 .. Len(w.buffer)
    BY <1>1, NewlineCount
  <1>3. Len(w.buffer) \in Nat
    BY <1>1
  <1> QED
    BY <1>2, <1>3 DEF FindLineStart

(* An insertion at an offset of the buffer keeps it a buffer.                *)
LEMMA InsertedAt ==
    ASSUME w \in WriterStates, w.pc = "live", NEW text \in Seq(Byte),
           NEW offset \in 0 .. Len(w.buffer), With(Inserted(offset, text))
    PROVE  Keeps
  <1>1. Splice(w.buffer, offset, offset, text) \in Seq(Byte)
    BY SpliceType DEF WriterStates
  <1>2. With([w EXCEPT !.buffer = Splice(w.buffer, offset, offset, text)])
    BY DEF Inserted
  <1> QED
    BY <1>1, <1>2, NewBuffer

(* The texts of the calls are bytes.                                         *)
LEMMA TextBytes == SharingAssumption => Texts \subseteq Seq(Byte)
  BY DEF SharingAssumption

(* The insertions keep the Writer in a state of the type.                    *)
LEMMA InsertKeeps ==
    ASSUME w \in WriterStates, w.pc = "live", NEW e \in Insertions, Insert(e)
    PROVE  Keeps
  <1>1. e.first \in 0 .. SizeMax /\ e.text \in Seq(Byte)
    BY WriterAssumption, SharingAssumption, TextBytes DEF Insertions
  <1> DEFINE n == e.first
             text == e.text
  <1>2. n \in Nat /\ Succ(n) \in Int /\ Len(w.buffer) \in 0 .. Len(w.buffer)
    <2>1. n \in Nat /\ SizeMax \in Nat
      BY <1>1, SizeMaxAssumption
    <2>2. Len(w.buffer) \in Nat
      BY DEF WriterStates
    <2> QED
      BY <2>1, <2>2 DEF Succ
  <1> HIDE DEF n, text
  <1>3. ASSUME InsertAtPosition(n, text) PROVE Keeps
    <2>1. CASE n > Len(w.buffer)
      BY <1>3, <2>1, SameWriter DEF InsertAtPosition
    <2>2. CASE ~(n > Len(w.buffer))
      <3>1. n \in 0 .. Len(w.buffer)
        BY <1>2, <2>2
      <3> QED
        BY <1>1, <1>3, <2>2, <3>1, InsertedAt DEF InsertAtPosition, text
    <2> QED
      BY <2>1, <2>2
  <1>4. ASSUME InsertBeforeLine(n, text) PROVE Keeps
    <2>1. ASSUME NEW offset \in FindLineStart(n), With(Inserted(offset, text)) PROVE Keeps
      <3>1. offset \in 0 .. Len(w.buffer)
        BY <1>2, <2>1, LineStarts
      <3> QED
        BY <1>1, <2>1, <3>1, InsertedAt DEF text
    <2> QED
      BY <1>4, <2>1, SameWriter DEF InsertBeforeLine
  <1>5. ASSUME InsertAfterLine(n, text) PROVE Keeps
    <2>1. ASSUME NEW offset \in FindLineStart(Succ(n)), With(Inserted(offset, text)) PROVE Keeps
      <3>1. offset \in 0 .. Len(w.buffer)
        BY <1>2, <2>1, LineStarts
      <3> QED
        BY <1>1, <2>1, <3>1, InsertedAt DEF text
    <2>2. ASSUME With(Inserted(Len(w.buffer), text)) PROVE Keeps
      BY <1>1, <1>2, <2>2, InsertedAt DEF text
    <2> QED
      BY <1>5, <2>1, <2>2, SameWriter DEF InsertAfterLine
  <1> QED
    BY <1>3, <1>4, <1>5 DEF Insert, n, text

(* So do all calls on the buffer.                                            *)
LEMMA BufferKeeps ==
    ASSUME w \in WriterStates, BufferStep
    PROVE  Keeps
  <1>1. w.pc = "live" /\ w.buffer \in Seq(Byte)
    BY DEF BufferStep, Write, InsertSome, Clear, SetAutoCommit, MoveAssign, Live, WriterStates
  <1>2. <<>> \in Seq(Byte) /\ <<Nl>> \in Seq(Byte)
    <2>1. Nl \in Byte
      BY DEF Byte
    <2> QED
      BY <2>1, EmptySeq
  <1>3. CASE Write
    <2>1. PICK text \in Texts, newline \in {<<>>, <<Nl>>} :
             With([w EXCEPT !.buffer = @ \o text \o newline])
      BY <1>3 DEF Write
    <2>2. text \in Seq(Byte) /\ newline \in Seq(Byte)
      BY <1>2, <2>1, SharingAssumption, TextBytes
    <2>3. w.buffer \o text \in Seq(Byte)
      BY <1>1, <2>2, ConcatProperties
    <2>4. (w.buffer \o text) \o newline \in Seq(Byte)
      BY <2>2, <2>3, ConcatProperties
    <2> QED
      BY <1>1, <2>1, <2>4, NewBuffer
  <1>4. CASE InsertSome
    BY <1>1, <1>4, InsertKeeps DEF InsertSome
  <1>5. CASE Clear
    BY <1>1, <1>2, <1>5, NewBuffer DEF Clear
  <1>6. CASE SetAutoCommit
    <2>1. PICK on \in BOOLEAN : With([w EXCEPT !.autoCommit = on])
      BY <1>6 DEF SetAutoCommit
    <2>2. w.ops + 1 \in Nat
      BY DEF WriterStates
    <2>3. w' = [w EXCEPT !.autoCommit = on, !.ops = w.ops + 1]
      BY <2>1 DEF With, WriterStates
    <2> QED
      BY <1>1, <2>2, <2>3 DEF Keeps, WriterStates
  <1>7. CASE MoveAssign
    <2>1. PICK append \in BOOLEAN, on \in BOOLEAN :
             With([NewWriter(append) EXCEPT !.autoCommit = on, !.ops = w.ops])
      BY <1>7 DEF MoveAssign
    <2>2. w.ops + 1 \in Nat
      BY DEF WriterStates
    <2>3. w' = [NewWriter(append) EXCEPT !.autoCommit = on, !.ops = w.ops + 1]
      BY <2>1 DEF With, NewWriter
    <2>4. w'.pc = "live" /\ ~w'.fresh /\ w' \in WriterStates
      BY <1>2, <2>2, <2>3 DEF NewWriter, WriterStates
    <2> QED
      BY <1>1, <2>4 DEF Keeps
  <1> QED
    BY <1>3, <1>4, <1>5, <1>6, <1>7 DEF BufferStep

(* A Writer that exists is in a state of the type.                           *)
LEMMA WriterKnown ==
    ASSUME WriterInv, w.pc # "none"
    PROVE  w \in WriterStates
  BY DEF WriterInv

(* A call on the buffer keeps the Writer's invariant.                        *)
LEMMA QuietWriter ==
    ASSUME IInv, Keeps, Elsewhere
    PROVE  WriterInv'
  <1>1. UNCHANGED <<versions, meanwhile, put>>
    BY DEF Elsewhere, fileVars
  <1>2. put[Owner].pc = "idle"
    BY DEF Keeps, IInv, WriterInv, Committing
  <1>3. ~Committing' /\ w'.pc # "reading"
    BY DEF Keeps, Committing
  <1>4. w'.pc = "live" /\ w'.fresh /\ ~w'.blind /\ ~w'.poisoned /\ meanwhile = {} => w'.read = Content
    BY DEF Keeps, IInv, WriterInv
  <1>5. Content' = Content
    BY <1>1 DEF Content, Exists, Present
  <1>6. w' \in WriterStates /\ (w'.pc = "gone" /\ w'.autoCommit => w'.buffer = <<>> \/ w'.reported)
    BY DEF Keeps
  <1> QED
    BY <1>1, <1>2, <1>3, <1>4, <1>5, <1>6 DEF WriterInv

(* A commit opens the file and keeps the Writer's invariant.                 *)
LEMMA CommitInv ==
    ASSUME IInv, w.pc = "live", ~w.poisoned, NEW point \in {"committing", "destroying"},
           Commit(point)
    PROVE  Opens(Owner) /\ WriterInv' /\ w'.pc = point
  <1>1. w \in WriterStates /\ put \in [Threads -> Puts] /\ Owner \in Threads
    BY WriterKnown, DirectWriteAssumption DEF IInv, PutInv
  <1>2. w.append \in BOOLEAN /\ w.buffer \in Seq(Byte) /\ w.ops + 1 \in Nat
    BY <1>1 DEF WriterStates
  <1>3. Opens(Owner)
    BY <1>2 DEF Opens, Commit
  <1>4. w' = [w EXCEPT !.pc = point, !.ops = w.ops + 1]
    BY DEF Commit
  <1>5. /\ w' \in WriterStates /\ w'.pc = point /\ w'.buffer = w.buffer /\ w'.append = w.append
        /\ w'.poisoned = w.poisoned /\ w'.fresh = w.fresh /\ w'.blind = w.blind /\ w'.read = w.read
    BY <1>1, <1>2, <1>4 DEF WriterStates
  <1>6. /\ put'[Owner].pc \in {"write", "returned"} /\ put'[Owner].data = w.buffer
        /\ put'[Owner].append = w.append /\ put'[Owner].base = Content
        /\ meanwhile' = meanwhile
    <2>1. ASSUME PutOpen(Owner, w.append, w.buffer)
          PROVE  /\ put'[Owner].pc = "write" /\ put'[Owner].data = w.buffer
                 /\ put'[Owner].append = w.append /\ put'[Owner].base = Content
                 /\ meanwhile' = meanwhile
      BY <1>1, <2>1 DEF PutOpen, NoPut, Note
    <2>2. ASSUME PutOpenFails(Owner, w.append, w.buffer)
          PROVE  /\ put'[Owner].pc = "returned" /\ put'[Owner].data = w.buffer
                 /\ put'[Owner].append = w.append /\ put'[Owner].base = Content
                 /\ meanwhile' = meanwhile
      BY <1>1, <2>2 DEF PutOpenFails, NoPut, fileVars
    <2> QED
      BY <2>1, <2>2 DEF Commit
  <1>7. w.fresh /\ ~w.blind /\ meanwhile = {} => w.read = Content
    BY DEF IInv, WriterInv
  <1>8. Committing' /\ w'.pc # "reading" /\ w'.pc # "gone" /\ w'.pc # "live"
    BY <1>5 DEF Committing
  <1>9. WriterInv'
    BY <1>5, <1>6, <1>7, <1>8 DEF WriterInv
  <1> QED
    BY <1>3, <1>5, <1>9

(* A commit that returns keeps it.                                           *)
LEMMA ReturnsInv ==
    ASSUME IInv, CommitReturns
    PROVE  WriterInv'
  <1>1. w \in WriterStates /\ put \in [Threads -> Puts] /\ Owner \in Threads /\ <<>> \in Seq(Byte)
    BY WriterKnown, DirectWriteAssumption, EmptySeq DEF IInv, PutInv, CommitReturns
  <1>2. put'[Owner].pc = "idle"
    BY <1>1 DEF CommitReturns, PutDone, NoPut
  <1> DEFINE pc == IF w.pc = "committing" THEN "live" ELSE "gone"
             buffer == IF put[Owner].ok THEN <<>> ELSE w.buffer
             reported == w.pc = "destroying" /\ ~put[Owner].ok
  <1>3. pc \in {"live", "gone"} /\ buffer \in Seq(Byte) /\ reported \in BOOLEAN
    BY <1>1 DEF WriterStates
  <1>4. w' = [w EXCEPT !.pc = pc, !.buffer = buffer, !.fresh = FALSE, !.read = <<>>,
                       !.blind = FALSE, !.reported = reported]
    BY <1>1 DEF CommitReturns, WriterStates
  <1>5. pc = "gone" => buffer = <<>> \/ reported
    BY DEF CommitReturns
  <1> HIDE DEF pc, buffer, reported
  <1>6. /\ w' \in WriterStates /\ w'.pc = pc /\ w'.buffer = buffer /\ ~w'.fresh
        /\ w'.reported = reported
    BY <1>1, <1>3, <1>4 DEF WriterStates
  <1>7. ~Committing' /\ w'.pc # "reading"
    BY <1>3, <1>6 DEF Committing
  <1> QED
    BY <1>2, <1>5, <1>6, <1>7 DEF WriterInv

(* A read into a new Writer keeps it.                                        *)
LEMMA InsertReadInv ==
    ASSUME IInv, InsertRead, Elsewhere
    PROVE  WriterInv' /\ w'.pc = "live" /\ rd' = [pc |-> "idle"]
  <1>1. /\ w.pc = "reading" /\ w = [NewWriter(FALSE) EXCEPT !.pc = "reading", !.fresh = TRUE]
        /\ put[Owner].pc = "idle" /\ w \in WriterStates
    BY WriterKnown DEF IInv, InsertRead, Answered, WriterInv, Committing
  <1>2. /\ rd.pc = "done" /\ rd' = [pc |-> "idle"]
        /\ rd.answer.is = "ok" =>
              rd.answer.value \in Seq(Byte) /\ (meanwhile = {} => rd.answer.value = Content)
    BY <1>1 DEF IInv, InsertInv, InsertRead, Answered, Refused
  <1>3. UNCHANGED <<versions, meanwhile, put>> /\ Content' = Content
    BY DEF Elsewhere, fileVars, Content, Exists, Present
  <1>4. w.read = <<>>
    BY <1>1 DEF NewWriter
  <1>5. /\ w' \in WriterStates /\ w'.pc = "live"
        /\ ~w'.blind /\ ~w'.poisoned /\ meanwhile = {} => w'.read = Content
    <2>1. CASE rd.answer.is = "ok" /\ w' = Filled
      <3>1. w' = [w EXCEPT !.pc = "live", !.buffer = rd.answer.value, !.read = rd.answer.value]
        BY <2>1 DEF Filled
      <3> QED
        BY <1>1, <1>2, <2>1, <3>1 DEF WriterStates
    <2>2. CASE w' = [w EXCEPT !.pc = "live", !.poisoned = Exists]
      <3>1. Exists \in BOOLEAN
        BY DEF Exists
      <3>2. /\ w' \in WriterStates /\ w'.pc = "live" /\ w'.poisoned = Exists /\ w'.read = <<>>
        BY ZenonT(60), <1>1, <1>4, <2>2, <3>1 DEF WriterStates
      <3>3. ~Exists => Content = <<>>
        BY DEF Content
      <3> QED
        BY <3>2, <3>3
    <2>3. CASE w' = [w EXCEPT !.pc = "live", !.blind = TRUE]
      BY ZenonT(60), <1>1, <2>3 DEF WriterStates
    <2> QED
      BY <2>1, <2>2, <2>3 DEF InsertRead
  <1>6. ~Committing'
    BY <1>5 DEF Committing
  <1>7. WriterInv'
    BY <1>1, <1>3, <1>5, <1>6 DEF WriterInv
  <1> QED
    BY <1>2, <1>5, <1>7

(* A write of a commit keeps it.                                             *)
LEMMA WritesOn ==
    ASSUME IInv, PutStep(Owner), UNCHANGED w
    PROVE  WriterInv' /\ Committing
  <1>1. FileTypes /\ PutInv /\ Owner \in Threads
    BY DirectWriteAssumption DEF IInv
  <1>2. /\ Same(Owner) /\ put[Owner].pc # "idle" /\ put'[Owner].pc # "idle"
        /\ put'[Owner].pc = "write" => put[Owner].pc = "write"
    BY <1>1, OwnStep
  <1>3. Committing
    BY <1>2 DEF IInv, WriterInv
  <1>4. meanwhile \subseteq meanwhile'
    BY <1>1, Remembered DEF FileStep, ByThread
  <1>5. w.pc # "reading" /\ w.pc # "live" /\ w.pc # "gone" /\ Committing'
    BY <1>3 DEF Committing
  <1>6. WriterInv
    BY DEF IInv
  <1> QED
    BY <1>2, <1>3, <1>4, <1>5, <1>6 DEF WriterInv, Same

(* A step of a Writer, as the files and the read see it.                     *)
LEMMA WritesInFiles ==
    ASSUME IInv, OwnerWrites
    PROVE  /\ FileStep /\ WriterInv' /\ ed.pc = "idle" /\ w'.pc \notin {"reading", "none"}
           /\ rd' = [pc |-> "idle"] \/ (rd.pc = "idle" /\ UNCHANGED rd)
  <1>1. Owner \in Threads
    BY DirectWriteAssumption
  <1>2. w.pc # "none" => ed.pc = "idle"
    BY DEF IInv, Modes
  <1>3. w.pc \notin {"none", "reading"} => rd.pc = "idle"
    BY DEF IInv, Modes
  <1>4. CASE InsertRead /\ UNCHANGED <<fileVars, put>>
    <2>1. Elsewhere /\ w.pc = "reading"
      BY <1>4 DEF Elsewhere, InsertRead, Answered
    <2> QED
      BY <1>2, <1>4, <2>1, InsertReadInv DEF FileStep
  <1>5. ASSUME Keeps, UNCHANGED <<fileVars, put, rd>>
        PROVE  FileStep /\ WriterInv' /\ ed.pc = "idle" /\ w'.pc \notin {"reading", "none"}
               /\ rd.pc = "idle" /\ UNCHANGED rd
    <2>1. Elsewhere /\ w.pc = "live" /\ w'.pc \in {"live", "gone"}
      BY <1>5 DEF Elsewhere, Keeps
    <2> QED
      BY <1>2, <1>3, <1>5, <2>1, QuietWriter DEF FileStep
  <1>6. ASSUME w.pc = "live", ~w.poisoned, NEW point \in {"committing", "destroying"},
               Commit(point), UNCHANGED rd
        PROVE  FileStep /\ WriterInv' /\ ed.pc = "idle" /\ w'.pc \notin {"reading", "none"}
               /\ rd.pc = "idle" /\ UNCHANGED rd
    <2>1. Opens(Owner) /\ WriterInv' /\ w'.pc = point
      BY <1>6, CommitInv
    <2> QED
      BY <1>1, <1>2, <1>3, <1>6, <2>1 DEF FileStep, ByThread
  <1>7. CASE BufferStep /\ UNCHANGED <<fileVars, put, rd>>
    <2>1. w.pc = "live"
      BY <1>7 DEF BufferStep, Write, InsertSome, Clear, SetAutoCommit, MoveAssign, Live
    <2>2. w \in WriterStates
      BY <2>1, WriterKnown DEF IInv
    <2> QED
      BY <1>5, <1>7, <2>2, BufferKeeps
  <1>8. CASE CommitCalled /\ UNCHANGED rd
    BY <1>6, <1>8 DEF CommitCalled, Live
  <1>9. CASE CommitRefused /\ UNCHANGED rd
    <2>1. w.pc = "live" /\ With(w) /\ UNCHANGED <<fileVars, put>>
      BY <1>9 DEF CommitRefused, Live
    <2>2. w \in WriterStates
      BY <2>1, WriterKnown DEF IInv
    <2> QED
      BY <1>5, <1>9, <2>1, <2>2, SameWriter
  <1>10. CASE CommitReturns /\ UNCHANGED rd
    <2>1. PutDone(Owner) /\ UNCHANGED fileVars /\ w.pc \in {"committing", "destroying"}
      BY <1>10 DEF CommitReturns
    <2>2. w'.pc \in {"live", "gone"}
      <3>1. w \in WriterStates
        BY <2>1, WriterKnown DEF IInv
      <3>2. w' = [w EXCEPT !.pc = IF w.pc = "committing" THEN "live" ELSE "gone",
                           !.buffer = IF put[Owner].ok THEN <<>> ELSE w.buffer,
                           !.fresh = FALSE, !.read = <<>>, !.blind = FALSE,
                           !.reported = w.pc = "destroying" /\ ~put[Owner].ok]
        BY <1>10, <3>1 DEF CommitReturns, WriterStates
      <3> QED
        BY <3>1, <3>2 DEF WriterStates
    <2> QED
      BY <1>1, <1>2, <1>3, <1>10, <2>1, <2>2, ReturnsInv DEF FileStep, ByThread
  <1>11. CASE Destroy /\ UNCHANGED rd
    <2>1. w.pc = "live" /\ w \in WriterStates
      BY <1>11, WriterKnown DEF Destroy, IInv
    <2>2. CASE MustCommit /\ ~w.poisoned /\ Commit("destroying")
      BY <1>6, <1>11, <2>1, <2>2
    <2>3. ASSUME w' = [w EXCEPT !.pc = "gone", !.reported = TRUE] PROVE Keeps
      BY <2>1, <2>3 DEF Keeps, WriterStates
    <2>4. ASSUME ~MustCommit, w' = [w EXCEPT !.pc = "gone"] PROVE Keeps
      BY <2>1, <2>4 DEF Keeps, WriterStates, MustCommit
    <2> QED
      BY <1>5, <1>11, <2>2, <2>3, <2>4 DEF Destroy
  <1>12. CASE PutStep(Owner) /\ UNCHANGED <<w, rd>>
    <2>1. WriterInv' /\ Committing
      BY <1>12, WritesOn
    <2>2. w.pc \notin {"none", "reading"} /\ w'.pc \notin {"reading", "none"}
      BY <1>12, <2>1 DEF Committing
    <2> QED
      BY <1>1, <1>2, <1>3, <1>12, <2>1, <2>2 DEF FileStep, ByThread
  <1>13. \/ InsertRead /\ UNCHANGED <<fileVars, put>>
         \/ BufferStep /\ UNCHANGED <<fileVars, put, rd>>
         \/ (CommitCalled \/ CommitRefused \/ CommitReturns \/ Destroy) /\ UNCHANGED rd
         \/ PutStep(Owner) /\ UNCHANGED <<w, rd>>
    BY DEF OwnerWrites, WriterStep
  <1> QED
    BY <1>4, <1>7, <1>8, <1>9, <1>10, <1>11, <1>12, <1>13

(* --------------------------- the invariant ------------------------------- *)

(* The invariant holds at first.                                             *)
LEMMA InitIInv == Init => IInv
  <1> SUFFICES ASSUME Init PROVE IInv
    OBVIOUS
  <1>1. <<>> \in Seq(Byte) /\ <<>> \in Seq(Seq(Byte)) /\ Owner \in Threads
    BY EmptySeq, DirectWriteAssumption
  <1>2. FileTypes /\ others = 0 /\ meanwhile = {} /\ Present <= 1
    <2>1. \/ versions = <<>>
          \/ \E f \in Initials \cup TinyInitials : versions = <<f>>
      BY DEF Init
    <2>2. \A f \in Initials \cup TinyInitials : f \in Seq(Byte)
      BY SharingAssumption DEF SharingAssumption
    <2>3. ASSUME NEW f \in Seq(Byte), versions = <<f>>
          PROVE  versions \in Seq(Seq(Byte)) /\ Len(versions) <= 1
      BY <2>3
    <2>4. ASSUME versions = <<>>
          PROVE  versions \in Seq(Seq(Byte)) /\ Len(versions) <= 1
      BY <1>1, <2>4
    <2>5. versions \in Seq(Seq(Byte)) /\ Len(versions) <= 1
      BY <2>1, <2>2, <2>3, <2>4
    <2>6. others = 0 /\ meanwhile = {}
      BY DEF Init
    <2> QED
      BY <2>5, <2>6 DEF FileTypes, Present
  <1>3. /\ PutInv /\ OthersInv /\ OwnerWrote /\ IntactInv /\ AppendsKept /\ put[Owner].pc = "idle"
        /\ \A t \in Threads : put[t].pc = "idle"
    <2>1. put \in [Threads -> Puts] /\ \A t \in Threads : put[t] = NoPut
      BY NoPutType DEF Init, PutIdle
    <2>2. \A t \in Threads : /\ put[t].pc = "idle" /\ put[t].written = 0 /\ put[t].data = <<>>
      BY <2>1 DEF NoPut
    <2>3. PutInv
      BY <2>1, <2>2 DEF PutInv, Putting, AllWritten
    <2> QED
      BY <1>1, <2>2, <2>3 DEF OthersInv, OwnerWrote, IntactInv, AppendsKept, Putting, AllWritten
  <1>4. ASSUME NEW c \in EditCalls, EditBegins(c) PROVE EditTypes /\ EditInv
    <2>1. c \in EditRequests
      BY SharingAssumption DEF SharingAssumption
    <2>2. c.text \in Seq(Byte)
      BY <2>1 DEF EditRequests
    <2>3. ed \in EditStates /\ ed.pc = "ask"
      BY <1>4, <2>1, <2>2 DEF EditBegins, EditStates
    <2>4. temp = NoFile
      BY <1>4 DEF EditBegins
    <2> QED
      BY <1>2, <2>3, <2>4 DEF EditTypes, EditInv, HasFile, Rewriting
  <1>5. ASSUME EditIdle PROVE EditTypes /\ EditInv /\ ed.pc = "idle"
    <2>1. ed.pc = "idle" /\ ed = [pc |-> "idle"] /\ temp = NoFile
      BY <1>5 DEF EditIdle
    <2> QED
      BY <2>1 DEF EditTypes, EditInv, HasFile, Rewriting
  <1>6. ASSUME NEW c \in ReadRequests, ReadBegins(c)
        PROVE  ReadTypes /\ rd.pc \in {"stat", "open"} /\ (c.api = "readall" => rd.pc = "open")
               /\ rd.req = c
    <2>1. rd.pc \in {"stat", "open"} /\ rd.req = c /\ rd.size = 0 /\ rd.want = 0 /\ rd.got = <<>>
      BY <1>6 DEF ReadBegins, ReadStart
    <2>2. rd = [pc |-> rd.pc, req |-> rd.req, hasher |-> rd.hasher, fd |-> rd.fd,
                size |-> rd.size, want |-> rd.want, got |-> rd.got, answer |-> rd.answer,
                seen |-> rd.seen, failed |-> rd.failed, missing |-> rd.missing]
      BY <1>6 DEF ReadBegins, ReadStart
    <2>3. c.api = "readall" => rd.pc = "open"
      BY <1>6 DEF ReadBegins, ReadStart
    <2> QED
      BY <1>1, <1>6, <2>1, <2>2, <2>3 DEF ReadTypes
  <1>7. ASSUME ReadIdle PROVE ReadTypes /\ rd.pc = "idle"
    BY <1>7 DEF ReadIdle, ReadTypes
  <1>8. ASSUME WriterIdle PROVE WriterInv /\ w.pc = "none"
    <2>1. w.pc = "none"
      BY <1>8 DEF WriterIdle
    <2> QED
      BY <1>3, <1>8, <2>1 DEF WriterIdle, WriterInv, Committing
  <1>9. ASSUME NEW append \in BOOLEAN, WriterBegins(append) PROVE WriterInv /\ w.pc = "live"
    <2>1. w \in WriterStates /\ w.pc = "live" /\ ~w.fresh
      BY <1>1, <1>9 DEF WriterBegins, NewWriter, WriterStates
    <2> QED
      BY <1>3, <2>1 DEF WriterInv, Committing
  <1>10. ASSUME InsertBegins PROVE WriterInv /\ w.pc = "reading"
    <2>1. w \in WriterStates /\ w.pc = "reading"
      BY <1>1, <1>10 DEF InsertBegins, NewWriter, WriterStates
    <2> QED
      BY <1>3, <1>10, <2>1 DEF WriterInv, Committing, InsertBegins
  <1>11. CASE EditInit
    <2>1. EditTypes /\ EditInv /\ ReadTypes /\ WriterInv /\ rd.pc = "idle" /\ w.pc = "none"
      BY <1>4, <1>7, <1>8, <1>11 DEF EditInit
    <2>2. InsertInv /\ Modes
      BY <2>1 DEF InsertInv, Modes
    <2> QED
      BY <1>2, <1>3, <2>1, <2>2 DEF IInv
  <1>12. CASE ReadInit
    <2>1. PICK c \in ReadCalls : EditIdle /\ ReadBegins(c) /\ WriterIdle
      BY <1>12 DEF ReadInit
    <2>2. c \in ReadRequests
      BY SharingAssumption DEF SharingAssumption
    <2>3. EditTypes /\ EditInv /\ ReadTypes /\ WriterInv /\ ed.pc = "idle" /\ w.pc = "none"
      BY <1>5, <1>6, <1>8, <2>1, <2>2
    <2>4. InsertInv /\ Modes
      BY <2>3 DEF InsertInv, Modes
    <2> QED
      BY <1>2, <1>3, <2>3, <2>4 DEF IInv
  <1>13. CASE WriterInit
    <2>1. EditTypes /\ EditInv /\ ed.pc = "idle"
      BY <1>5, <1>13 DEF WriterInit
    <2>2. CASE ReadBegins([api |-> "readall"]) /\ InsertBegins
      <3>1. [api |-> "readall"] \in ReadRequests
        BY DEF ReadRequests, WholeApis
      <3>2. ReadTypes /\ rd.pc = "open" /\ rd.req.api = "readall"
        BY <1>6, <2>2, <3>1
      <3>3. WriterInv /\ w.pc = "reading"
        BY <1>10, <2>2
      <3>4. InsertInv /\ Modes
        BY <2>1, <3>2, <3>3 DEF InsertInv, Modes
      <3> QED
        BY <1>2, <1>3, <2>1, <3>2, <3>3, <3>4 DEF IInv
    <2>3. ASSUME NEW s \in Sessions, ReadIdle, WriterBegins(s = "append") PROVE IInv
      <3>1. ReadTypes /\ rd.pc = "idle"
        BY <1>7, <2>3
      <3>2. WriterInv /\ w.pc = "live"
        BY <1>9, <2>3
      <3>3. InsertInv /\ Modes
        BY <2>1, <3>1, <3>2 DEF InsertInv, Modes
      <3> QED
        BY <1>2, <1>3, <2>1, <3>1, <3>2, <3>3 DEF IInv
    <2> QED
      BY <1>13, <2>2, <2>3 DEF WriterInit
  <1> QED
    BY <1>11, <1>12, <1>13 DEF Init

(* The parts about the files hold after every step on them.                 *)
LEMMA FilesHold ==
    ASSUME IInv, FileStep
    PROVE  FileTypes' /\ PutInv' /\ OthersInv' /\ OwnerWrote' /\ IntactInv' /\ AppendsKept'
  <1>1. FileTypes /\ PutInv /\ OthersInv /\ OwnerWrote /\ IntactInv /\ AppendsKept
    BY DEF IInv
  <1>2. FileTypes' /\ PutInv'
    BY <1>1, FilesInv
  <1>3. OthersInv'
    BY <1>1, OthersStep
  <1>4. OwnerWrote'
    BY <1>1, OwnerWroteStep
  <1>5. IntactInv'
    BY <1>1, IntactStep
  <1>6. AppendsKept'
    BY <1>1, AppendsStep
  <1> QED
    BY <1>2, <1>3, <1>4, <1>5, <1>6

(* A read in progress keeps its descriptor, whatever becomes of the files.  *)
LEMMA ReadWaits ==
    ASSUME FileTypes, PutInv, ReadTypes, FileStep, UNCHANGED rd
    PROVE  ReadTypes'
  <1>1. Present \in Nat /\ Present <= Len(versions')
    <2>1. Present <= Len(versions')
      BY FileChanges
    <2> QED
      BY <2>1 DEF FileTypes, Present
  <1>2. Len(versions') \in Nat
    <2>1. FileTypes'
      BY FilesInv
    <2> QED
      BY <2>1 DEF FileTypes
  <1>3. rd.fd \in 1 .. Present => rd.fd \in 1 .. Len(versions')
    BY <1>1, <1>2
  <1> QED
    BY <1>3 DEF ReadTypes, Present

(* Steps of others disturb no edit when there is none.                       *)
LEMMA EditWaits ==
    ASSUME IInv, FileStep, UNCHANGED editVars, ed.pc = "idle"
    PROVE  EditTypes' /\ EditInv'
  BY EditUndisturbed DEF IInv

(* Every step keeps the invariant.                                           *)
LEMMA NextIInv ==
    ASSUME IInv, [Next]_vars
    PROVE  IInv'
  <1>1. others \in Nat
    BY DEF IInv
  <1>2. CASE OwnerEdits
    <2>1. FileStep /\ ed.pc # "idle" /\ rd.pc = "idle" /\ w.pc = "none" /\ put[Owner].pc = "idle"
      BY <1>2, EditsInFiles
    <2>2. UNCHANGED <<meanwhile, put, rd, w, others>> /\ EditStep
      BY <1>2 DEF OwnerEdits
    <2>3. EditTypes' /\ EditInv'
      BY <2>2, EditStepInv DEF IInv
    <2>4. ReadTypes'
      BY <2>1, <2>2, ReadWaits DEF IInv
    <2>5. WriterInv' /\ InsertInv' /\ Modes'
      <3>1. w' = w /\ w'.pc = "none" /\ put'[Owner].pc = "idle" /\ rd'.pc = "idle"
        BY <2>1, <2>2
      <3>2. w = [pc |-> "none"]
        BY <2>1 DEF IInv, WriterInv, WriterStates
      <3> QED
        BY <3>1, <3>2 DEF WriterInv, InsertInv, Modes, Committing
    <2>6. FileTypes' /\ PutInv' /\ OthersInv' /\ OwnerWrote' /\ IntactInv' /\ AppendsKept'
      BY <2>1, FilesHold
    <2> QED
      BY <1>1, <2>2, <2>3, <2>4, <2>5, <2>6 DEF IInv
  <1>3. CASE OwnerReads
    <2>1. Elsewhere /\ rd'.pc # "idle" /\ ed.pc = "idle" /\ w.pc \in {"none", "reading"}
      BY <1>3, ReadsInFiles
    <2>2. UNCHANGED <<editVars, put, w, others>> /\ ReadStep
      BY <1>3 DEF OwnerReads
    <2>3. FileStep
      BY <2>1 DEF FileStep
    <2>4. EditTypes' /\ EditInv'
      BY <2>1, <2>2, <2>3, EditWaits
    <2>5. ReadTypes'
      BY <2>2, ReadStepTypes DEF IInv
    <2>6. InsertInv'
      BY <2>2, InsertReads DEF IInv
    <2>7. Modes' /\ WriterInv'
      <3>1. UNCHANGED <<versions, meanwhile, put, w, ed>>
        BY <2>1, <2>2 DEF Elsewhere, fileVars, editVars
      <3>2. Content' = Content
        BY <3>1 DEF Content, Exists, Present
      <3>3. WriterInv'
        BY <3>1, <3>2 DEF IInv, WriterInv, Committing
      <3> QED
        BY <2>1, <3>1, <3>3 DEF Modes
    <2>8. FileTypes' /\ PutInv' /\ OthersInv' /\ OwnerWrote' /\ IntactInv' /\ AppendsKept'
      BY <2>3, FilesHold
    <2> QED
      BY <1>1, <2>2, <2>4, <2>5, <2>6, <2>7, <2>8 DEF IInv
  <1>4. CASE OwnerWrites
    <2>1. /\ FileStep /\ WriterInv' /\ ed.pc = "idle" /\ w'.pc \notin {"reading", "none"}
          /\ rd' = [pc |-> "idle"] \/ (rd.pc = "idle" /\ UNCHANGED rd)
      BY <1>4, WritesInFiles
    <2>2. UNCHANGED <<editVars, others>>
      BY <1>4 DEF OwnerWrites
    <2>3. EditTypes' /\ EditInv'
      BY <2>1, <2>2, EditWaits
    <2>4. ReadTypes' /\ rd'.pc = "idle"
      <3>1. CASE rd' = [pc |-> "idle"]
        BY <3>1 DEF ReadTypes
      <3>2. CASE rd.pc = "idle" /\ UNCHANGED rd
        BY <2>1, <3>2, ReadWaits DEF IInv
      <3> QED
        BY <2>1, <3>1, <3>2
    <2>5. Modes' /\ InsertInv'
      BY <2>1, <2>2, <2>4 DEF Modes, InsertInv, editVars
    <2>6. FileTypes' /\ PutInv' /\ OthersInv' /\ OwnerWrote' /\ IntactInv' /\ AppendsKept'
      BY <2>1, FilesHold
    <2> QED
      BY <1>1, <2>1, <2>2, <2>3, <2>4, <2>5, <2>6 DEF IInv
  <1>5. CASE OthersDo
    <2>1. /\ FileStep /\ ~Opened(Owner) /\ Same(Owner) /\ Waits(Owner) /\ meanwhile' # {}
          /\ Present <= 1 => Len(versions') <= 1 \/ "replaced" \in meanwhile'
      BY <1>5, OthersInFiles
    <2>2. UNCHANGED <<editVars, rd, w>> /\ others' \in Nat
      BY <1>1, <1>5 DEF OthersDo
    <2>3. ed.pc # "idle" => put[Owner].pc = "idle"
      BY DEF IInv, Modes, WriterInv, Committing
    <2>4. EditTypes' /\ EditInv'
      BY <2>1, <2>2, <2>3, EditUndisturbed DEF IInv
    <2>5. ReadTypes'
      BY <2>1, <2>2, ReadWaits DEF IInv
    <2>6. WriterInv'
      BY <2>1, <2>2 DEF IInv, WriterInv, Committing, Same, Waits
    <2>7. InsertInv' /\ Modes'
      BY <2>1, <2>2 DEF IInv, InsertInv, Modes, editVars
    <2>8. FileTypes' /\ PutInv' /\ OthersInv' /\ OwnerWrote' /\ IntactInv' /\ AppendsKept'
      BY <2>1, FilesHold
    <2> QED
      BY <2>2, <2>4, <2>5, <2>6, <2>7, <2>8 DEF IInv
  <1>6. CASE UNCHANGED vars
    <2>1. Elsewhere /\ UNCHANGED <<ed, temp, rd, w, others, versions, meanwhile, put>>
      BY <1>6 DEF vars, fileVars, editVars, Elsewhere
    <2>2. FileStep
      BY <2>1 DEF FileStep
    <2>3. FileTypes' /\ PutInv' /\ OthersInv' /\ OwnerWrote' /\ IntactInv' /\ AppendsKept'
      BY <2>2, FilesHold
    <2>4. ReadTypes'
      BY <2>1, <2>2, ReadWaits DEF IInv
    <2>5. Content' = Content /\ Present' = Present
      BY <2>1 DEF Content, Exists, Present
    <2>6. WriterInv' /\ InsertInv'
      BY <2>1, <2>5 DEF IInv, WriterInv, InsertInv, Committing
    <2>7. EditTypes' /\ EditInv'
      BY <2>1, <2>5 DEF IInv, EditTypes, EditInv, HasFile, Rewriting, Copied
    <2>8. Modes' /\ others' \in Nat
      BY <1>1, <2>1 DEF IInv, Modes
    <2> QED
      BY <2>3, <2>4, <2>6, <2>7, <2>8 DEF IInv
  <1>7. OwnerEdits \/ OwnerReads \/ OwnerWrites \/ OthersDo \/ UNCHANGED vars
    BY NextKinds, SharingAssumption
  <1> QED
    BY <1>2, <1>3, <1>4, <1>5, <1>6, <1>7

(* ------------------- edits nobody interferes with ------------------------ *)

(* Nobody else is at the file f, and no call has failed yet.                 *)
Alone(f) ==
    /\ FileTypes /\ EditTypes /\ EditInv /\ ExactInv
    /\ meanwhile = {} /\ versions = <<f>> /\ f \in Seq(Byte)
    /\ ed.pc \notin {"idle", "done"} /\ ~ed.failed

(* What is known of an edit that is alone at the file f.                     *)
LEMMA AloneIs ==
    ASSUME NEW f, Alone(f)
    PROVE  /\ f \in Seq(Byte) /\ Len(f) \in Nat /\ Len(f) < SizeMax /\ SizeMax \in Nat
           /\ versions[1] = f /\ Present = 1 /\ Exists
           /\ ed \in EditStates /\ (HasFile => ed.fd = 1)
           /\ ed.req \in EditRequests /\ ed.req.first \in Nat /\ ed.req.last \in Nat
           /\ ed.req.first <= SizeMax /\ ed.req.last <= SizeMax
           /\ ed.req.api \in EditApis
           /\ ed.req.api # "deleteLines" => ed.req.last = ed.req.first
           /\ ed.pos \in Nat /\ ed.need \in Int /\ ed.size \in Nat /\ ed.start \in Nat
           /\ ed.end \in Nat /\ ed.goal \in Goals
  <1>1. f \in Seq(Byte) /\ Len(f) \in Nat /\ versions = <<f>> /\ SizeMax \in Nat
    BY SizeMaxAssumption DEF Alone
  <1>2. versions[1] = f /\ Len(versions) = 1 /\ versions # <<>>
    BY <1>1
  <1>3. Len(f) < SizeMax
    BY <1>2 DEF Alone, ExactInv
  <1>4. ed \in EditStates
    BY EditKnown DEF Alone
  <1>5. HasFile => ed.fd = 1
    <2>1. HasFile => ed.fd \in 1 .. 1
      BY <1>2 DEF Alone, EditInv, Present
    <2> QED
      BY <2>1
  <1>6. ed.req \in EditRequests
    BY <1>4 DEF EditStates
  <1>7. /\ ed.req.first \in 0 .. SizeMax /\ ed.req.last \in 0 .. SizeMax
        /\ ed.req.api \in EditApis
        /\ ed.req.api # "deleteLines" => ed.req.last = ed.req.first
    BY <1>6 DEF EditRequests
  <1>8. /\ ed.pos \in Nat /\ ed.need \in Int /\ ed.size \in Nat /\ ed.start \in Nat
        /\ ed.end \in Nat /\ ed.goal \in Goals
    BY <1>4 DEF EditStates, Goals
  <1> QED
    BY <1>1, <1>2, <1>3, <1>4, <1>5, <1>6, <1>7, <1>8 DEF Present, Exists

(* What an answer has to be, and the state after a step without one.         *)
RefusedRightly(f) ==
    /\ ed'.pc = "done" /\ ed'.answer = FALSE /\ ed'.req = ed.req /\ versions' = <<f>>
    /\ ~Editable(f, ed.req)
EditedRightly(f) ==
    /\ ed'.pc = "done" /\ ed'.answer = TRUE /\ ed'.req = ed.req
    /\ Editable(f, ed.req)
    /\ versions' = <<f, Splice(f, From(f, ed.req), To(f, ed.req), By(f, ed.req))>>
Right(f) ==
    \/ RefusedRightly(f) \/ EditedRightly(f)
    \/ (ed'.pc # "done" /\ versions' = <<f>> /\ ExactInv')

(* It is right to refuse when the lines are not there.                       *)
LEMMA RefusedIs ==
    ASSUME NEW f, Alone(f), Refuse, UNCHANGED versions, ~Editable(f, ed.req)
    PROVE  Right(f)
  <1>1. ed'.pc = "done" /\ ed'.answer = FALSE /\ ed'.req = ed.req
    BY AloneIs DEF Refuse, Return, EditStates
  <1>2. versions' = <<f>>
    BY DEF Alone
  <1> QED
    BY <1>1, <1>2 DEF Right, RefusedRightly

(* The checks of the arguments refuse only lines that no file has.           *)
LEMMA AskExact ==
    ASSUME NEW f, Alone(f), Ask
    PROVE  Right(f)
  <1>1. ed.pc = "ask" /\ UNCHANGED versions /\ ed \in EditStates /\ versions' = <<f>> /\ versions'[1] = f
    BY AloneIs DEF Ask, At, Alone
  <1>2. ed.text = ed.req.text /\ Len(f) < SizeMax
    BY <1>1, AloneIs DEF Alone, ExactInv
  <1>3. CASE Is({"insertAt"}) /\ ed' = RewriteFrom(ed, ed.req.first, ed.req.first)
    <2>1. /\ ed'.pc = "rewrite" /\ ed'.req = ed.req /\ ed'.text = ed.text
          /\ ed'.start = ed.req.first /\ ed'.end = ed.req.first
      BY <1>1, <1>3 DEF RewriteFrom, EditStates
    <2>2. From(f, ed.req) = ed.req.first /\ To(f, ed.req) = ed.req.first /\ By(f, ed.req) = ed.req.text
      BY <1>3 DEF Is, From, To, By
    <2>3. ExactInv'
      BY <1>1, <1>2, <1>3, <2>1, <2>2 DEF ExactInv, RangeFound, Is, Rewriting
    <2> QED
      BY <1>1, <2>1, <2>3 DEF Right
  <1>4. CASE Refuse /\ ~Is({"insertAt"}) /\ (ed.req.first = 0 \/ ed.req.last = 0 \/ ed.req.first > ed.req.last)
    <2>1. ~Editable(f, ed.req)
      BY <1>4, AloneIs DEF Editable, Is
    <2> QED
      BY <1>1, <1>4, <2>1, RefusedIs
  <1>5. CASE ~Is({"insertAt"}) /\ 0 < ed.req.first /\ ed.req.first <= ed.req.last /\ ed' = [ed EXCEPT !.pc = "open"]
    <2>1. ed'.pc = "open" /\ ed'.req = ed.req /\ ed'.text = ed.text
      BY <1>1, <1>5 DEF EditStates
    <2>2. ExactInv'
      BY <1>1, <1>2, <1>5, <2>1 DEF ExactInv, Is, Rewriting
    <2> QED
      BY <1>1, <2>1, <2>2 DEF Right
  <1> QED
    BY <1>3, <1>4, <1>5 DEF Ask

(* A search begins at the beginning of the file.                             *)
LEMMA SearchBegun ==
    ASSUME NEW f, Alone(f), NEW goal \in Goals,
           ed'.pc = "search", ed'.goal = goal, ed'.pos = 0, ed'.need = Target(goal) - 1,
           ed'.req = ed.req, ed'.text = ed.req.text, UNCHANGED versions,
           ~Is({"insertAt"}), 0 < ed.req.first, ed.req.first <= ed.req.last,
           goal = "start" => Is({"insertBeforeLine", "deleteLines", "replaceLine"}),
           goal = "next" => Is({"insertAfterLine", "deleteLines", "replaceLine"}),
           goal \in {"next", "last"} => FirstFound(f)',
           goal = "last" => Is({"insertAfterLine", "deleteLines"}) /\ ed.req.last >= PieceCount(f),
           Is({"replaceLine"}) => ed'.size = Len(f)
    PROVE  Right(f)
  <1>1. versions' = <<f>> /\ versions'[1] = f /\ Len(f) < SizeMax /\ Len(f) \in Nat /\ 0 <= Len(f)
    BY AloneIs DEF Alone
  <1>2. NewlinesBefore(f, 0) = 0
    BY NoneBeforeTheFirst
  <1>3. Target(goal) \in Nat /\ Target(ed.goal)' = Target(goal)
    <2>1. Target(goal) \in 0 .. SizeMax
      BY AloneIs, TargetType
    <2>2. Target(ed.goal)' = Target(goal)
      BY DEF Target, Succ
    <2> QED
      BY <2>1, <2>2
  <1>4. ed'.goal = "start" \/ ed'.goal = "next" \/ ed'.goal = "last"
    BY DEF Goals
  <1>5. ed'.need = Target(ed.goal)' - 1 - NewlinesBefore(f, ed'.pos)
    BY <1>2, <1>3
  <1>6. Target(ed.goal)' > 1 => ed'.need >= 1
    BY <1>3
  <1>7. SearchInv(f)'
    BY <1>1, <1>4, <1>5, <1>6 DEF SearchInv, Is
  <1>8. ExactInv'
    BY <1>1, <1>7 DEF ExactInv, Is, Rewriting
  <1> QED
    BY <1>1, <1>8 DEF Right

(* What is known while offsets are looked for.                               *)
LEMMA LookingFor ==
    ASSUME NEW f, Alone(f),
           ed.pc \in {"open", "size", "search", "lastSize", "peek", "peekRead"}
    PROVE  /\ ed.text = ed.req.text /\ ~Is({"insertAt"})
           /\ 0 < ed.req.first /\ ed.req.first <= ed.req.last
           /\ ed.pc = "size" => Is({"replaceLine"})
           /\ ed.pc = "search" => SearchInv(f)
           /\ ed.pc = "lastSize" =>
                 /\ Is({"insertAfterLine", "deleteLines"}) /\ FirstFound(f)
                 /\ ed.req.last = PieceCount(f)
           /\ ed.pc \in {"peek", "peekRead"} =>
                 Is({"replaceLine"}) /\ RangeFound(f) /\ ed.start < ed.end
           /\ Is({"insertBeforeLine", "insertAfterLine", "deleteLines", "replaceLine"})
  <1>1. ~ed.failed /\ versions # <<>> /\ versions[1] = f
    BY AloneIs DEF Alone, Exists
  <1>2. Is({"insertBeforeLine", "insertAfterLine", "deleteLines", "replaceLine"}) \/ Is({"insertAt"})
    BY AloneIs DEF Is, EditApis
  <1> QED
    BY <1>1, <1>2 DEF Alone, ExactInv

(* Opening the file begins the right search.                                 *)
LEMMA OpenExact ==
    ASSUME NEW f, Alone(f), Open
    PROVE  Right(f)
  <1>1. /\ ed.pc = "open" /\ UNCHANGED versions /\ ed \in EditStates /\ Present = 1
    BY AloneIs DEF Open, At
  <1>2. /\ ed.text = ed.req.text /\ ~Is({"insertAt"})
        /\ 0 < ed.req.first /\ ed.req.first <= ed.req.last
    BY <1>1, LookingFor
  <1> DEFINE opened == [ed EXCEPT !.fd = Present]
  <1>3. opened \in EditStates /\ opened.req = ed.req /\ opened.text = ed.text
    BY <1>1 DEF EditStates
  <1> HIDE DEF opened
  <1>4. CASE Is({"replaceLine"}) /\ ed' = [opened EXCEPT !.pc = "size"]
    <2>1. ed'.pc = "size" /\ ed'.req = ed.req /\ ed'.text = ed.text
      BY <1>3, <1>4 DEF EditStates
    <2>2. versions' = <<f>> /\ versions'[1] = f /\ Len(f) < SizeMax
      BY <1>1, AloneIs DEF Alone
    <2>3. ExactInv'
      BY <1>2, <1>4, <2>1, <2>2 DEF ExactInv, Is, Rewriting
    <2> QED
      BY <2>1, <2>2, <2>3 DEF Right
  <1>5. ASSUME NEW goal \in Goals, ed' = Search(opened, goal)
        PROVE  /\ ed'.pc = "search" /\ ed'.goal = goal /\ ed'.pos = 0 /\ ed'.need = Target(goal) - 1
               /\ ed'.req = ed.req /\ ed'.text = ed.req.text
    BY <1>2, <1>3, <1>5 DEF Search, EditStates
  <1>6. CASE Is({"insertAfterLine"}) /\ ed' = Search(opened, "next")
    <2>1. "next" \in Goals
      BY DEF Goals
    <2>2. /\ ed'.pc = "search" /\ ed'.goal = "next" /\ ed'.pos = 0 /\ ed'.need = Target("next") - 1
          /\ ed'.req = ed.req /\ ed'.text = ed.req.text
      BY <1>5, <1>6, <2>1
    <2>3. FirstFound(f)' /\ ~Is({"replaceLine"})
      BY <1>6, <2>2 DEF FirstFound, Is
    <2> QED
      BY <1>1, <1>2, <1>6, <2>1, <2>2, <2>3, SearchBegun DEF Is
  <1>7. CASE Is({"insertBeforeLine", "deleteLines"}) /\ ed' = Search(opened, "start")
    <2>1. "start" \in Goals
      BY DEF Goals
    <2>2. /\ ed'.pc = "search" /\ ed'.goal = "start" /\ ed'.pos = 0 /\ ed'.need = Target("start") - 1
          /\ ed'.req = ed.req /\ ed'.text = ed.req.text
      BY <1>5, <1>7, <2>1
    <2>3. ~Is({"replaceLine"})
      BY <1>7 DEF Is
    <2> QED
      BY <1>1, <1>2, <1>7, <2>1, <2>2, <2>3, SearchBegun DEF Is
  <1> QED
    BY <1>4, <1>6, <1>7 DEF Open, opened

(* replaceLine measures f before it searches.                                *)
LEMMA SizeExact ==
    ASSUME NEW f, Alone(f), Size
    PROVE  Right(f)
  <1>1. /\ ed.pc = "size" /\ UNCHANGED versions /\ ed \in EditStates
        /\ Len(versions[ed.fd]) = Len(f) /\ Len(f) \in Nat
    BY AloneIs DEF Size, At, HasFile
  <1>2. /\ ed.text = ed.req.text /\ ~Is({"insertAt"}) /\ Is({"replaceLine"})
        /\ 0 < ed.req.first /\ ed.req.first <= ed.req.last
    BY <1>1, LookingFor
  <1>3. "start" \in Goals
    BY DEF Goals
  <1>4. /\ ed'.pc = "search" /\ ed'.goal = "start" /\ ed'.pos = 0 /\ ed'.need = Target("start") - 1
        /\ ed'.req = ed.req /\ ed'.text = ed.req.text /\ ed'.size = Len(f)
    BY <1>1, <1>2 DEF Size, Search, EditStates
  <1> QED
    BY <1>1, <1>2, <1>3, <1>4, SearchBegun DEF Is

(* A file has at most one piece more than bytes.                             *)
LEMMA PieceCountBound ==
    ASSUME NEW f \in Seq(Byte)
    PROVE  PieceCount(f) <= Len(f) + 1
  <1>1. Len(f) \in Nat /\ PieceCount(f) = NewlinesBefore(f, Len(f)) + 1
    BY CutsAre
  <1>2. NewlinesIn(f, 0, Len(f)) \in SUBSET (1 .. Len(f))
    BY <1>1, FirstNewlines
  <1>3. IsFiniteSet(1 .. Len(f)) /\ Cardinality(1 .. Len(f)) = Len(f)
    <2>1. 1 \in Int /\ Len(f) \in Int /\ 1 <= Len(f) + 1
      BY <1>1
    <2>2. /\ IsFiniteSet(1 .. Len(f))
          /\ Cardinality(1 .. Len(f)) = IF 1 > Len(f) THEN 0 ELSE (Len(f) - 1) + 1
      BY <2>1, FS_Interval
    <2> QED
      BY <1>1, <2>2
  <1>4. Cardinality(NewlinesIn(f, 0, Len(f))) <= Len(f)
    BY <1>2, <1>3, FS_Subset
  <1>5. Cardinality(NewlinesIn(f, 0, Len(f))) \in Nat
    BY <1>1, FirstNewlines
  <1> QED
    BY <1>1, <1>4, <1>5 DEF NewlinesBefore

(* A number below the modulus does not wrap.                                 *)
LEMMA NumberFits ==
    ASSUME NEW x \in Nat, NEW y \in Nat, x < y
    PROVE  x % y = x
  OBVIOUS

(* The number of the next line, if it does not wrap.                         *)
LEMMA NextPiece ==
    ASSUME NEW f \in Seq(Byte), Len(f) < SizeMax, NEW n \in 1 .. SizeMax
    PROVE  /\ Succ(n) \in Nat
           /\ Succ(n) \in 1 .. PieceCount(f) => Succ(n) - 1 = n /\ n < PieceCount(f)
           /\ Succ(n) \notin 1 .. PieceCount(f) => n >= PieceCount(f)
  <1>1. n \in Nat /\ 0 < n /\ n <= SizeMax /\ SizeMax \in Nat /\ Len(f) \in Nat
    BY SizeMaxAssumption
  <1>2. PieceCount(f) \in Nat /\ PieceCount(f) <= SizeMax
    BY <1>1, CutsAre, PieceCountBound
  <1>3. CASE n = SizeMax
    <2>1. Succ(n) = 0
      BY <1>1, <1>3 DEF Succ
    <2> QED
      BY <1>1, <1>2, <1>3, <2>1
  <1>4. CASE n < SizeMax
    <2>1. Succ(n) = n + 1
      <3>1. n + 1 \in Nat /\ SizeMax + 1 \in Nat /\ n + 1 < SizeMax + 1
        BY <1>1, <1>4
      <3> QED
        BY <3>1, NumberFits DEF Succ
    <2> QED
      BY <1>1, <1>2, <1>4, <2>1
  <1> QED
    BY <1>1, <1>3, <1>4

(* The line behind the last one asked for, if its number does not wrap.      *)
LEMMA NextLine ==
    ASSUME NEW f, Alone(f), 0 < ed.req.last
    PROVE  /\ Succ(ed.req.last) \in 1 .. PieceCount(f) =>
                 Succ(ed.req.last) - 1 = ed.req.last /\ ed.req.last < PieceCount(f)
           /\ Succ(ed.req.last) \notin 1 .. PieceCount(f) => ed.req.last >= PieceCount(f)
  <1>1. f \in Seq(Byte) /\ Len(f) < SizeMax /\ ed.req.last \in 1 .. SizeMax
    BY AloneIs
  <1> QED
    BY <1>1, NextPiece

(* The offsets are found.                                                    *)
LEMMA RewriteBegun ==
    ASSUME NEW f, Alone(f), UNCHANGED versions,
           ed'.pc = "rewrite", ed'.req = ed.req, ed'.text = By(f, ed.req),
           ed'.start = From(f, ed.req), ed'.end = To(f, ed.req), Editable(f, ed.req)
    PROVE  Right(f)
  <1>1. versions' = <<f>> /\ versions'[1] = f /\ Len(f) < SizeMax
    BY AloneIs DEF Alone
  <1>2. RangeFound(f)'
    BY DEF RangeFound
  <1>3. ExactInv'
    BY <1>1, <1>2 DEF ExactInv, Rewriting
  <1> QED
    BY <1>1, <1>3 DEF Right

(* A range found to its end is the one asked for.                            *)
LEMMA EndFound ==
    ASSUME NEW f, Alone(f), ed.pc = "search", UNCHANGED versions,
           Is({"deleteLines", "replaceLine"}), FirstFound(f),
           ed.req.last \in 1 .. PieceCount(f), NEW end, end = Cut(f, ed.req.last),
           ed' = EndsAt(ed, end)
    PROVE  Right(f)
  <1> DEFINE n == PieceCount(f)
  <1>1. /\ f \in Seq(Byte) /\ Len(f) \in Nat /\ ed \in EditStates /\ n \in Nat
        /\ ed.req.first \in Nat /\ ed.req.last \in Nat /\ ed.start \in Nat
        /\ ed.req.api # "deleteLines" => ed.req.last = ed.req.first
    BY AloneIs, CutsAre
  <1>2. /\ ed.text = ed.req.text /\ ~Is({"insertAt"})
        /\ 0 < ed.req.first /\ ed.req.first <= ed.req.last
    BY LookingFor
  <1>3. /\ ed.start = Cut(f, ed.req.first - 1)
        /\ Is({"replaceLine"}) => Cut(f, ed.req.first - 1) < Len(f)
    BY DEF FirstFound
  <1>4. ed.req.first \in 1 .. n
    BY <1>1, <1>2
  <1>5. Editable(f, ed.req)
    BY <1>2, <1>3, <1>4 DEF Editable, Is
  <1>6. From(f, ed.req) = ed.start /\ To(f, ed.req) = end
    BY <1>2, <1>3 DEF From, To, Is
  <1>7. CASE Is({"deleteLines"})
    <2>1. /\ ed'.pc = "rewrite" /\ ed'.req = ed.req /\ ed'.text = ed.text
          /\ ed'.start = ed.start /\ ed'.end = end
      BY <1>1, <1>7 DEF EndsAt, Is, EditStates
    <2>2. By(f, ed.req) = ed.req.text
      BY <1>7 DEF By, Is
    <2> QED
      BY <1>2, <1>5, <1>6, <2>1, <2>2, RewriteBegun
  <1>8. CASE Is({"replaceLine"})
    <2>1. Cut(f, ed.req.first - 1) < Cut(f, ed.req.first) /\ ed.req.last = ed.req.first
      BY <1>1, <1>3, <1>4, <1>8, PieceThere DEF Is
    <2>2. ed.start < end
      BY <1>3, <2>1
    <2>3. end \in Nat
      <3>1. ed.req.last \in 0 .. n
        BY <1>1
      <3> QED
        BY <1>1, <3>1, CutsAre
    <2>4. end > ed.start
      BY <1>1, <2>2, <2>3
    <2>5. /\ ed'.pc = "peek" /\ ed'.req = ed.req /\ ed'.text = ed.text
          /\ ed'.start = ed.start /\ ed'.end = end
      BY <1>1, <1>8, <2>4 DEF EndsAt, EditStates
    <2>6. RangeFound(f)'
      BY <1>5, <1>6, <2>5 DEF RangeFound
    <2>7. versions' = <<f>> /\ versions'[1] = f /\ Len(f) < SizeMax
      BY AloneIs DEF Alone
    <2>8. ExactInv'
      BY <1>2, <1>8, <2>2, <2>5, <2>6, <2>7 DEF ExactInv, Is, Rewriting
    <2> QED
      BY <2>5, <2>7, <2>8 DEF Right
  <1> QED
    BY <1>7, <1>8 DEF Is

(* A line that is looked for and is not there.                               *)
LEMMA NotThereExact ==
    ASSUME NEW f, Alone(f), ed.pc = "search", NotFound(ed), UNCHANGED versions,
           Target(ed.goal) \notin 1 .. PieceCount(f)
    PROVE  Right(f)
  <1> DEFINE n == PieceCount(f)
  <1>1. /\ f \in Seq(Byte) /\ Len(f) \in Nat /\ ed \in EditStates /\ n \in Nat \ {0}
        /\ ed.req.first \in Nat /\ ed.req.last \in Nat /\ ed.goal \in Goals
        /\ ed.req.api # "deleteLines" => ed.req.last = ed.req.first
    BY AloneIs, CutsAre
  <1>2. /\ ed.text = ed.req.text /\ ~Is({"insertAt"}) /\ SearchInv(f)
        /\ 0 < ed.req.first /\ ed.req.first <= ed.req.last
    BY LookingFor
  <1>3. CASE ed.goal \in {"start", "last"} /\ Return(ed, FALSE)
    <2>1. ed.req.first \notin 1 .. n \/ ed.req.last \notin 1 .. n
      BY <1>3 DEF Target
    <2>2. ~Editable(f, ed.req)
      BY <1>2, <2>1 DEF Editable, Is
    <2> QED
      BY <1>3, <2>2, RefusedIs DEF Refuse
  <1>4. ASSUME ed.goal = "next" PROVE FirstFound(f) /\ ed.req.last >= n
    <2>1. Succ(ed.req.last) \notin 1 .. n
      BY <1>4 DEF Target
    <2>2. 0 < ed.req.last
      BY <1>1, <1>2
    <2> QED
      BY <1>2, <1>4, <2>1, <2>2, NextLine DEF SearchInv
  <1>5. CASE ed.goal = "next" /\ Is({"replaceLine"}) /\ ed' = EndsAt(ed, ed.size)
    <2>1. ed.size = Len(f) /\ Cut(f, n) = Len(f)
      BY <1>1, <1>2, <1>5, CutsAre DEF SearchInv
    <2>2. ed.req.last = n
      BY <1>1, <1>4, <1>5 DEF FirstFound, Is
    <2>3. ed.req.last \in 1 .. n /\ ed.size = Cut(f, ed.req.last) /\ Is({"deleteLines", "replaceLine"})
      BY <1>1, <1>5, <2>1, <2>2 DEF Is
    <2> QED
      BY <1>4, <1>5, <2>3, EndFound
  <1>6. CASE /\ ed.goal = "next" /\ Is({"insertAfterLine", "deleteLines"})
             /\ ed' = Search(ed, "last")
    <2>1. "last" \in Goals /\ ~Is({"replaceLine"})
      BY <1>6 DEF Goals, Is
    <2>2. /\ ed'.pc = "search" /\ ed'.goal = "last" /\ ed'.pos = 0 /\ ed'.need = Target("last") - 1
          /\ ed'.req = ed.req /\ ed'.text = ed.req.text /\ ed'.start = ed.start
      BY <1>1, <1>2, <1>6 DEF Search, EditStates
    <2>3. FirstFound(f)'
      BY <1>4, <1>6, <2>2 DEF FirstFound, Is
    <2> QED
      BY <1>2, <1>4, <1>6, <2>1, <2>2, <2>3, SearchBegun
  <1> QED
    BY <1>3, <1>5, <1>6 DEF NotFound

(* A line that is there.                                                     *)
LEMMA FoundExact ==
    ASSUME NEW f, Alone(f), ed.pc = "search", NEW offset, Found(offset), UNCHANGED versions,
           Target(ed.goal) \in 1 .. PieceCount(f), offset = Cut(f, Target(ed.goal) - 1)
    PROVE  Right(f)
  <1> DEFINE n == PieceCount(f)
  <1>1. /\ f \in Seq(Byte) /\ Len(f) \in Nat /\ ed \in EditStates /\ n \in Nat \ {0}
        /\ ed.req.first \in Nat /\ ed.req.last \in Nat /\ ed.goal \in Goals
        /\ ed.req.api # "deleteLines" => ed.req.last = ed.req.first
        /\ \A i \in 0 .. n : Cut(f, i) \in 0 .. Len(f)
    BY AloneIs, CutsAre
  <1>2. /\ ed.text = ed.req.text /\ ~Is({"insertAt"}) /\ SearchInv(f)
        /\ 0 < ed.req.first /\ ed.req.first <= ed.req.last
    BY LookingFor
  <1>3. Is({"replaceLine"}) => ed.size = Len(f)
    BY <1>2 DEF SearchInv
  <1>4. ASSUME ed.goal = "start"
        PROVE  ed.req.first \in 1 .. n /\ offset = Cut(f, ed.req.first - 1) /\ offset \in Nat
    <2>1. ed.req.first \in 1 .. n /\ offset = Cut(f, ed.req.first - 1)
      BY <1>4 DEF Target
    <2>2. ed.req.first - 1 \in 0 .. n
      BY <1>1, <2>1
    <2> QED
      BY <1>1, <2>1, <2>2
  <1>5. ASSUME ed.goal = "next"
        PROVE  /\ ed.req.last \in 1 .. n /\ ed.req.first \in 1 .. n
               /\ offset = Cut(f, ed.req.last) /\ FirstFound(f)
    <2>1. Succ(ed.req.last) \in 1 .. n /\ offset = Cut(f, Succ(ed.req.last) - 1)
      BY <1>5 DEF Target
    <2>2. 0 < ed.req.last
      BY <1>1, <1>2
    <2>3. Succ(ed.req.last) - 1 = ed.req.last /\ ed.req.last < n
      BY <2>1, <2>2, NextLine
    <2> QED
      BY <1>1, <1>2, <1>5, <2>1, <2>2, <2>3 DEF SearchInv
  <1>6. CASE ed.goal = "start" /\ Is({"replaceLine"}) /\ offset >= ed.size /\ Refuse
    <2>1. ~(Cut(f, ed.req.first - 1) < Len(f))
      BY <1>1, <1>3, <1>4, <1>6
    <2>2. ~Editable(f, ed.req)
      BY <1>2, <1>6, <2>1 DEF Editable, Is
    <2> QED
      BY <1>6, <2>2, RefusedIs
  <1>7. CASE ed.goal = "start" /\ Is({"insertBeforeLine"}) /\ ed' = RewriteFrom(ed, offset, offset)
    <2>1. /\ ed'.pc = "rewrite" /\ ed'.req = ed.req /\ ed'.text = ed.text
          /\ ed'.start = offset /\ ed'.end = offset
      BY <1>1, <1>7 DEF RewriteFrom, EditStates
    <2>2. Editable(f, ed.req)
      BY <1>1, <1>2, <1>4, <1>7 DEF Editable, Is
    <2>3. From(f, ed.req) = offset /\ To(f, ed.req) = offset /\ By(f, ed.req) = ed.req.text
      BY <1>4, <1>7 DEF From, To, By, Is
    <2> QED
      BY <1>2, <2>1, <2>2, <2>3, RewriteBegun
  <1>8. CASE /\ ed.goal = "start" /\ Is({"deleteLines", "replaceLine"})
             /\ Is({"replaceLine"}) => offset < ed.size
             /\ ed' = Search([ed EXCEPT !.start = offset], "next")
    <2>1. "next" \in Goals
      BY DEF Goals
    <2>2. /\ ed'.pc = "search" /\ ed'.goal = "next" /\ ed'.pos = 0 /\ ed'.need = Target("next") - 1
          /\ ed'.req = ed.req /\ ed'.text = ed.req.text /\ ed'.start = offset /\ ed'.size = ed.size
      BY <1>1, <1>2, <1>8 DEF Search, EditStates
    <2>3. ed.req.first <= n
      BY <1>1, <1>4, <1>8
    <2>4. FirstFound(f)'
      BY <1>3, <1>4, <1>8, <2>2, <2>3 DEF FirstFound, Is
    <2>5. /\ Is({"insertAfterLine", "deleteLines", "replaceLine"})
          /\ Is({"replaceLine"}) => ed'.size = Len(f)
      BY <1>3, <1>8, <2>2 DEF Is
    <2> QED
      BY <1>2, <2>1, <2>2, <2>4, <2>5, SearchBegun
  <1>9. CASE ed.goal = "next" /\ Is({"insertAfterLine"}) /\ ed' = RewriteFrom(ed, offset, offset)
    <2>1. /\ ed'.pc = "rewrite" /\ ed'.req = ed.req /\ ed'.text = ed.text
          /\ ed'.start = offset /\ ed'.end = offset
      BY <1>1, <1>9 DEF RewriteFrom, EditStates
    <2>2. Editable(f, ed.req)
      BY <1>2, <1>5, <1>9 DEF Editable, Is
    <2>3. ed.req.last = ed.req.first
      BY <1>1, <1>9 DEF Is
    <2>4. From(f, ed.req) = offset /\ To(f, ed.req) = offset /\ By(f, ed.req) = ed.req.text
      BY <1>5, <1>9, <2>3 DEF From, To, By, Is
    <2> QED
      BY <1>2, <2>1, <2>2, <2>4, RewriteBegun
  <1>10. CASE ed.goal = "next" /\ Is({"deleteLines", "replaceLine"}) /\ ed' = EndsAt(ed, offset)
    BY <1>5, <1>10, EndFound
  <1>11. CASE ed.goal = "last" /\ ed' = [ed EXCEPT !.pc = "lastSize"]
    <2>1. ed'.pc = "lastSize" /\ ed'.req = ed.req /\ ed'.text = ed.text /\ ed'.start = ed.start
      BY <1>1, <1>11 DEF EditStates
    <2>2. ed.req.last \in 1 .. n
      BY <1>11 DEF Target
    <2>3. Is({"insertAfterLine", "deleteLines"}) /\ FirstFound(f) /\ ed.req.last = n
      BY <1>1, <1>2, <1>11, <2>2 DEF SearchInv
    <2>4. FirstFound(f)'
      BY <2>1, <2>3 DEF FirstFound, Is
    <2>5. versions' = <<f>> /\ versions'[1] = f /\ Len(f) < SizeMax
      BY AloneIs DEF Alone
    <2>6. ExactInv'
      BY <1>2, <2>1, <2>3, <2>4, <2>5 DEF ExactInv, Is, Rewriting
    <2> QED
      BY <2>1, <2>5, <2>6 DEF Right
  <1> QED
    BY <1>6, <1>7, <1>8, <1>9, <1>10, <1>11 DEF Found

(* A block that is read in the search.                                       *)
LEMMA BlockRead ==
    ASSUME NEW f, Alone(f), At("search"), NEW bytes \in Got(ed.fd, ed.pos, Block)
    PROVE  /\ bytes \in Seq(Byte) /\ Len(bytes) \in Nat /\ ed.pos + Len(bytes) <= Len(f)
           /\ \A m \in 0 .. Len(bytes) :
                 /\ NewlinesBefore(f, ed.pos + m) =
                        NewlinesBefore(f, ed.pos) + NewlinesBefore(bytes, m)
                 /\ NewlinesBefore(bytes, m) \in Nat
           /\ \A p \in 1 .. Len(bytes) : bytes[p] = f[ed.pos + p]
  <1>1. /\ f \in Seq(Byte) /\ Len(f) \in Nat /\ versions[1] = f /\ Present = 1 /\ ed.fd = 1
        /\ ed.pos \in Nat /\ FileTypes /\ Block \in Nat
    BY AloneIs, SharedFileAssumption DEF Alone, HasFile, At
  <1>2. ed.fd \in 1 .. Present
    BY <1>1
  <1>3. /\ bytes \in Seq(Byte) /\ Len(bytes) \in 1 .. Block
        /\ ed.pos + Len(bytes) <= Len(f)
        /\ bytes = SubSeq(f, ed.pos + 1, ed.pos + Len(bytes))
    BY <1>1, <1>2, GotBytes
  <1> DEFINE lo == ed.pos
             hi == ed.pos + Len(bytes)
  <1>4. /\ lo \in Nat /\ hi \in Nat /\ lo <= hi /\ hi <= Len(f) /\ hi - lo = Len(bytes)
        /\ Len(bytes) \in Nat
    <2>1. Len(bytes) \in Nat
      BY <1>1, <1>3
    <2>2. ASSUME NEW x \in Nat, NEW y \in Nat
          PROVE  x + y \in Nat /\ x <= x + y /\ (x + y) - x = y
      OBVIOUS
    <2>3. ed.pos + Len(bytes) \in Nat /\ ed.pos <= ed.pos + Len(bytes)
          /\ (ed.pos + Len(bytes)) - ed.pos = Len(bytes)
      BY <1>1, <2>1, <2>2
    <2> QED
      BY <1>1, <1>3, <2>1, <2>3
  <1>5. bytes = SubSeq(f, lo + 1, hi)
    BY <1>3
  <1> HIDE DEF lo, hi
  <1>6. \A p \in 1 .. Len(bytes) : bytes[p] = f[lo + p]
    BY <1>1, <1>4, <1>5, PartIs
  <1>7. ASSUME NEW m \in 0 .. Len(bytes)
        PROVE  /\ NewlinesBefore(f, lo + m) = NewlinesBefore(f, lo) + NewlinesBefore(bytes, m)
               /\ NewlinesBefore(bytes, m) \in Nat
    <2>1. m \in Nat /\ m <= hi - lo /\ 0 \in Nat /\ lo + m \in Nat /\ lo <= lo + m /\ lo + 0 = lo
      BY <1>4
    <2>2. Cardinality(NewlinesIn(bytes, 0, m)) = Cardinality(NewlinesIn(f, lo + 0, lo + m))
      BY <1>1, <1>4, <1>5, <2>1, NewlinesOfPart
    <2>3. NewlinesBefore(f, lo + m) = NewlinesBefore(f, lo) + Cardinality(NewlinesIn(f, lo, lo + m))
      BY <1>4, <2>1, CountGrows
    <2>4. Cardinality(NewlinesIn(bytes, 0, m)) \in Nat
      BY <2>1, FirstNewlines
    <2> QED
      BY <2>1, <2>2, <2>3, <2>4 DEF NewlinesBefore
  <1> QED
    BY <1>3, <1>4, <1>6, <1>7 DEF lo

(* A block of a search, whether it holds the line's newline or not.          *)
LEMMA SearchBlockExact ==
    ASSUME NEW f, Alone(f), SearchBlock
    PROVE  Right(f)
  <1>1. At("search") /\ ed.pc = "search" /\ Target(ed.goal) > 1 /\ UNCHANGED versions
    BY DEF SearchBlock, At
  <1>2. /\ f \in Seq(Byte) /\ Len(f) \in Nat /\ ed \in EditStates /\ ed.pos \in Nat
        /\ ed.need \in Int /\ ed.goal \in Goals /\ PieceCount(f) \in Nat
    BY AloneIs, CutsAre
  <1>3. Target(ed.goal) \in Nat
    <2>1. Target(ed.goal) \in 0 .. SizeMax
      BY <1>2, TargetType
    <2> QED
      BY <2>1
  <1>4. /\ ed.text = ed.req.text /\ ~Is({"insertAt"}) /\ SearchInv(f)
        /\ 0 < ed.req.first /\ ed.req.first <= ed.req.last
    BY <1>1, LookingFor
  <1>5. ed.need = Target(ed.goal) - 1 - NewlinesBefore(f, ed.pos)
    BY <1>4 DEF SearchInv
  <1>6. NewlinesBefore(f, ed.pos) \in Nat
    BY <1>2, CountGrows
  <1>7. PICK bytes \in Got(ed.fd, ed.pos, Block) :
           LET newlines == Cardinality(NewlinesIn(bytes, 0, Len(bytes)))
           IN  \/ \E p \in NthNewline(bytes, ed.need) : Found(ed.pos + p)
               \/ /\ newlines < ed.need
                  /\ ed' = [ed EXCEPT !.pos = @ + Len(bytes), !.need = @ - newlines]
    BY DEF SearchBlock
  <1>8. /\ bytes \in Seq(Byte) /\ Len(bytes) \in Nat /\ ed.pos + Len(bytes) <= Len(f)
        /\ \A m \in 0 .. Len(bytes) :
              /\ NewlinesBefore(f, ed.pos + m) =
                     NewlinesBefore(f, ed.pos) + NewlinesBefore(bytes, m)
              /\ NewlinesBefore(bytes, m) \in Nat
        /\ \A p \in 1 .. Len(bytes) : bytes[p] = f[ed.pos + p]
    BY <1>1, BlockRead
  <1>9. ASSUME NEW p \in NthNewline(bytes, ed.need), Found(ed.pos + p)
        PROVE  Right(f)
    <2>1. p \in 1 .. Len(bytes) /\ bytes[p] = Nl /\ NewlinesBefore(bytes, p) = ed.need
      BY <1>8, FirstNewlines DEF NthNewline
    <2>2. ed.pos + p \in 1 .. Len(f) /\ f[ed.pos + p] = Nl
      BY <1>2, <1>8, <2>1
    <2>3. p \in 0 .. Len(bytes)
      BY <2>1
    <2>4. NewlinesBefore(f, ed.pos + p) = NewlinesBefore(f, ed.pos) + ed.need
      BY <1>8, <2>1, <2>3
    <2>5. NewlinesBefore(f, ed.pos + p) = Target(ed.goal) - 1
      BY <1>2, <1>3, <1>5, <1>6, <2>4
    <2>6. Target(ed.goal) - 1 \in 1 .. PieceCount(f) - 1 /\ Cut(f, Target(ed.goal) - 1) = ed.pos + p
      BY <1>2, <2>2, <2>5, CutAtNewline
    <2>7. Target(ed.goal) \in 1 .. PieceCount(f)
      BY <1>2, <1>3, <2>6
    <2> QED
      BY <1>1, <1>9, <2>6, <2>7, FoundExact
  <1>10. ASSUME Cardinality(NewlinesIn(bytes, 0, Len(bytes))) < ed.need,
                ed' = [ed EXCEPT !.pos = @ + Len(bytes),
                                 !.need = @ - Cardinality(NewlinesIn(bytes, 0, Len(bytes)))]
         PROVE  Right(f)
    <2> DEFINE k == NewlinesBefore(bytes, Len(bytes))
    <2>1. k < ed.need /\ ed' = [ed EXCEPT !.pos = @ + Len(bytes), !.need = @ - k]
      BY <1>10 DEF NewlinesBefore
    <2>2. Len(bytes) \in 0 .. Len(bytes)
      BY <1>8
    <2>3. k \in Nat /\ NewlinesBefore(f, ed.pos + Len(bytes)) = NewlinesBefore(f, ed.pos) + k
      BY <1>8, <2>2
    <2> HIDE DEF k
    <2>4. /\ ed'.pos = ed.pos + Len(bytes) /\ ed'.need = ed.need - k
          /\ ed'.pc = "search" /\ ed'.goal = ed.goal /\ ed'.req = ed.req /\ ed'.text = ed.text
          /\ ed'.start = ed.start /\ ed'.size = ed.size
      BY <1>1, <1>2, <2>1 DEF EditStates
    <2>5. ed'.need >= 1
      BY <1>2, <2>1, <2>3, <2>4
    <2>6. ed'.need = Target(ed.goal) - 1 - NewlinesBefore(f, ed'.pos)
      <3>1. ed.need - k = Target(ed.goal) - 1 - (NewlinesBefore(f, ed.pos) + k)
        BY <1>3, <1>5, <1>6, <2>3
      <3> QED
        BY <2>3, <2>4, <3>1
    <2>7. Target(ed.goal)' = Target(ed.goal)
      BY <2>4 DEF Target, Succ
    <2>8. FirstFound(f)' = FirstFound(f)
      BY <2>4 DEF FirstFound, Is
    <2>9. SearchInv(f)'
      BY <1>4, <1>8, <2>4, <2>5, <2>6, <2>7, <2>8 DEF SearchInv, Is
    <2>10. versions' = <<f>> /\ versions'[1] = f /\ Len(f) < SizeMax
      BY <1>1, AloneIs DEF Alone
    <2>11. ExactInv'
      BY <1>4, <2>4, <2>9, <2>10 DEF ExactInv, Is, Rewriting
    <2> QED
      BY <2>4, <2>10, <2>11 DEF Right
  <1> QED
    BY <1>7, <1>9, <1>10

(* A search that is at the end of the file has not missed its line.          *)
LEMMA SearchEndsExact ==
    ASSUME NEW f, Alone(f), SearchEnds
    PROVE  Right(f)
  <1>1. ed.pc = "search" /\ UNCHANGED versions
    BY DEF SearchEnds, At
  <1>2. /\ f \in Seq(Byte) /\ Len(f) \in Nat /\ ed.pos \in Nat /\ ed.need \in Int
        /\ PieceCount(f) \in Nat \ {0} /\ PieceCount(f) = NewlinesBefore(f, Len(f)) + 1
        /\ Cut(f, 0) = 0 /\ ed.goal \in Goals /\ ed \in EditStates /\ Len(versions[ed.fd]) = Len(f)
    BY <1>1, AloneIs, CutsAre DEF HasFile
  <1>3. CASE Target(ed.goal) = 0 /\ NotFound(ed)
    BY <1>1, <1>2, <1>3, NotThereExact
  <1>4. CASE Target(ed.goal) = 1 /\ Found(0)
    <2>1. Target(ed.goal) \in 1 .. PieceCount(f) /\ 0 = Cut(f, Target(ed.goal) - 1)
      BY <1>2, <1>4
    <2> QED
      BY <1>1, <1>4, <2>1, FoundExact
  <1>5. CASE Target(ed.goal) > 1 /\ AtEnd(ed.fd, ed.pos) /\ NotFound(ed)
    <2>1. SearchInv(f)
      BY <1>1, LookingFor
    <2>2. /\ ed.pos <= Len(f) /\ ed.need = Target(ed.goal) - 1 - NewlinesBefore(f, ed.pos)
          /\ ed.need >= 1
      BY <1>5, <2>1 DEF SearchInv
    <2>3. ed.pos = Len(f)
      BY <1>2, <1>5, <2>2 DEF AtEnd
    <2>4. Target(ed.goal) \in Nat
      <3>1. Target(ed.goal) \in 0 .. SizeMax
        BY <1>2, TargetType
      <3> QED
        BY <3>1
    <2>5. ed.need = Target(ed.goal) - 1 - (PieceCount(f) - 1)
      <3>1. NewlinesBefore(f, ed.pos) = PieceCount(f) - 1
        <4>1. NewlinesBefore(f, Len(f)) \in Nat
          BY <1>2, CountGrows
        <4> QED
          BY <1>2, <2>3, <4>1
      <3> QED
        BY <2>2, <3>1
    <2>6. Target(ed.goal) > PieceCount(f)
      BY <1>2, <2>2, <2>4, <2>5
    <2>7. Target(ed.goal) \notin 1 .. PieceCount(f)
      BY <1>2, <2>4, <2>6
    <2> QED
      BY <1>1, <1>5, <2>7, NotThereExact
  <1> QED
    BY <1>3, <1>4, <1>5 DEF SearchEnds

(* The range up to the end of the file is the one asked for.                 *)
LEMMA LastSizeExact ==
    ASSUME NEW f, Alone(f), LastSize
    PROVE  Right(f)
  <1> DEFINE n == PieceCount(f)
  <1>1. /\ ed.pc = "lastSize" /\ UNCHANGED versions /\ ed \in EditStates
        /\ Len(versions[ed.fd]) = Len(f) /\ f \in Seq(Byte) /\ Len(f) \in Nat
        /\ n \in Nat \ {0} /\ Cut(f, n) = Len(f) /\ ed.req.first \in Nat
        /\ ed.req.api # "deleteLines" => ed.req.last = ed.req.first
    BY AloneIs, CutsAre DEF LastSize, At, HasFile
  <1>2. /\ ed.text = ed.req.text /\ ~Is({"insertAt"}) /\ FirstFound(f)
        /\ 0 < ed.req.first /\ ed.req.first <= ed.req.last
        /\ Is({"insertAfterLine", "deleteLines"}) /\ ed.req.last = n
    BY <1>1, LookingFor
  <1>3. /\ ed'.pc = "rewrite" /\ ed'.req = ed.req /\ ed'.text = ed.req.text
        /\ ed'.start = (IF Is({"insertAfterLine"}) THEN Len(f) ELSE ed.start)
        /\ ed'.end = Len(f)
    BY <1>1, <1>2 DEF LastSize, RewriteFrom, EditStates
  <1>4. ed.req.first \in 1 .. n /\ ed.req.last \in 1 .. n
    BY <1>1, <1>2
  <1>5. Editable(f, ed.req)
    BY <1>2, <1>4 DEF Editable, Is
  <1>6. CASE Is({"insertAfterLine"})
    <2>1. ed.req.first = n
      BY <1>1, <1>2, <1>6 DEF Is
    <2>2. From(f, ed.req) = Len(f) /\ To(f, ed.req) = Len(f) /\ By(f, ed.req) = ed.req.text
      BY <1>1, <1>2, <1>6, <2>1 DEF From, To, By, Is
    <2> QED
      BY <1>1, <1>3, <1>5, <1>6, <2>2, RewriteBegun
  <1>7. CASE Is({"deleteLines"})
    <2>1. ed.start = Cut(f, ed.req.first - 1) /\ ~Is({"insertAfterLine"})
      BY <1>2, <1>7 DEF FirstFound, Is
    <2>2. /\ From(f, ed.req) = ed.start /\ To(f, ed.req) = Len(f)
          /\ By(f, ed.req) = ed.req.text
      BY <1>1, <1>2, <1>7, <2>1 DEF From, To, By, Is
    <2> QED
      BY <1>1, <1>3, <1>5, <2>1, <2>2, RewriteBegun
  <1> QED
    BY <1>2, <1>6, <1>7 DEF Is

(* The newline of the replaced line is kept, if it has one.                  *)
LEMMA PeekExact ==
    ASSUME NEW f, Alone(f), PeekOpen \/ PeekRead
    PROVE  Right(f)
  <1>1. /\ ed.pc \in {"peek", "peekRead"} /\ UNCHANGED versions /\ ed \in EditStates
        /\ f \in Seq(Byte) /\ Len(f) \in Nat /\ versions[1] = f /\ Present = 1 /\ FileTypes
        /\ ed.start \in Nat /\ ed.end \in Nat /\ ed.fd = 1
    BY AloneIs DEF PeekOpen, PeekRead, At, HasFile, Alone
  <1>2. /\ ed.text = ed.req.text /\ ~Is({"insertAt"}) /\ Is({"replaceLine"})
        /\ RangeFound(f) /\ ed.start < ed.end
        /\ 0 < ed.req.first /\ ed.req.first <= ed.req.last
    BY <1>1, LookingFor
  <1>3. CASE PeekOpen
    <2>1. /\ ed'.pc = "peekRead" /\ ed'.req = ed.req /\ ed'.text = ed.text
          /\ ed'.start = ed.start /\ ed'.end = ed.end
      BY <1>1, <1>3 DEF PeekOpen, EditStates
    <2>2. RangeFound(f)'
      BY <1>2, <2>1 DEF RangeFound, Is
    <2>3. versions' = <<f>> /\ versions'[1] = f /\ Len(f) < SizeMax
      BY <1>1, AloneIs DEF Alone
    <2>4. ExactInv'
      BY <1>2, <2>1, <2>2, <2>3 DEF ExactInv, Is, Rewriting
    <2> QED
      BY <2>1, <2>3, <2>4 DEF Right
  <1>4. CASE PeekRead
    <2>1. /\ Editable(f, ed.req) /\ ed.start = From(f, ed.req) /\ ed.end = To(f, ed.req)
          /\ ed.req.api = "replaceLine" /\ ed.req.last = ed.req.first
      BY <1>2, AloneIs DEF RangeFound, Is
    <2>2. ed.end = Cut(f, ed.req.first) /\ ed.req.first \in 1 .. PieceCount(f)
      BY <2>1 DEF To, Editable
    <2>3. ed.end \in 1 .. Len(f)
      <3>1. ed.req.first \in 0 .. PieceCount(f)
        BY <2>2, CutsAre
      <3>2. ed.end \in 0 .. Len(f)
        BY <1>1, <2>2, <3>1, CutsAre
      <3> QED
        BY <1>1, <1>2, <3>2
    <2>4. ~AtEnd(ed.fd, ed.end - 1)
      BY <1>1, <2>3 DEF AtEnd
    <2>5. PICK byte \in Got(ed.fd, ed.end - 1, 1) :
             ed' = [ed EXCEPT !.pc = "rewrite",
                              !.text = IF byte = <<Nl>> THEN @ \o <<Nl>> ELSE @]
      BY <1>4, <2>4 DEF PeekRead
    <2>6. /\ byte \in Seq(Byte) /\ Len(byte) = 1 /\ byte[1] = f[ed.end]
      <3> DEFINE d == ed.end - 1
      <3>1. d \in Nat /\ d + 1 = ed.end /\ d + 1 <= Len(f) /\ ed.fd \in 1 .. Present /\ 1 \in Nat
        BY <1>1, <2>3
      <3>2. byte \in Got(ed.fd, d, 1)
        OBVIOUS
      <3> HIDE DEF d
      <3>3. /\ byte \in Seq(Byte) /\ Len(byte) \in 1 .. 1
            /\ byte = SubSeq(versions[ed.fd], d + 1, d + Len(byte))
        BY <1>1, <3>1, <3>2, GotBytes
      <3>4. Len(byte) = 1
        BY <3>3
      <3>5. byte = SubSeq(f, d + 1, d + 1)
        BY <1>1, <3>3, <3>4
      <3>6. SubSeq(f, d + 1, d + 1)[1] = f[d + 1]
        <4>1. d + 1 \in Nat /\ d <= d + 1 /\ 1 \in 1 .. (d + 1) - d
          BY <3>1
        <4> QED
          BY <1>1, <3>1, <4>1, PartIs
      <3> QED
        BY <3>1, <3>3, <3>4, <3>5, <3>6
    <2>7. byte = <<Nl>> <=> f[ed.end] = Nl
      <3>1. byte = <<byte[1]>>
        BY <2>6
      <3> QED
        BY <2>6, <3>1
    <2>8. ed'.text = By(f, ed.req)
      <3>1. ed'.text = IF f[ed.end] = Nl THEN ed.req.text \o <<Nl>> ELSE ed.req.text
        BY <1>1, <1>2, <2>5, <2>7 DEF EditStates
      <3> QED
        BY <2>1, <2>2, <3>1 DEF By
    <2>9. /\ ed'.pc = "rewrite" /\ ed'.req = ed.req /\ ed'.start = ed.start /\ ed'.end = ed.end
      BY <1>1, <2>5 DEF EditStates
    <2> QED
      BY <1>1, <2>1, <2>8, <2>9, RewriteBegun
  <1> QED
    BY <1>3, <1>4

(* Lines that are there give a range of the file.                            *)
LEMMA RangeThere ==
    ASSUME NEW f \in Seq(Byte), NEW e \in EditRequests, Editable(f, e)
    PROVE  From(f, e) <= To(f, e) /\ To(f, e) <= Len(f)
  <1> DEFINE n == PieceCount(f)
  <1>1. /\ e.api \in EditApis /\ e.first \in Nat /\ e.last \in Nat
        /\ e.api # "deleteLines" => e.last = e.first
    BY SizeMaxAssumption DEF EditRequests
  <1>2. /\ n \in Nat /\ Len(f) \in Nat /\ \A i \in 0 .. n : Cut(f, i) \in 0 .. Len(f)
    BY CutsAre
  <1>3. CASE e.api = "insertAt"
    BY <1>1, <1>2, <1>3 DEF Editable, From, To
  <1>4. CASE e.api # "insertAt"
    <2>1. e.first \in 1 .. n /\ e.last \in 1 .. n /\ e.first <= e.last
      BY <1>4 DEF Editable
    <2>2. /\ e.first - 1 \in 0 .. n /\ e.first \in 0 .. n /\ e.last \in 0 .. n
          /\ e.first - 1 <= e.last
      BY <1>2, <2>1
    <2>3. /\ Cut(f, e.first - 1) \in 0 .. Len(f) /\ Cut(f, e.first) \in 0 .. Len(f)
          /\ Cut(f, e.last) \in 0 .. Len(f)
      BY <1>2, <2>2
    <2>4. Cut(f, e.first - 1) <= Cut(f, e.last)
      BY <2>2, CutsGrow
    <2>5. CASE e.api = "insertAfterLine"
      <3>1. From(f, e) = Cut(f, e.first) /\ To(f, e) = Cut(f, e.first)
        BY <1>1, <2>5 DEF From, To
      <3> QED
        BY <1>2, <2>3, <3>1
    <2>6. CASE e.api = "insertBeforeLine"
      <3>1. From(f, e) = Cut(f, e.first - 1) /\ To(f, e) = Cut(f, e.first - 1)
        BY <2>6 DEF From, To
      <3> QED
        BY <1>2, <2>3, <3>1
    <2>7. CASE e.api \in {"deleteLines", "replaceLine"}
      <3>1. From(f, e) = Cut(f, e.first - 1) /\ To(f, e) = Cut(f, e.last)
        BY <2>7 DEF From, To
      <3> QED
        BY <1>2, <2>3, <2>4, <3>1
    <2> QED
      BY <1>1, <1>4, <2>5, <2>6, <2>7 DEF EditApis
  <1> QED
    BY <1>3, <1>4

(* What is known once the offsets are found.                                 *)
LEMMA InRewrite ==
    ASSUME NEW f, Alone(f), ed.pc \in {"rewrite", "range", "create"} \/ Rewriting
    PROVE  /\ Is({"insertAt"}) \/ Editable(f, ed.req)
           /\ ed.start = From(f, ed.req) /\ ed.end = To(f, ed.req) /\ ed.text = By(f, ed.req)
           /\ ed.pc = "create" \/ Rewriting => Editable(f, ed.req) /\ ed.size = Len(f)
           /\ ed.pc \in {"close", "rename"} => temp = Splice(f, ed.start, ed.end, ed.text)
  <1>1. ~ed.failed /\ versions # <<>> /\ versions[1] = f
    BY AloneIs DEF Alone, Exists
  <1> QED
    BY <1>1 DEF Alone, ExactInv, RangeFound

(* The rewriting goes on with the range and the text it has.                 *)
LEMMA RewriteGoes ==
    ASSUME NEW f, Alone(f), ed.pc \in {"rewrite", "range", "create"} \/ Rewriting,
           UNCHANGED versions,
           ed'.req = ed.req, ed'.start = ed.start, ed'.end = ed.end, ed'.text = ed.text,
           ed'.pc \in {"range", "create", "head", "seek", "tail", "close", "rename"},
           ed'.pc # "range" => Editable(f, ed.req) /\ ed'.size = Len(f),
           ed'.pc \in {"close", "rename"} => temp' = Splice(f, ed.start, ed.end, ed.text)
    PROVE  Right(f)
  <1>1. versions' = <<f>> /\ versions'[1] = f /\ Len(f) < SizeMax
    BY AloneIs DEF Alone
  <1>2. RangeFound(f)' /\ ed.text = By(f, ed.req)
    BY InRewrite DEF RangeFound, Is
  <1>3. ed'.pc = "create" \/ Rewriting' => ed'.pc # "range"
    BY DEF Rewriting
  <1>4. ExactInv'
    BY <1>1, <1>2, <1>3 DEF ExactInv
  <1> QED
    BY <1>1, <1>4 DEF Right

(* The checks before the rewriting let every range of f pass, and none       *)
(* else.                                                                     *)
LEMMA CheckExact ==
    ASSUME NEW f, Alone(f), RewriteOpen \/ CheckRange \/ CreateTemp
    PROVE  Right(f)
  <1>1. /\ ed.pc \in {"rewrite", "range", "create"} /\ UNCHANGED versions /\ ed \in EditStates
        /\ versions[1] = f /\ f \in Seq(Byte) /\ Len(f) \in Nat /\ ed.req \in EditRequests
        /\ ed.req.first \in Nat
    BY AloneIs DEF RewriteOpen, CheckRange, CreateTemp, At
  <1>2. /\ Is({"insertAt"}) \/ Editable(f, ed.req)
        /\ ed.start = From(f, ed.req) /\ ed.end = To(f, ed.req)
        /\ ed.pc = "create" => Editable(f, ed.req) /\ ed.size = Len(f)
    BY <1>1, InRewrite
  <1>3. CASE RewriteOpen
    <2>1. /\ ed'.req = ed.req /\ ed'.start = ed.start /\ ed'.end = ed.end /\ ed'.text = ed.text
          /\ ed'.pc = "range"
      BY <1>1, <1>3 DEF RewriteOpen, EditStates
    <2> QED
      BY <1>1, <2>1, RewriteGoes
  <1>4. CASE CheckRange
    <2>1. ed.pc = "range" /\ ed.fd = 1 /\ Len(versions[ed.fd]) = Len(f)
      BY <1>1, <1>4, AloneIs DEF CheckRange, At, HasFile
    <2>2. InRange <=> Editable(f, ed.req)
      <3>1. CASE Is({"insertAt"})
        <4>1. ed.start = ed.req.first /\ ed.end = ed.req.first
          BY <1>2, <3>1 DEF From, To, Is
        <4> QED
          BY <1>1, <2>1, <3>1, <4>1 DEF InRange, Editable, Is
      <3>2. CASE Editable(f, ed.req)
        BY <1>1, <1>2, <2>1, <3>2, RangeThere DEF InRange
      <3> QED
        BY <1>2, <3>1, <3>2
    <2>3. CASE ~InRange /\ Refuse
      BY <1>1, <2>2, <2>3, RefusedIs
    <2>4. CASE InRange /\ ed' = [ed EXCEPT !.pc = "create", !.size = Len(versions[ed.fd])]
      <3>1. /\ ed'.req = ed.req /\ ed'.start = ed.start /\ ed'.end = ed.end /\ ed'.text = ed.text
            /\ ed'.pc = "create" /\ ed'.size = Len(f)
        BY <1>1, <2>1, <2>4 DEF EditStates
      <3> QED
        BY <1>1, <2>2, <2>4, <3>1, RewriteGoes
    <2> QED
      BY <1>4, <2>3, <2>4 DEF CheckRange
  <1>5. CASE CreateTemp
    <2>1. /\ ed'.req = ed.req /\ ed'.start = ed.start /\ ed'.end = ed.end /\ ed'.text = ed.text
          /\ ed'.pc = "head" /\ ed'.size = ed.size /\ ed.pc = "create"
      BY <1>1, <1>5 DEF CreateTemp, At, EditStates
    <2> QED
      BY <1>1, <1>2, <2>1, RewriteGoes
  <1> QED
    BY <1>3, <1>4, <1>5

(* The copy: the file, with the text in it.                                  *)
LEMMA CopyExact ==
    ASSUME NEW f, Alone(f),
           CopyHead \/ PutText \/ SeekTail \/ CopyTail \/ TailDone \/ CloseBoth
    PROVE  Right(f)
  <1>1. /\ Rewriting /\ UNCHANGED versions /\ ed \in EditStates
        /\ versions[1] = f /\ f \in Seq(Byte) /\ Len(f) \in Nat /\ ed.fd = 1
        /\ ed.start \in Nat /\ ed.end \in Nat /\ ed.pos \in Nat /\ Len(versions[ed.fd]) = Len(f)
    <2>1. Rewriting /\ UNCHANGED versions
      BY DEF CopyHead, PutText, SeekTail, CopyTail, TailDone, CloseBoth, At, Rewriting
    <2> QED
      BY <2>1, AloneIs DEF HasFile
  <1>2. /\ Editable(f, ed.req) /\ ed.size = Len(f)
        /\ ed.pc \in {"close", "rename"} => temp = Splice(f, ed.start, ed.end, ed.text)
    BY <1>1, InRewrite
  <1>3. "truncated" \notin meanwhile /\ EditInv /\ EditTypes
    BY DEF Alone
  <1>4. ed.start <= ed.end /\ ed.end <= Len(f)
    BY <1>1, <1>2, <1>3 DEF EditInv
  <1>5. ASSUME NEW pos, ed' = [ed EXCEPT !.pos = pos], ed.pc \in {"head", "tail"}
        PROVE  Right(f)
    <2>1. /\ ed'.req = ed.req /\ ed'.start = ed.start /\ ed'.end = ed.end /\ ed'.text = ed.text
          /\ ed'.pc \in {"head", "tail"} /\ ed'.size = ed.size
      BY <1>1, <1>5 DEF EditStates
    <2> QED
      BY <1>1, <1>2, <2>1, RewriteGoes
  <1>6. CASE CopyHead \/ CopyTail
    BY <1>5, <1>6 DEF CopyHead, CopyTail, At
  <1>7. CASE PutText
    <2>1. /\ ed'.req = ed.req /\ ed'.start = ed.start /\ ed'.end = ed.end /\ ed'.text = ed.text
          /\ ed'.pc = (IF ed.end < ed.size THEN "seek" ELSE "close") /\ ed'.size = ed.size
      BY <1>1, <1>7 DEF PutText, EditStates
    <2>2. ASSUME ed'.pc \in {"close", "rename"}
          PROVE  temp' = Splice(f, ed.start, ed.end, ed.text)
      <3>1. ed.end = Len(f)
        BY <1>1, <1>2, <1>4, <2>1, <2>2
      <3>2. temp = SubSeq(f, 1, ed.start)
        BY <1>1, <1>3, <1>7 DEF EditInv, PutText, At
      <3>3. temp' = SubSeq(f, 1, ed.start) \o ed.text
        BY <1>7, <3>2 DEF PutText
      <3>4. SubSeq(f, ed.end + 1, Len(f)) = <<>>
        BY <1>1, <3>1, SubSeqEmpty
      <3>5. ed.text \in Seq(Byte) /\ SubSeq(f, 1, ed.start) \in Seq(Byte)
        BY <1>1, <1>4 DEF EditStates
      <3>6. (SubSeq(f, 1, ed.start) \o ed.text) \o <<>> = SubSeq(f, 1, ed.start) \o ed.text
        <4>1. SubSeq(f, 1, ed.start) \o ed.text \in Seq(Byte)
          BY <3>5
        <4> QED
          BY <4>1, ConcatEmptySeq
      <3> QED
        BY <3>3, <3>4, <3>6 DEF Splice
    <2> QED
      BY <1>1, <1>2, <2>1, <2>2, RewriteGoes
  <1>8. CASE SeekTail
    <2>1. /\ ed'.req = ed.req /\ ed'.start = ed.start /\ ed'.end = ed.end /\ ed'.text = ed.text
          /\ ed'.pc = "tail" /\ ed'.size = ed.size
      BY <1>1, <1>8 DEF SeekTail, EditStates
    <2> QED
      BY <1>1, <1>2, <2>1, RewriteGoes
  <1>9. CASE TailDone
    <2>1. /\ ed'.req = ed.req /\ ed'.start = ed.start /\ ed'.end = ed.end /\ ed'.text = ed.text
          /\ ed'.pc = "close" /\ ed'.size = ed.size /\ temp' = temp
      BY <1>1, <1>9 DEF TailDone, EditStates
    <2>2. ed.pc = "tail" /\ ed.pos >= Len(f)
      BY <1>1, <1>9 DEF TailDone, At, AtEnd
    <2>3. ed.pos \in ed.end .. Len(f) /\ temp = Copied(ed.pos)
      BY <1>1, <1>3, <2>2 DEF EditInv
    <2>4. ed.pos = Len(f)
      BY <1>1, <2>2, <2>3
    <2>5. SubSeq(f, 1, Len(f)) = f
      BY <1>1, SubSeqFull
    <2>6. temp = Splice(f, ed.start, ed.end, ed.text)
      BY <1>1, <2>3, <2>4, <2>5 DEF Copied
    <2> QED
      BY <1>1, <1>2, <2>1, <2>6, RewriteGoes
  <1>10. CASE CloseBoth
    <2>1. /\ ed'.req = ed.req /\ ed'.start = ed.start /\ ed'.end = ed.end /\ ed'.text = ed.text
          /\ ed'.pc = "rename" /\ ed'.size = ed.size /\ temp' = temp /\ ed.pc = "close"
      BY <1>1, <1>10 DEF CloseBoth, At, EditStates
    <2> QED
      BY <1>1, <1>2, <2>1, RewriteGoes
  <1> QED
    BY <1>6, <1>7, <1>8, <1>9, <1>10

(* A second member of a sequence.                                            *)
LEMMA AppendTwo ==
    ASSUME NEW S, NEW a \in S, NEW b \in S
    PROVE  Append(<<a>>, b) = <<a, b>>
  <1> DEFINE one == <<a>>
             two == <<a, b>>
  <1>1. one \in Seq(S) /\ Len(one) = 1 /\ one[1] = a
    OBVIOUS
  <1>2. two \in Seq(S) /\ Len(two) = 2 /\ two[1] = a /\ two[2] = b
    OBVIOUS
  <1> HIDE DEF one, two
  <1>3. /\ Append(one, b) \in Seq(S) /\ Len(Append(one, b)) = Len(one) + 1
        /\ \A i \in 1 .. Len(one) : Append(one, b)[i] = one[i]
        /\ Append(one, b)[Len(one) + 1] = b
    <2>1. Append(one, b) \in Seq(S) /\ Len(Append(one, b)) = Len(one) + 1
      BY <1>1, AppendProperties
    <2>2. \A i \in 1 .. Len(one) : Append(one, b)[i] = one[i]
      BY <1>1, AppendProperties
    <2>3. Append(one, b)[Len(one) + 1] = b
      BY <1>1, AppendProperties
    <2> QED
      BY <2>1, <2>2, <2>3
  <1>4. \A i \in 1 .. 2 : Append(one, b)[i] = two[i]
    <2>1. \A i \in 1 .. 2 : i = 1 \/ i = 2
      OBVIOUS
    <2>2. 1 \in 1 .. Len(one) /\ Len(one) + 1 = 2
      BY <1>1
    <2> QED
      BY <1>1, <1>2, <1>3, <2>1, <2>2
  <1>5. Len(Append(one, b)) = 2
    BY <1>1, <1>3
  <1> QED
    BY <1>2, <1>3, <1>4, <1>5, SeqEqual DEF one, two

(* The file renamed into place is f with the edit made.                      *)
LEMMA RenameExact ==
    ASSUME NEW f, Alone(f), Rename
    PROVE  Right(f)
  <1>1. ed.pc = "rename" /\ Rewriting /\ ed \in EditStates
    BY AloneIs DEF Rename, At, Rewriting
  <1>2. /\ Editable(f, ed.req)
        /\ ed.start = From(f, ed.req) /\ ed.end = To(f, ed.req) /\ ed.text = By(f, ed.req)
        /\ temp = Splice(f, ed.start, ed.end, ed.text)
    BY <1>1, InRewrite
  <1>3. versions' = <<f, temp>>
    <2>1. f \in Seq(Byte) /\ temp \in Seq(Byte) /\ versions' = Append(<<f>>, temp)
      BY <1>1 DEF Rename, Alone, EditTypes
    <2> QED
      BY <2>1, AppendTwo
  <1>4. ed'.pc = "done" /\ ed'.answer = TRUE /\ ed'.req = ed.req
    BY <1>1 DEF Rename, Return, EditStates
  <1> QED
    BY <1>2, <1>3, <1>4 DEF Right, EditedRightly

(* A file nobody else is at is there and gets no shorter.                    *)
LEMMA NothingAmiss ==
    ASSUME NEW f, Alone(f)
    PROVE  ~OpenMissing /\ ~HeadCutShort
  <1>1. ~OpenMissing
    BY AloneIs DEF OpenMissing
  <1>2. ASSUME HeadCutShort PROVE FALSE
    <2>1. ed.pc = "head" /\ Rewriting /\ HasFile
      BY <1>2 DEF HeadCutShort, At, Rewriting, HasFile
    <2>2. /\ ed.fd = 1 /\ versions[1] = f /\ Len(f) \in Nat /\ ed.start \in Nat /\ ed.end \in Nat
          /\ ed.pos \in Nat
      BY <2>1, AloneIs
    <2>3. ed.size = Len(f)
      BY <2>1, InRewrite
    <2>4. ed.start <= ed.end /\ ed.end <= ed.size /\ ed.pos = Len(temp)
      BY <2>1 DEF Alone, EditInv
    <2> QED
      BY <1>2, <2>2, <2>3, <2>4 DEF HeadCutShort, AtEnd
  <1> QED
    BY <1>1, <1>2

(* A failed call is not forgotten.                                           *)
LEMMA AfterMoves ==
    ASSUME NEW e \in EditStates
    PROVE  /\ \A answer : Return(e, answer) => ed'.failed = e.failed
           /\ \A goal : Search(e, goal).failed = e.failed
           /\ \A end : EndsAt(e, end).failed = e.failed
           /\ \A start, end : RewriteFrom(e, start, end).failed = e.failed
           /\ NotFound(e) => ed'.failed = e.failed
  <1>1. /\ \A answer : Return(e, answer) => ed'.failed = e.failed
        /\ \A goal : Search(e, goal).failed = e.failed
        /\ \A end : EndsAt(e, end).failed = e.failed
        /\ \A start, end : RewriteFrom(e, start, end).failed = e.failed
    BY DEF Return, Search, EndsAt, RewriteFrom, EditStates
  <1>2. NotFound(e) => ed'.failed = e.failed
    BY <1>1 DEF NotFound
  <1> QED
    BY <1>1, <1>2

(* A failure is noted.                                                       *)
LEMMA FailuresShow ==
    ASSUME ed \in EditStates, SearchFails \/ CallFails
    PROVE  ed'.failed = TRUE
  <1>1. [ed EXCEPT !.failed = TRUE] \in EditStates /\ [ed EXCEPT !.failed = TRUE].failed = TRUE
    BY DEF EditStates
  <1>2. CASE SearchFails
    BY <1>1, <1>2, AfterMoves DEF SearchFails
  <1>3. CASE CallFails
    BY <1>1, <1>3, AfterMoves DEF CallFails, Fail
  <1> QED
    BY <1>2, <1>3

(* A failure stays noted.                                                    *)
LEMMA FailedStays ==
    ASSUME ed \in EditStates, EditStep
    PROVE  ed'.failed = ed.failed \/ ed'.failed = TRUE
  <1>1. ASSUME NEW e \in EditStates
        PROVE  /\ \A answer : Return(e, answer) => ed'.failed = e.failed
               /\ \A goal : Search(e, goal).failed = e.failed
               /\ \A end : EndsAt(e, end).failed = e.failed
               /\ \A start, end : RewriteFrom(e, start, end).failed = e.failed
               /\ NotFound(e) => ed'.failed = e.failed
    BY AfterMoves
  <1>2. Refuse => ed'.failed = ed.failed
    <2>1. ASSUME Refuse PROVE ed' = [ed EXCEPT !.pc = "done", !.answer = FALSE]
      BY <2>1 DEF Refuse, Return
    <2> QED
      BY <2>1 DEF EditStates
  <1>3. ASSUME NEW offset, Found(offset)
        PROVE  ed'.failed = ed.failed
    <2>1. CASE ed' = Search([ed EXCEPT !.start = offset], "next")
      BY <2>1 DEF Search, EditStates
    <2>2. CASE ed' = [ed EXCEPT !.pc = "lastSize"]
      BY <2>2 DEF EditStates
    <2> QED
      BY <1>1, <1>2, <1>3, <2>1, <2>2 DEF Found
  <1>6. CASE Ask
    <2>1. CASE ed' = [ed EXCEPT !.pc = "open"]
      BY <2>1 DEF EditStates
    <2> QED
      <3>1. Refuse \/ (\E start, end : ed' = RewriteFrom(ed, start, end)) \/ ed' = [ed EXCEPT !.pc = "open"]
        BY <1>6 DEF Ask
      <3>2. ASSUME NEW start, NEW end, ed' = RewriteFrom(ed, start, end)
            PROVE  ed'.failed = ed.failed
        BY <1>1, <3>2
      <3> QED
        BY <1>2, <2>1, <3>1, <3>2
  <1>7. CASE Open \/ Size
    BY <1>7 DEF Open, Size, Search, EditStates
  <1>8. CASE SearchBlock
    <2>1. PICK bytes \in Got(ed.fd, ed.pos, Block) :
             LET newlines == Cardinality(NewlinesIn(bytes, 0, Len(bytes)))
             IN  \/ \E p \in NthNewline(bytes, ed.need) : Found(ed.pos + p)
                 \/ /\ newlines < ed.need
                    /\ ed' = [ed EXCEPT !.pos = @ + Len(bytes), !.need = @ - newlines]
      BY <1>8 DEF SearchBlock
    <2>2. ASSUME NEW pos, NEW need, ed' = [ed EXCEPT !.pos = pos, !.need = need]
          PROVE  ed'.failed = ed.failed
      BY <2>2 DEF EditStates
    <2> QED
      BY <1>3, <2>1, <2>2
  <1>9. CASE SearchEnds
    BY <1>1, <1>3, <1>9 DEF SearchEnds
  <1>10. CASE LastSize \/ PeekOpen
    BY <1>10 DEF LastSize, PeekOpen, RewriteFrom, EditStates
  <1>11. CASE PeekRead
    <2>1. ASSUME NEW text, ed' = [ed EXCEPT !.pc = "rewrite", !.text = text]
          PROVE  ed'.failed = ed.failed
      BY <2>1 DEF EditStates
    <2> QED
      BY <1>1, <1>11, <2>1 DEF PeekRead, Refuse
  <1>12. CASE RewriteOpen \/ CreateTemp \/ SeekTail \/ TailDone \/ CloseBoth \/ PutText
    BY <1>12 DEF RewriteOpen, CreateTemp, SeekTail, TailDone, CloseBoth, PutText, EditStates
  <1>13. CASE OpenMissing \/ HeadCutShort \/ Rename
    BY <1>1, <1>13 DEF OpenMissing, HeadCutShort, Rename, Refuse, Fail
  <1>14. CASE CheckRange
    <2>1. CASE ed' = [ed EXCEPT !.pc = "create", !.size = Len(versions[ed.fd])]
      BY <2>1 DEF EditStates
    <2> QED
      BY <1>1, <1>14, <2>1 DEF CheckRange, Refuse
  <1>15. CASE CopyHead \/ CopyTail
    <2>1. ASSUME NEW pos, ed' = [ed EXCEPT !.pos = pos]
          PROVE  ed'.failed = ed.failed
      BY <2>1 DEF EditStates
    <2> QED
      BY <1>15, <2>1 DEF CopyHead, CopyTail
  <1> QED
    BY <1>6, <1>7, <1>8, <1>9, <1>10, <1>11, <1>12, <1>13, <1>14, <1>15, FailuresShow DEF EditStep

(* An edit of a file that is not there is refused.                           *)
LEMMA NoFileExact ==
    ASSUME EditTypes, EditInv, EditStep, versions = <<>>, ed.pc # "idle"
    PROVE  versions' = <<>> /\ (ed'.pc = "done" => ~ed'.answer)
  <1>1. ed \in EditStates
    BY EditKnown
  <1>2. ~HasFile
    <2>1. Present = 0
      BY DEF Present
    <2> QED
      BY <2>1 DEF EditInv
  <1>3. Ask \/ OpenMissing \/ CallFails
    BY <1>2 DEF EditStep, At, Open, Size, SearchBlock, SearchEnds, SearchFails, LastSize, PeekOpen,
       PeekRead, RewriteOpen, CheckRange, CreateTemp, CopyHead, HeadCutShort, PutText, SeekTail,
       CopyTail, TailDone, CloseBoth, Rename, HasFile, Rewriting, Exists
  <1>4. versions' = <<>>
    BY <1>3 DEF Ask, OpenMissing, CallFails
  <1>5. CASE OpenMissing
    BY <1>1, <1>5 DEF OpenMissing, Refuse, Return, EditStates
  <1>6. CASE Ask
    BY <1>1, <1>6 DEF Ask, Refuse, Return, RewriteFrom, EditStates
  <1>7. CASE CallFails
    BY <1>1, <1>7 DEF CallFails, Fail, Return, EditStates
  <1> QED
    BY <1>3, <1>4, <1>5, <1>6, <1>7

(* Every step of an edit that is alone is right, or is a failure.            *)
LEMMA StepExact ==
    ASSUME NEW f, Alone(f), EditStep
    PROVE  Right(f) \/ ed'.failed
  <1>1. CASE SearchFails \/ CallFails
    BY <1>1, FailuresShow, AloneIs
  <1>2. ~OpenMissing /\ ~HeadCutShort
    BY NothingAmiss
  <1> QED
    BY <1>1, <1>2, AskExact, OpenExact, SizeExact, SearchBlockExact, SearchEndsExact, LastSizeExact,
       PeekExact, CheckExact, CopyExact, RenameExact DEF EditStep

(* Every step of an edit keeps what holds while nobody interferes.           *)
LEMMA EditKeepsExact ==
    ASSUME IInv, Exact, EditStep, UNCHANGED meanwhile
    PROVE  Exact'
  <1>1. EditTypes /\ EditInv /\ FileTypes
    BY DEF IInv
  <1>2. ed.pc # "idle" /\ ed.pc # "done"
    BY DEF EditStep, At, Ask, Open, Size, SearchBlock, SearchEnds, SearchFails, LastSize,
       PeekOpen, PeekRead, RewriteOpen, OpenMissing, CheckRange, CreateTemp, CopyHead,
       HeadCutShort, PutText, SeekTail, CopyTail, TailDone, CloseBoth, Rename, CallFails
  <1>3. ed \in EditStates
    BY <1>1, <1>2, EditKnown
  <1> SUFFICES ASSUME meanwhile = {} PROVE Exact'
    BY DEF Exact
  <1>4. ExactInv
    BY <1>2 DEF Exact
  <1>5. CASE ed'.failed = TRUE
    BY <1>5 DEF Exact, EditIsExact, ExactInv
  <1>6. CASE versions = <<>>
    BY <1>1, <1>2, <1>6, NoFileExact DEF Exact, EditIsExact, ExactInv
  <1>7. CASE versions # <<>> /\ ed'.failed # TRUE
    <2>1. ed.failed = FALSE
      BY <1>3, <1>7, FailedStays DEF EditStates
    <2>2. Present <= 1
      BY <1>1, <1>2 DEF EditInv
    <2> DEFINE f == versions[1]
               one == <<f>>
    <2>3. versions = one /\ f \in Seq(Byte)
      <3>1. versions \in Seq(Seq(Byte)) /\ Len(versions) = 1
        <4>1. versions \in Seq(Seq(Byte)) /\ versions # <<>> /\ Len(versions) <= 1
          BY <1>1, <1>7, <2>2 DEF FileTypes, Present
        <4>2. Len(versions) \in Nat /\ Len(versions) # 0
          BY <4>1, EmptySeq
        <4>3. ASSUME NEW n \in Nat, n # 0, n <= 1 PROVE n = 1
          BY <4>3
        <4>4. Len(versions) = 1
          BY <4>1, <4>2, <4>3, Zenon
        <4> QED
          BY <4>1, <4>4
      <3>2. f \in Seq(Byte)
        BY <3>1
      <3>3. one \in Seq(Seq(Byte)) /\ Len(one) = 1 /\ \A i \in 1 .. 1 : versions[i] = one[i]
        BY <3>2
      <3> HIDE DEF one, f
      <3> QED
        BY <3>1, <3>2, <3>3, SeqEqual
    <2> HIDE DEF f
    <2>4. Alone(f)
      BY <1>1, <1>2, <1>4, <2>1, <2>3 DEF Alone
    <2>5. Right(f)
      <3>1. Right(f) \/ ed'.failed
        BY <2>4, StepExact
      <3>2. ed'.failed = FALSE
        BY <1>3, <1>7, <2>1, FailedStays
      <3> QED
        BY <3>1, <3>2
    <2>6. ed.req \in EditRequests
      BY <1>3 DEF EditStates
    <2>7. CASE RefusedRightly(f)
      <3>1. versions' = <<f>> /\ versions'[1] = f /\ versions' # <<>>
        BY <2>7 DEF RefusedRightly
      <3>2. Edited(f, ed.req) = NotEdited
        BY <2>3, <2>6, <2>7, EditedIs DEF RefusedRightly
      <3>3. Edited(versions'[1], ed'.req).ok = FALSE /\ ed'.answer = FALSE
        BY <2>7, <3>1, <3>2 DEF RefusedRightly, NotEdited
      <3>4. EditIsExact'
        BY <3>1, <3>3 DEF EditIsExact
      <3> QED
        BY <2>7, <3>4 DEF Exact, RefusedRightly
    <2>8. CASE EditedRightly(f)
      <3> DEFINE new == Splice(f, From(f, ed.req), To(f, ed.req), By(f, ed.req))
      <3>1. versions' = <<f, new>> /\ versions'[1] = f /\ versions' # <<>>
        BY <2>8 DEF EditedRightly
      <3>2. Edited(f, ed.req) = EditedTo(new)
        BY <2>3, <2>6, <2>8, EditedIs DEF EditedRightly
      <3> HIDE DEF new
      <3>3. /\ Edited(versions'[1], ed'.req).ok = TRUE /\ Edited(versions'[1], ed'.req).text = new
            /\ ed'.answer = TRUE
        BY <2>8, <3>1, <3>2 DEF EditedRightly, EditedTo
      <3>4. EditIsExact'
        BY <3>1, <3>3 DEF EditIsExact
      <3> QED
        BY <2>8, <3>4 DEF Exact, EditedRightly
    <2> QED
      BY <2>5, <2>7, <2>8 DEF Right, Exact
  <1> QED
    BY <1>5, <1>6, <1>7

(* It holds at first.                                                        *)
LEMMA InitExact == Init => Exact
  <1> SUFFICES ASSUME Init PROVE Exact
    OBVIOUS
  <1>1. CASE ReadInit \/ WriterInit
    BY <1>1 DEF ReadInit, WriterInit, EditIdle, Exact
  <1>2. CASE EditInit
    <2>1. ed.pc = "ask" /\ ed.text = ed.req.text
      BY <1>2 DEF EditInit, EditBegins
    <2>2. CASE versions = <<>>
      BY <2>1, <2>2 DEF Exact, ExactInv
    <2>3. CASE \E f \in Initials : versions = <<f>>
      <3>1. Len(versions[1]) < SizeMax
        BY <2>3, SharingAssumption
      <3> QED
        BY <2>1, <3>1 DEF Exact, ExactInv, Rewriting
    <2>4. versions = <<>> \/ \E f \in Initials : versions = <<f>>
      <3>1. ed.pc # "idle"
        BY <2>1
      <3>2. ~WriterInit
        BY <3>1 DEF WriterInit, EditIdle
      <3> QED
        BY <3>2 DEF Init
    <2> QED
      BY <2>2, <2>3, <2>4
  <1> QED
    BY <1>1, <1>2 DEF Init

(* Every step of the system keeps it.                                        *)
LEMMA NextExact ==
    ASSUME IInv, Exact, [Next]_vars
    PROVE  Exact'
  <1>1. CASE OwnerEdits
    BY <1>1, EditKeepsExact DEF OwnerEdits
  <1>2. CASE OwnerReads
    <2>1. ed.pc = "idle" /\ ed' = ed
      BY <1>2, ReadsInFiles DEF OwnerReads, editVars
    <2> QED
      BY <2>1 DEF Exact
  <1>3. CASE OwnerWrites
    <2>1. ed.pc = "idle" /\ ed' = ed
      BY <1>3, WritesInFiles DEF OwnerWrites, editVars
    <2> QED
      BY <2>1 DEF Exact
  <1>4. CASE OthersDo
    <2>1. meanwhile' # {}
      BY <1>4, OthersInFiles
    <2> QED
      BY <2>1 DEF Exact
  <1>5. CASE UNCHANGED vars
    <2>1. UNCHANGED <<ed, temp, versions, meanwhile>>
      BY <1>5 DEF vars, fileVars, editVars
    <2>2. EditIsExact' = EditIsExact
      BY <2>1 DEF EditIsExact, EditReturned
    <2>3. ExactInv' = ExactInv
      BY <2>1 DEF ExactInv, SearchInv, RangeFound, FirstFound, Rewriting, Is, Target
    <2> QED
      BY <2>1, <2>2, <2>3 DEF Exact
  <1>6. OwnerEdits \/ OwnerReads \/ OwnerWrites \/ OthersDo \/ UNCHANGED vars
    BY NextKinds, SharingAssumption
  <1> QED
    BY <1>1, <1>2, <1>3, <1>4, <1>5, <1>6

(* ------------------- insertions into the buffer -------------------------- *)

(* What an insertion is to make of a file, as a splice at one cut.           *)
LEMMA InsertionIs ==
    ASSUME NEW f \in Seq(Byte), NEW e \in Insertions
    PROVE  LET There == IF e.api = "insertAt" THEN e.first <= Len(f)
                        ELSE e.first \in 1 .. PieceCount(f)
               at == CASE e.api = "insertAt" -> e.first
                       [] e.api = "insertBeforeLine" -> Cut(f, e.first - 1)
                       [] e.api = "insertAfterLine" -> Cut(f, e.first)
           IN  Edited(f, e) = IF There THEN EditedTo(Splice(f, at, at, e.text)) ELSE NotEdited
  <1> DEFINE There == IF e.api = "insertAt" THEN e.first <= Len(f)
                      ELSE e.first \in 1 .. PieceCount(f)
             at == CASE e.api = "insertAt" -> e.first
                     [] e.api = "insertBeforeLine" -> Cut(f, e.first - 1)
                     [] e.api = "insertAfterLine" -> Cut(f, e.first)
             r == [api |-> e.api, first |-> e.first, last |-> e.first, text |-> e.text]
  <1>1. /\ e.api \in {"insertAt", "insertBeforeLine", "insertAfterLine"}
        /\ e.first \in 0 .. SizeMax /\ e.text \in Seq(Byte)
    BY WriterAssumption, SharingAssumption, TextBytes DEF Insertions
  <1>2. /\ r \in EditRequests
        /\ r.api = e.api /\ r.first = e.first /\ r.last = e.first /\ r.text = e.text
    <2>1. r \in [api : EditApis, first : 0 .. SizeMax, last : 0 .. SizeMax, text : Seq(Byte)]
      BY <1>1 DEF EditApis
    <2>2. r.api = e.api /\ r.first = e.first /\ r.last = e.first /\ r.text = e.text
      OBVIOUS
    <2> HIDE DEF r
    <2> QED
      BY <1>1, <2>1, <2>2 DEF EditRequests
  <1> HIDE DEF r
  <1>3. Edited(f, e) = Edited(f, r)
    <2>1. e.api # "deleteLines" /\ e.api # "replaceLine"
      BY <1>1
    <2> QED
      BY <1>2, <2>1 DEF Edited
  <1>4. Edited(f, r) = IF Editable(f, r)
                       THEN EditedTo(Splice(f, From(f, r), To(f, r), By(f, r))) ELSE NotEdited
    BY <1>2, EditedIs
  <1>5. Editable(f, r) <=> There
    <2>1. e.first <= e.first
      BY <1>1
    <2> QED
      BY <1>1, <1>2, <2>1 DEF Editable
  <1>6. From(f, r) = at /\ To(f, r) = at
    BY <1>1, <1>2 DEF From, To
  <1>7. By(f, r) = e.text
    BY <1>1, <1>2 DEF By
  <1> HIDE DEF There, at
  <1>8. Edited(f, e) = IF There THEN EditedTo(Splice(f, at, at, e.text)) ELSE NotEdited
    BY <1>3, <1>4, <1>5, <1>6, <1>7
  <1> QED
    BY <1>8 DEF There, at

(* Where FindLineStart finds a line of the buffer.                           *)
LEMMA StartIs ==
    ASSUME w \in WriterStates, NEW n \in Int
    PROVE  LET f == w.buffer
           IN  FindLineStart(n) = IF n \in 1 .. PieceCount(f) THEN {Cut(f, n - 1)} ELSE {}
  <1> DEFINE f == w.buffer
  <1>1. f \in Seq(Byte)
    BY DEF WriterStates
  <1>2. PieceCount(f) \in Nat \ {0} /\ Cut(f, 0) = 0
    BY <1>1, CutsAre
  <1>3. n - 1 \in Int
    OBVIOUS
  <1>4. NthNewline(f, n - 1) = IF n - 1 \in 1 .. PieceCount(f) - 1 THEN {Cut(f, n - 1)} ELSE {}
    BY <1>1, <1>3, NthIs
  <1>5. CASE n = 1
    <2>1. n \in 1 .. PieceCount(f) /\ n - 1 = 0
      BY <1>2, <1>5
    <2> QED
      BY <1>2, <1>5, <2>1 DEF FindLineStart
  <1>6. CASE n # 1
    <2>1. n - 1 \in 1 .. PieceCount(f) - 1 <=> n \in 1 .. PieceCount(f)
      BY <1>2, <1>6
    <2> QED
      BY <1>4, <1>6, <2>1 DEF FindLineStart
  <1> QED
    BY <1>5, <1>6

(* What the calls on the buffer leave in it.                                 *)
LEMMA BufferBecomes ==
    ASSUME w \in WriterStates
    PROVE  /\ With(w) => w'.buffer = w.buffer
           /\ \A offset, text : With(Inserted(offset, text)) =>
                 w'.buffer = Splice(w.buffer, offset, offset, text)
  BY DEF With, Inserted, WriterStates

(* An insertion makes of the buffer what the edit makes of a file.           *)
LEMMA InsertDoes ==
    ASSUME w \in WriterStates, Len(w.buffer) < SizeMax, NEW e \in Insertions, Insert(e)
    PROVE  LET wanted == Edited(w.buffer, e)
           IN  w'.buffer = IF wanted.ok THEN wanted.text ELSE w.buffer
  <1> DEFINE f == w.buffer
             n == e.first
             wanted == Edited(f, e)
  <1>1. f \in Seq(Byte) /\ Len(f) \in Nat
    BY DEF WriterStates
  <1>2. /\ e.api \in {"insertAt", "insertBeforeLine", "insertAfterLine"} /\ n \in 0 .. SizeMax
        /\ SizeMax \in Nat
    BY WriterAssumption, SizeMaxAssumption DEF Insertions
  <1>3. /\ n \in Nat /\ PieceCount(f) \in Nat /\ Cut(f, PieceCount(f)) = Len(f)
        /\ n # 0 => n \in 1 .. SizeMax
    BY <1>1, <1>2, CutsAre
  <1>4. ASSUME wanted = NotEdited, w'.buffer = f
        PROVE  w'.buffer = IF wanted.ok THEN wanted.text ELSE f
    BY <1>4 DEF NotEdited
  <1>5. ASSUME NEW g, wanted = EditedTo(g), w'.buffer = g
        PROVE  w'.buffer = IF wanted.ok THEN wanted.text ELSE f
    BY <1>5 DEF EditedTo
  <1>6. FindLineStart(n) = IF n \in 1 .. PieceCount(f) THEN {Cut(f, n - 1)} ELSE {}
    <2>1. n \in Int
      BY <1>3
    <2> QED
      BY <2>1, StartIs
  <1>7. CASE e.api = "insertAt"
    <2>1. wanted = IF n <= Len(f) THEN EditedTo(Splice(f, n, n, e.text)) ELSE NotEdited
      BY <1>1, <1>7, InsertionIs
    <2>2. With(IF n > Len(f) THEN w ELSE Inserted(n, e.text))
      BY <1>7 DEF Insert, InsertAtPosition
    <2>3. CASE n <= Len(f)
      <3>1. With(Inserted(n, e.text))
        BY <1>1, <1>3, <2>2, <2>3
      <3>2. w'.buffer = Splice(f, n, n, e.text)
        BY <3>1, BufferBecomes
      <3> QED
        BY <1>5, <2>1, <2>3, <3>2
    <2>4. CASE n > Len(f)
      <3>1. ~(n <= Len(f))
        BY <1>1, <1>3, <2>4
      <3>2. w'.buffer = f
        BY <2>2, <2>4, BufferBecomes
      <3> QED
        BY <1>4, <2>1, <3>1, <3>2
    <2> QED
      BY <1>1, <1>3, <2>3, <2>4
  <1>8. CASE e.api = "insertBeforeLine"
    <2>1. wanted = IF n \in 1 .. PieceCount(f)
                   THEN EditedTo(Splice(f, Cut(f, n - 1), Cut(f, n - 1), e.text)) ELSE NotEdited
      BY <1>1, <1>8, InsertionIs
    <2>2. InsertBeforeLine(n, e.text)
      BY <1>8 DEF Insert
    <2>3. CASE FindLineStart(n) = {} /\ With(w)
      <3>1. n \notin 1 .. PieceCount(f) /\ w'.buffer = f
        BY <1>6, <2>3, BufferBecomes
      <3> QED
        BY <1>4, <2>1, <3>1
    <2>4. ASSUME NEW offset \in FindLineStart(n), With(Inserted(offset, e.text))
          PROVE  w'.buffer = IF wanted.ok THEN wanted.text ELSE f
      <3>1. n \in 1 .. PieceCount(f) /\ offset = Cut(f, n - 1)
        BY <1>6, <2>4
      <3>2. w'.buffer = Splice(f, offset, offset, e.text)
        BY <2>4, BufferBecomes
      <3> QED
        BY <1>5, <2>1, <3>1, <3>2
    <2> QED
      BY <2>2, <2>3, <2>4 DEF InsertBeforeLine
  <1>9. CASE e.api = "insertAfterLine"
    <2>1. wanted = IF n \in 1 .. PieceCount(f)
                   THEN EditedTo(Splice(f, Cut(f, n), Cut(f, n), e.text)) ELSE NotEdited
      BY <1>1, <1>9, InsertionIs
    <2>2. InsertAfterLine(n, e.text)
      BY <1>9 DEF Insert
    <2>3. ASSUME n # 0
          PROVE  /\ FindLineStart(Succ(n)) = IF Succ(n) \in 1 .. PieceCount(f)
                                             THEN {Cut(f, Succ(n) - 1)} ELSE {}
                 /\ Succ(n) \in 1 .. PieceCount(f) => Succ(n) - 1 = n /\ n < PieceCount(f)
                 /\ Succ(n) \notin 1 .. PieceCount(f) => n >= PieceCount(f)
      <3>1. /\ Succ(n) \in Nat
            /\ Succ(n) \in 1 .. PieceCount(f) => Succ(n) - 1 = n /\ n < PieceCount(f)
            /\ Succ(n) \notin 1 .. PieceCount(f) => n >= PieceCount(f)
        BY <1>1, <1>3, <2>3, NextPiece
      <3>2. Succ(n) \in Int
        BY <3>1
      <3> QED
        BY <3>1, <3>2, StartIs
    <2>4. CASE (n = 0 \/ FindLineStart(Succ(n)) \cup FindLineStart(n) = {}) /\ With(w)
      <3>1. n \notin 1 .. PieceCount(f) /\ w'.buffer = f
        BY <1>6, <2>4, BufferBecomes
      <3> QED
        BY <1>4, <2>1, <3>1
    <2>5. ASSUME n # 0, NEW offset \in FindLineStart(Succ(n)), With(Inserted(offset, e.text))
          PROVE  w'.buffer = IF wanted.ok THEN wanted.text ELSE f
      <3>1. Succ(n) \in 1 .. PieceCount(f) /\ offset = Cut(f, Succ(n) - 1)
        BY <2>3, <2>5
      <3>2. Succ(n) - 1 = n /\ n < PieceCount(f)
        BY <2>3, <2>5, <3>1
      <3>3. n \in 1 .. PieceCount(f) /\ offset = Cut(f, n)
        BY <1>3, <2>5, <3>1, <3>2
      <3>4. w'.buffer = Splice(f, offset, offset, e.text)
        BY <2>5, BufferBecomes
      <3> QED
        BY <1>5, <2>1, <3>3, <3>4
    <2>6. CASE /\ n # 0 /\ FindLineStart(Succ(n)) = {} /\ FindLineStart(n) # {}
               /\ With(Inserted(Len(f), e.text))
      <3>1. n \in 1 .. PieceCount(f)
        BY <1>6, <2>6
      <3>2. n >= PieceCount(f)
        BY <2>3, <2>6
      <3>3. n = PieceCount(f)
        BY <1>3, <3>1, <3>2
      <3>4. w'.buffer = Splice(f, Len(f), Len(f), e.text)
        BY <2>6, BufferBecomes
      <3>5. Cut(f, n) = Len(f)
        BY <1>3, <3>3
      <3> QED
        BY <1>5, <2>1, <3>1, <3>4, <3>5
    <2> QED
      BY <2>2, <2>4, <2>5, <2>6 DEF InsertAfterLine
  <1> QED
    BY <1>2, <1>7, <1>8, <1>9

(* ------------------------------ theorems --------------------------------- *)

(* The inductive invariant of calls that share a file: what each thread has  *)
(* open, which part of its work is in which version, for any threads, files, *)
(* requests and faults.                                                      *)
THEOREM Invariance == Spec => []IInv
  <1>1. IInv /\ [Next]_vars => IInv'
    BY NextIInv
  <1> QED
    BY InitIInv, <1>1, PTL DEF Spec

(* An edit that has returned has left no temporary file, and one that failed *)
(* no version of its own (file_edit.cpp:37-99).                             *)
THEOREM EditsLeaveNothing == Spec => []NothingLeft
  <1>1. IInv => NothingLeft
    BY DEF IInv, EditTypes, EditInv, Rewriting, NothingLeft, EditReturned, Present
  <1> QED
    BY <1>1, Invariance, PTL

(* A Writer that commits by itself is gone only with an empty buffer, or     *)
(* after a commit that was reported to have failed (writer.cpp:21-33).      *)
THEOREM WriterForgetsNothing == Spec => []NothingForgotten
  <1>1. IInv => NothingForgotten
    BY DEF IInv, WriterInv, NothingForgotten
  <1> QED
    BY <1>1, Invariance, PTL

(* The first commit after File::insert finds in the file what insert read    *)
(* there, if nobody else wrote: a read that failed poisons the Writer        *)
(* (writer.cpp:99-110), unless exists() fails as well.                       *)
THEOREM InsertRewrites == Spec => []InsertRewritesWhatItRead
  <1>1. IInv => InsertRewritesWhatItRead
    BY DEF IInv, WriterInv, InsertRewritesWhatItRead, Committing
  <1> QED
    BY <1>1, Invariance, PTL

(* Threads that append to one file keep each other's bytes: each write(2)    *)
(* goes to the end of the file as it is then (file_write.cpp:25-32).         *)
THEOREM AppendsSurvive == Spec => []AppendsKept
  <1>1. IInv => AppendsKept
    BY DEF IInv
  <1> QED
    BY <1>1, Invariance, PTL

(* What a rename brings: the file it copied, with the text in it.           *)
LEMMA RenamesOneVersion ==
    ASSUME IInv, [Next]_vars, ed.pc = "rename", Len(versions') > Len(versions), ed' # ed
    PROVE  /\ versions'[Len(versions')] = temp
           /\ Len(temp) >= ed.start + Len(ed.text)
           /\ SubSeq(temp, ed.start + 1, ed.start + Len(ed.text)) = ed.text
           /\ "truncated" \notin meanwhile =>
                 /\ ed.fd \in 1 .. Len(versions)
                 /\ \E m \in ed.end .. Len(versions[ed.fd]) : temp = Copied(m)
  <1>1. OwnerEdits
    <2>1. \/ OwnerEdits \/ OwnerReads \/ OwnerWrites \/ OthersDo \/ UNCHANGED vars
      BY NextKinds, SharingAssumption
    <2> QED
      BY <2>1 DEF OwnerReads, OwnerWrites, OthersDo, vars, editVars
  <1>2. Rename
    <2>1. versions' # versions
      <3>1. versions \in Seq(Seq(Byte))
        BY DEF IInv, FileTypes
      <3> QED
        BY <3>1
    <2> QED
      BY <1>1, <2>1 DEF OwnerEdits, EditStep, Ask, Open, Size, SearchBlock, SearchEnds, SearchFails,
         LastSize, PeekOpen, PeekRead, RewriteOpen, OpenMissing, CheckRange, CreateTemp, CopyHead,
         HeadCutShort, PutText, SeekTail, CopyTail, TailDone, CloseBoth, CallFails
  <1>3. versions'[Len(versions')] = temp
    <2>1. versions \in Seq(Seq(Byte)) /\ temp \in Seq(Byte) /\ versions' = Append(versions, temp)
      BY <1>2 DEF IInv, FileTypes, EditTypes, Rewriting, Rename
    <2> QED
      BY <2>1, AppendProperties
  <1> QED
    BY <1>3 DEF IInv, EditInv, HasFile, Rewriting, Present

(* An edit brings one version of the file with the text in it, never parts   *)
(* of two (file_edit.cpp:62-89).                                            *)
THEOREM EditsOneVersion == Spec => EditOfOneVersion
  <1> DEFINE Step ==
                ed.pc = "rename" /\ Len(versions') > Len(versions) /\ ed' # ed =>
                  LET new == versions'[Len(versions')]
                      OfOne(v, m) == new = Splice(SubSeq(versions[v], 1, m), ed.start, ed.end, ed.text)
                  IN  /\ Len(new) >= ed.start + Len(ed.text)
                      /\ SubSeq(new, ed.start + 1, ed.start + Len(ed.text)) = ed.text
                      /\ "truncated" \notin meanwhile =>
                             \E v \in 1 .. Len(versions) :
                                 \E m \in ed.end .. Len(versions[v]) : OfOne(v, m)
  <1>1. IInv /\ [Next]_vars => [Step]_vars
    <2> SUFFICES ASSUME IInv, [Next]_vars,
                        ed.pc = "rename", Len(versions') > Len(versions), ed' # ed
                 PROVE  Step
      OBVIOUS
    <2>1. /\ versions'[Len(versions')] = temp
          /\ Len(temp) >= ed.start + Len(ed.text)
          /\ SubSeq(temp, ed.start + 1, ed.start + Len(ed.text)) = ed.text
          /\ "truncated" \notin meanwhile =>
                /\ ed.fd \in 1 .. Len(versions)
                /\ \E m \in ed.end .. Len(versions[ed.fd]) : temp = Copied(m)
      BY RenamesOneVersion
    <2>2. ASSUME "truncated" \notin meanwhile
          PROVE  \E v \in 1 .. Len(versions) : \E m \in ed.end .. Len(versions[v]) :
                     temp = Splice(SubSeq(versions[v], 1, m), ed.start, ed.end, ed.text)
      BY <2>1, <2>2 DEF Copied
    <2> QED
      BY <2>1, <2>2
  <1> QED
    BY <1>1, Invariance, PTL DEF Spec, EditOfOneVersion

(* What a commit that returns has done.                                     *)
LEMMA CommitReturned ==
    ASSUME IInv, CommitReturns
    PROVE  IF put[Owner].ok
           THEN /\ w'.buffer = <<>>
                /\ meanwhile = {} =>
                       Content = (IF w.append THEN put[Owner].base ELSE <<>>) \o w.buffer
           ELSE w'.buffer = w.buffer
  <1>1. /\ w \in WriterStates /\ put[Owner] \in Puts /\ put[Owner].pc = "returned"
        /\ put[Owner].data = w.buffer /\ put[Owner].append = w.append
    BY WriterKnown, DirectWriteAssumption
    DEF IInv, PutInv, CommitReturns, PutDone, WriterInv, Committing
  <1>2. w'.buffer = IF put[Owner].ok THEN <<>> ELSE w.buffer
    BY <1>1 DEF CommitReturns, WriterStates
  <1>3. ASSUME put[Owner].ok, meanwhile = {}
        PROVE  Content = (IF w.append THEN put[Owner].base ELSE <<>>) \o w.buffer
    <2>1. AllWritten(Owner) /\ put[Owner].written = Len(put[Owner].data)
      BY <1>1, <1>3, DirectWriteAssumption DEF AllWritten, IInv, PutInv
    <2>2. Content = (IF put[Owner].append THEN put[Owner].base ELSE <<>>)
                     \o SubSeq(put[Owner].data, 1, put[Owner].written)
      BY <1>3, <2>1 DEF IInv, OwnerWrote
    <2>3. SubSeq(w.buffer, 1, Len(w.buffer)) = w.buffer
      BY <1>1, SubSeqFull DEF WriterStates
    <2> QED
      BY <1>1, <2>1, <2>2, <2>3
  <1> QED
    BY <1>2, <1>3

(* A commit that returns true has written the whole buffer, one that returns *)
(* false keeps it (writer.cpp:42-59).                                        *)
THEOREM CommitsWhole == Spec => CommitIsWhole
  <1> DEFINE Step ==
                w.pc \in {"committing", "destroying"} /\ w'.pc \in {"live", "gone"} =>
                  IF put[Owner].ok
                  THEN /\ w'.buffer = <<>>
                       /\ meanwhile = {} =>
                              Content = (IF w.append THEN put[Owner].base ELSE <<>>) \o w.buffer
                  ELSE w'.buffer = w.buffer
  <1>1. IInv /\ [Next]_vars => [Step]_vars
    <2> SUFFICES ASSUME IInv, [Next]_vars,
                        w.pc \in {"committing", "destroying"}, w'.pc \in {"live", "gone"}
                 PROVE  Step
      OBVIOUS
    <2>1. w' # w
      OBVIOUS
    <2>2. WriterStep
      <3>1. \/ OwnerEdits \/ OwnerReads \/ OwnerWrites \/ OthersDo \/ UNCHANGED vars
        BY NextKinds, SharingAssumption
      <3> QED
        BY <2>1, <3>1 DEF OwnerEdits, OwnerReads, OwnerWrites, OthersDo, vars
    <2>3. CommitReturns
      BY <2>1, <2>2 DEF WriterStep, InsertRead, Answered, BufferStep, Write, InsertSome, Clear,
         SetAutoCommit, MoveAssign, Live, CommitCalled, CommitRefused, Destroy
    <2> QED
      BY <2>3, CommitReturned
  <1> QED
    BY <1>1, Invariance, PTL DEF Spec, CommitIsWhole

(* An edit nobody interferes with makes of the file what the edit is to make *)
(* of its lines, and is refused only if they are not there, for every file   *)
(* shorter than the greatest size and any sizes of the reads                 *)
(* (file_edit.cpp:7-215).                                                    *)
THEOREM EditsExact == Spec => []EditIsExact
  <1>1. Spec => [](IInv /\ Exact)
    <2>1. Init => IInv /\ Exact
      BY InitIInv, InitExact
    <2>2. IInv /\ Exact /\ [Next]_vars => IInv' /\ Exact'
      BY NextIInv, NextExact
    <2> QED
      BY <2>1, <2>2, PTL DEF Spec
  <1>2. Exact => EditIsExact
    BY DEF Exact, EditIsExact, EditReturned
  <1> QED
    BY <1>1, <1>2, PTL

(* A string is shorter than the greatest size_t (std::string::max_size).     *)
BufferFits == w.pc = "live" => Len(w.buffer) < SizeMax

(* The insertions of a Writer make of its buffer what the edits of the same  *)
(* name are to make of a file, whatever the buffer holds, as long as it is a *)
(* string that can exist (writer.cpp:64-97).                                 *)
THEOREM InsertsExact == Spec /\ []BufferFits => InsertsLikeTheFile
  <1> DEFINE Step ==
                \A e \in Insertions :
                  Live /\ Insert(e) =>
                      LET wanted == Edited(w.buffer, e)
                      IN  w'.buffer = IF wanted.ok THEN wanted.text ELSE w.buffer
  <1>1. IInv /\ BufferFits => Step
    <2> SUFFICES ASSUME IInv, BufferFits, NEW e \in Insertions, Live, Insert(e)
                 PROVE  LET wanted == Edited(w.buffer, e)
                        IN  w'.buffer = IF wanted.ok THEN wanted.text ELSE w.buffer
      OBVIOUS
    <2>1. w \in WriterStates /\ Len(w.buffer) < SizeMax
      BY WriterKnown DEF IInv, Live, BufferFits
    <2> QED
      BY <2>1, InsertDoes
  <1>2. IInv /\ BufferFits => [Step]_w
    BY <1>1
  <1> QED
    BY <1>2, Invariance, PTL DEF InsertsLikeTheFile
=============================================================================
