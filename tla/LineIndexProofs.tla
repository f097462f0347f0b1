-------------------------- MODULE LineIndexProofs --------------------------
(* The index answers with the line the file has, or not at all, unless a     *)
(* change is hidden from its stamp: for files of any length, any granularity *)
(* and any writes and replacements of the file between two system calls of   *)
(* the constructor, of validate and of readLine.                             *)
EXTENDS LineIndex, LinesProofs
-----------------------------------------------------------------------------
(* Anchors.                                                                 *)

(* Division with remainder.                                                  *)
LEMMA DivisionIs ==
    ASSUME NEW n \in Nat, NEW g \in Nat \ {0}
    PROVE  /\ n \div g \in Nat /\ n % g \in 0 .. g - 1
           /\ n = ((n \div g) * g) + (n % g)
           /\ (n \div g) * g \in 0 .. n
  <1> DEFINE q == n \div g
             r == n % g
  <1>1. q \in Int /\ r \in 0 .. g - 1
    OBVIOUS
  <1>2. n = (q * g) + r
    OBVIOUS
  <1>3. q >= 0
    OBVIOUS
  <1> HIDE DEF q, r
  <1>4. q * g >= 0
    BY <1>1, <1>3
  <1>5. q * g <= n /\ q * g \in Int
    BY <1>1, <1>2
  <1> QED
    BY <1>1, <1>2, <1>3, <1>4, <1>5 DEF q, r

(* A product grows with its factor,                                          *)
LEMMA ProductGrows ==
    ASSUME NEW k \in Nat, NEW q \in Nat, k <= q, NEW g \in Nat
    PROVE  k * g \in Nat /\ k * g <= q * g
  OBVIOUS

(* and a quotient with what is divided.                                      *)
LEMMA DivisionGrows ==
    ASSUME NEW m \in Nat, NEW n \in Nat, m <= n, NEW g \in Nat \ {0}
    PROVE  m \div g <= n \div g
  OBVIOUS

\* The quotient steps up at a multiple.
LEMMA DivisionSteps ==
    ASSUME NEW n \in Nat, NEW m \in Nat, m < n, NEW g \in Nat \ {0},
           n = (n \div g) * g
    PROVE  m \div g < n \div g
  OBVIOUS

(* The anchors of a file: each is the start of every granularity-th line.    *)
LEMMA AnchorAt ==
    ASSUME NEW f \in Seq(Byte), NEW g \in Nat \ {0}
    PROVE  /\ NewlinesBefore(f, Len(f)) \in Nat
           /\ Anchors(f, g) \in Seq(Nat)
           /\ Len(Anchors(f, g)) = NewlinesBefore(f, Len(f)) \div g + 1
           /\ \A k \in 0 .. NewlinesBefore(f, Len(f)) \div g :
                 LET o == Anchors(f, g)[k + 1]
                 IN  /\ o \in 0 .. Len(f) /\ (o = 0 \/ f[o] = Nl)
                     /\ NewlinesBefore(f, o) = k * g
  <1> DEFINE starts == <<0>> \o InOrder(NewlinesIn(f, 0, Len(f)))
             N == NewlinesBefore(f, Len(f))
             q == N \div g
             A == [k \in 1 .. q + 1 |-> starts[(k - 1) * g + 1]]
  <1>1. /\ N \in Nat /\ Len(starts) = N + 1
        /\ \A i \in 0 .. N : /\ starts[i + 1] \in 0 .. Len(f)
                             /\ starts[i + 1] = 0 \/ f[starts[i + 1]] = Nl
                             /\ NewlinesBefore(f, starts[i + 1]) = i
    BY StartAt
  <1>2. Anchors(f, g) = A
    <2>1. Len(starts) - 1 = N
      BY <1>1
    <2> QED
      BY <2>1 DEF Anchors
  <1> HIDE DEF starts, N
  <1>3. q \in Nat /\ q * g <= N
    <2>1. N \div g \in Nat /\ (N \div g) * g \in 0 .. N
      BY <1>1, DivisionIs
    <2> QED
      BY <2>1, <1>1 DEF q
  <1> HIDE DEF q
  <1>4. \A k \in 0 .. q : k * g \in 0 .. N
    <2> TAKE k \in 0 .. q
    <2>1. k * g <= q * g /\ k * g \in Nat
      BY <1>3, ProductGrows
    <2> DEFINE kg == k * g
               qg == q * g
    <2>2. kg \in Nat /\ kg <= qg /\ qg <= N
      BY <2>1, <1>3
    <2>3. qg \in Int
      BY <1>3
    <2> HIDE DEF kg, qg
    <2>4. kg \in 0 .. N
      BY <2>2, <2>3, <1>1
    <2> QED
      BY <2>4 DEF kg
  <1>5. \A k \in 0 .. q : A[k + 1] = starts[k * g + 1]
    <2> TAKE k \in 0 .. q
    <2>1. k + 1 \in 1 .. q + 1 /\ (k + 1) - 1 = k
      BY <1>3
    <2> QED
      BY <2>1
  <1>6. A \in Seq(Nat) /\ Len(A) = q + 1
    <2>1. \A k \in 1 .. q + 1 : starts[(k - 1) * g + 1] \in Nat
      <3> TAKE k \in 1 .. q + 1
      <3>1. k - 1 \in 0 .. q
        BY <1>3
      <3>2. (k - 1) * g \in 0 .. N
        BY <3>1, <1>4
      <3>3. starts[(k - 1) * g + 1] \in 0 .. Len(f)
        BY <3>2, <1>1
      <3> QED
        BY <3>3
    <2>2. q + 1 \in Nat /\ A \in [1 .. q + 1 -> Nat]
      <3>1. q + 1 \in Nat
        BY <1>3
      <3> QED
        BY <2>1, <3>1
    <2> HIDE DEF A
    <2> QED
      BY <2>2
  <1> HIDE DEF A
  <1>7. \A k \in 0 .. q : /\ A[k + 1] \in 0 .. Len(f) /\ (A[k + 1] = 0 \/ f[A[k + 1]] = Nl)
                          /\ NewlinesBefore(f, A[k + 1]) = k * g
    BY <1>1, <1>4, <1>5
  <1> QED
    BY <1>1, <1>2, <1>6, <1>7 DEF N, q
\* The last anchor is taken off only where no line needs it.
LEMMA AnchorOfLine ==
    ASSUME NEW f \in Seq(Byte), f # <<>>, NEW g \in Nat \ {0}, NEW n \in 1 .. TotalLines(f)
    PROVE  /\ n - 1 \in 0 .. NewlinesBefore(f, Len(f))
           /\ EndsWithNl(f) => n <= NewlinesBefore(f, Len(f))
           /\ (n - 1) \div g \in 0 .. NewlinesBefore(f, Len(f)) \div g
           /\ (n - 1) \div g + 1 \in DOMAIN OffsetsOf(f, g, Len(f))
           /\ OffsetsOf(f, g, Len(f))[(n - 1) \div g + 1] = Anchors(f, g)[(n - 1) \div g + 1]
  <1> DEFINE N == NewlinesBefore(f, Len(f))
             all == Anchors(f, g)
             q == N \div g
             m == n - 1
             k == m \div g
  <1>1. /\ N \in Nat /\ all \in Seq(Nat) /\ Len(all) = q + 1
        /\ \A i \in 0 .. q : all[i + 1] \in 0 .. Len(f) /\ NewlinesBefore(f, all[i + 1]) = i * g
    BY AnchorAt
  <1>2. TotalLines(f) = IF ~EndsWithNl(f) /\ N >= 1 THEN N + 1 ELSE N
    BY DEF TotalLines, NewlinesBefore
  <1>3. m \in 0 .. N /\ (EndsWithNl(f) => m < N) /\ (EndsWithNl(f) => n <= N)
    <2> HIDE DEF N, q, all
    <2>1. TotalLines(f) <= N + 1 /\ (EndsWithNl(f) => TotalLines(f) = N) /\ TotalLines(f) \in Nat
      BY <1>1, <1>2
    <2> QED
      BY <2>1, <1>1
  <1> HIDE DEF N, all, m
  <1>4. q \in Nat /\ k \in Nat /\ k <= q
    <2>1. m \in Nat /\ N \in Nat /\ m <= N
      BY <1>1, <1>3
    <2>2. q \in Nat /\ k \in Nat
      BY <2>1, DivisionIs
    <2>3. k <= q
      BY <2>1, DivisionGrows
    <2> QED
      BY <2>2, <2>3
  <1>5. k + 1 \in DOMAIN OffsetsOf(f, g, Len(f)) /\ OffsetsOf(f, g, Len(f))[k + 1] = all[k + 1]
    <2>1. CASE ~(EndsWithNl(f) /\ all[Len(all)] >= Len(f))
      <3>1. OffsetsOf(f, g, Len(f)) = all
        BY <2>1 DEF OffsetsOf, all
      <3> HIDE DEF q, k
      <3>2. k + 1 \in DOMAIN all
        BY <1>1, <1>4
      <3> QED
        BY <3>1, <3>2
    <2>2. CASE EndsWithNl(f) /\ all[Len(all)] >= Len(f)
      <3>1. OffsetsOf(f, g, Len(f)) = SubSeq(all, 1, q)
        <4>1. Len(all) - 1 = q
          BY <1>1, <1>4
        <4> QED
          BY <2>2, <4>1 DEF OffsetsOf, all
      <3>2. all[q + 1] = Len(f)
        <4> HIDE DEF q, k
        <4>1. q \in 0 .. q
          BY <1>4
        <4>2. all[q + 1] \in 0 .. Len(f) /\ all[q + 1] >= Len(f)
          BY <1>1, <2>2, <4>1
        <4> QED
          BY <4>2
      <3>3. N = q * g
        <4>1. q \in 0 .. q
          BY <1>4
        <4> QED
          BY <3>2, <4>1, <1>1 DEF N
      <3>4. k < q
        <4>1. m \in Nat /\ N \in Nat /\ m < N
          BY <1>1, <1>3, <2>2
        <4> QED
          BY <3>3, <4>1, DivisionSteps
      <3> HIDE DEF q, k
      <3>5. /\ Len(SubSeq(all, 1, q)) = q /\ SubSeq(all, 1, q) \in Seq(Nat)
            /\ \A i \in 1 .. q : SubSeq(all, 1, q)[i] = all[i]
        BY <1>1, <1>4
      <3>6. k + 1 \in 1 .. q
        BY <3>4, <1>4
      <3> QED
        BY <3>1, <3>5, <3>6
    <2> QED
      BY <2>1, <2>2
  <1>6. k \in 0 .. q
    BY <1>4
  <1> QED
    BY <1>3, <1>5, <1>6 DEF N, all, m

\* From the anchor of a line on, its start is found, and the line is there.
LEMMA LineFromAnchor ==
    ASSUME NEW f \in Seq(Byte), f # <<>>, NEW g \in Nat \ {0},
           NEW n \in 1 .. TotalLines(f)
    PROVE  /\ n \in DOMAIN Lines(f)
           /\ LineFrom(f, Anchors(f, g)[(n - 1) \div g + 1], (n - 1) % g) = Ok(Lines(f)[n])
  <1> DEFINE N == NewlinesBefore(f, Len(f))
             m == n - 1
             k == m \div g
             skip == m % g
             o == Anchors(f, g)[k + 1]
             S == NewlinesIn(f, o, Len(f))
             L == Len(f)
             kg == k * g
  <1>1. N \in Nat /\ m \in 0 .. N /\ (EndsWithNl(f) => m < N) /\ k \in 0 .. N \div g
        /\ L \in Nat \ {0}
    <2>1. /\ N \in Nat /\ m \in 0 .. N /\ (EndsWithNl(f) => n <= N) /\ k \in 0 .. N \div g
      BY AnchorOfLine, AnchorAt
    <2>2. L \in Nat \ {0}
      OBVIOUS
    <2> HIDE DEF N, k, L
    <2> QED
      BY <2>1, <2>2
  <1>2. o \in 0 .. L /\ (o = 0 \/ f[o] = Nl) /\ NewlinesBefore(f, o) = kg
    BY <1>1, AnchorAt
  <1>3. m = kg + skip /\ skip \in 0 .. g - 1 /\ kg \in 0 .. m
    <2>1. m \in Nat
      BY <1>1
    <2> HIDE DEF m
    <2> QED
      BY <2>1, DivisionIs
  <1> HIDE DEF N, m, k, skip, o, L, kg
  <1>4. ASSUME NEW p \in 0 .. L, p = 0 \/ f[p] = Nl, NewlinesBefore(f, p) = m
        PROVE  n \in DOMAIN Lines(f) /\ LineAt(f, p) = Lines(f)[n]
    <2>1. p # L
      <3> SUFFICES ASSUME p = L PROVE FALSE
        OBVIOUS
      <3>1. f[L] = Nl
        BY <1>1, <1>4
      <3>2. EndsWithNl(f)
        BY <3>1 DEF EndsWithNl, L
      <3>3. N = m
        BY <1>4 DEF N, L
      <3> QED
        BY <3>2, <3>3, <1>1
    <2>2. p \in Nat /\ p < L
      BY <2>1, <1>1
    <2>3. /\ NewlinesBefore(f, p) + 1 \in 1 .. Len(Lines(f))
          /\ Lines(f)[NewlinesBefore(f, p) + 1] = LineAt(f, p)
      BY <2>2, <1>4, LineOf DEF L
    <2>4. m + 1 = n
      BY DEF m
    <2>5. DOMAIN Lines(f) = 1 .. Len(Lines(f))
      BY LinesAre
    <2> QED
      BY <2>3, <2>4, <2>5, <1>4
  <1>5. CASE skip = 0
    <2>1. NewlinesBefore(f, o) = m
      BY <1>2, <1>3, <1>5
    <2>2. n \in DOMAIN Lines(f) /\ LineAt(f, o) = Lines(f)[n]
      BY <2>1, <1>2, <1>4
    <2>3. LineFrom(f, o, skip) = Ok(LineAt(f, o))
      BY <1>5 DEF LineFrom
    <2> QED
      BY <2>2, <2>3 DEF o, skip, k, m
  <1>6. CASE skip # 0
    <2>1. /\ S \in SUBSET Int /\ IsFiniteSet(S) /\ Cardinality(S) \in Nat
      BY <1>1, <1>2, NewlinesAre DEF L
    <2>2. N = kg + Cardinality(S)
      <3>1. o \in Nat /\ L \in Nat /\ o <= L
        BY <1>1, <1>2
      <3> QED
        BY <3>1, <1>2, CountGrows DEF N, L
    <2>3. skip \in 1 .. Cardinality(S)
      <3> HIDE DEF S
      <3> QED
        BY <2>1, <2>2, <1>1, <1>3, <1>6
    <2>4. Len(InOrder(S)) = Cardinality(S)
      BY <2>1, InOrderIs
    <2> DEFINE p == InOrder(S)[skip]
    <2>5. p \in o + 1 .. L /\ f[p] = Nl /\ NewlinesBefore(f, p) = kg + skip
      <3>1. o \in Nat /\ L \in Nat /\ o <= L
        BY <1>1, <1>2
      <3> QED
        BY <3>1, <2>3, <1>2, NewlineAt DEF L
    <2> HIDE DEF p
    <2>6. p \in 0 .. L /\ NewlinesBefore(f, p) = m
      BY <2>5, <1>2, <1>3
    <2>7. n \in DOMAIN Lines(f) /\ LineAt(f, p) = Lines(f)[n]
      BY <2>5, <2>6, <1>4
    <2>8. skip <= Len(InOrder(S)) /\ skip # 0
      BY <2>3, <2>4, <2>1
    <2>9. LineFrom(f, o, skip) = Ok(LineAt(f, p))
      BY <2>8 DEF LineFrom, S, p
    <2> QED
      BY <2>7, <2>9 DEF o, skip, k, m
  <1> QED
    BY <1>5, <1>6
(* The digests are bytes.                                                    *)
LEMMA DigestsAre ==
    ASSUME NEW f \in Seq(Byte), NEW size \in Nat, NEW h \in Seq(Byte)
    PROVE  HeadOf(f, size) \in Seq(Byte) /\ TailOf(f, size, h) \in Seq(Byte)
  <1> DEFINE n == Min({Digest, size})
  <1>1. Digest \in Nat \ {0}
    BY LineIndexAssumption
  <1>2. n = IF Digest <= size THEN Digest ELSE size
    BY <1>1, LesserIs
  <1> HIDE DEF n
  <1>3. n \in Nat
    BY <1>1, <1>2
  <1>4. n <= Len(f) => SubSeq(f, 1, n) \in Seq(Byte)
    BY <1>3
  <1>5. size > Digest /\ size <= Len(f) => SubSeq(f, size - Digest + 1, size) \in Seq(Byte)
    BY <1>1
  <1>6. Unread \in Seq(Byte)
    BY DEF Unread
  <1>7. HeadOf(f, size) \in Seq(Byte)
    BY <1>4, <1>6 DEF HeadOf, n
  <1>8. TailOf(f, size, h) \in Seq(Byte)
    <2>1. CASE size <= Digest
      BY <2>1 DEF TailOf
    <2>2. CASE size > Digest
      BY <2>2, <1>1, <1>5, <1>6 DEF TailOf
    <2> QED
      BY <2>1, <2>2, <1>1
  <1> QED
    BY <1>7, <1>8

(* The offsets of the index have their type.                                 *)
LEMMA OffsetsAre ==
    ASSUME NEW f \in Seq(Byte), NEW g \in Nat \ {0}, NEW size \in Nat
    PROVE  OffsetsOf(f, g, size) \in Seq(Nat) /\ TotalLines(f) \in Nat
  <1> DEFINE all == Anchors(f, g)
             N == Cardinality(NewlinesIn(f, 0, Len(f)))
  <1>1. all \in Seq(Nat) /\ N \in Nat
    BY AnchorAt DEF NewlinesBefore
  <1>2. TotalLines(f) = IF ~EndsWithNl(f) /\ N >= 1 THEN N + 1 ELSE N
    BY DEF TotalLines
  <1>3. OffsetsOf(f, g, size) = all \/ OffsetsOf(f, g, size) = SubSeq(all, 1, Len(all) - 1)
    BY DEF OffsetsOf
  <1>4. Len(all) >= 1
    <2>1. /\ NewlinesBefore(f, Len(f)) \in Nat
          /\ Len(all) = (NewlinesBefore(f, Len(f)) \div g) + 1
      BY AnchorAt
    <2>2. NewlinesBefore(f, Len(f)) \div g \in Nat
      BY <2>1, DivisionIs
    <2> HIDE DEF all
    <2> QED
      BY <2>1, <2>2
  <1> HIDE DEF all, N
  <1>5. SubSeq(all, 1, Len(all) - 1) \in Seq(Nat)
    BY <1>1, <1>4
  <1>6. OffsetsOf(f, g, size) \in Seq(Nat)
    BY <1>1, <1>3, <1>5
  <1>7. TotalLines(f) \in Nat
    BY <1>1, <1>2
  <1> QED
    BY <1>6, <1>7

(* Converted to the other clock, the stamp of a file falls into the same     *)
(* step.                                                                     *)
LEMMA StampIs ==
    ASSUME NEW stamp \in Nat, NEW j \in Jitters \cup {0}
    PROVE  /\ FileClockToSystem(stamp, j) \in Nat
           /\ FileClockToSystem(stamp, j) \div 2 = stamp
           /\ NoStamp \in Int /\ NoStamp \div 2 # stamp
  <1>1. j \in {0, 1}
    BY LineIndexAssumption
  <1>2. /\ FileClockToSystem(stamp, j) \in Nat
        /\ FileClockToSystem(stamp, j) \div 2 = stamp
    BY <1>1 DEF FileClockToSystem
  <1>3. NoStamp \in Int /\ NoStamp < 0
    BY DEF NoStamp
  <1>4. NoStamp \div 2 < 0
    BY <1>3
  <1> QED
    BY <1>2, <1>3, <1>4

\* A file with a newline has the lines the index counts.
LEMMA LinesCounted ==
    ASSUME NEW f \in Seq(Byte), NewlinesIn(f, 0, Len(f)) # {}
    PROVE  DOMAIN Lines(f) = 1 .. TotalLines(f) /\ f # <<>>
  <1> DEFINE N == NewlinesBefore(f, Len(f))
  <1>1. Len(f) \in Nat /\ (Len(f) > 0 => f # <<>>)
    OBVIOUS
  <1>2. N \in Nat /\ N # 0
    BY <1>1, FirstNewlines, FS_EmptySet DEF NewlinesBefore
  <1>3. Len(f) > 0 /\ f # <<>>
    <2>1. Len(f) # 0
      BY <1>2, NoneBeforeTheFirst
    <2> QED
      BY <2>1, <1>1
  <1>4. Len(Lines(f)) = IF f[Len(f)] = Nl THEN N ELSE N + 1
    BY <1>3, LineCountIs
  <1>5. TotalLines(f) = IF ~EndsWithNl(f) /\ N >= 1 THEN N + 1 ELSE N
    BY DEF TotalLines, NewlinesBefore
  <1>6. EndsWithNl(f) <=> f[Len(f)] = Nl
    BY <1>3 DEF EndsWithNl
  <1> HIDE DEF N
  <1>7. Len(Lines(f)) = TotalLines(f)
    BY <1>2, <1>4, <1>5, <1>6
  <1> QED
    BY <1>3, <1>7, LinesAre

(* An empty file has no line.                                                *)
LEMMA NothingToCount ==
    ASSUME NEW f \in Seq(Byte), Len(f) = 0
    PROVE  TotalLines(f) = 0 /\ f = <<>>
  <1>1. f = <<>>
    OBVIOUS
  <1>2. Cardinality(NewlinesIn(f, 0, Len(f))) = 0
    BY NoneBeforeTheFirst DEF NewlinesBefore
  <1> QED
    BY <1>1, <1>2 DEF TotalLines

(* The answers are told apart by what they are.                              *)
LEMMA AnswersDiffer ==
    /\ NoAnswer.is = "none" /\ Refused.is = "refused" /\ Wild.is = "wild" /\ Valid.is = "valid"
    /\ NoAnswer # Wild /\ Refused # Wild /\ Valid # Wild
    /\ \A line : Ok(line).is = "ok" /\ Ok(line).line = line /\ Ok(line) # Wild
  <1>1. /\ NoAnswer.is = "none" /\ Refused.is = "refused" /\ Wild.is = "wild" /\ Valid.is = "valid"
        /\ \A line : Ok(line).is = "ok" /\ Ok(line).line = line
    BY DEF NoAnswer, Refused, Wild, Valid, Ok
  <1> HIDE DEF NoAnswer, Refused, Wild, Valid, Ok
  <1> QED
    BY <1>1

(* What a scan has been given of a file: nothing at first,                   *)
LEMMA NothingGiven ==
    ASSUME NEW f \in Seq(Byte)
    PROVE  Prefix(<<>>, f)
  BY DEF Prefix

(* more with each read,                                                      *)
LEMMA MoreIsGiven ==
    ASSUME NEW f \in Seq(Byte), NEW s \in Seq(Byte), NEW n \in Len(s) + 1 .. Len(f)
    PROVE  /\ s \o SubSeq(f, Len(s) + 1, n) \in Seq(Byte)
           /\ Prefix(s, f) => Prefix(s \o SubSeq(f, Len(s) + 1, n), f)
  <1> DEFINE k == Len(s)
  <1>1. k \in Nat /\ n \in Nat /\ k <= n /\ n <= Len(f) /\ 0 <= k
    OBVIOUS
  <1>2. SubSeq(f, k + 1, n) \in Seq(Byte)
    BY <1>1, PartIs
  <1>3. s \o SubSeq(f, k + 1, n) \in Seq(Byte)
    BY <1>2
  <1>4. ASSUME Prefix(s, f) PROVE Prefix(s \o SubSeq(f, k + 1, n), f)
    <2> HIDE DEF k
    <2>1. s = SubSeq(f, 0 + 1, k)
      BY <1>4 DEF Prefix, k
    <2>2. SubSeq(f, 0 + 1, k) \o SubSeq(f, k + 1, n) = SubSeq(f, 0 + 1, n)
      BY <1>1, PartsJoin
    <2>3. s \o SubSeq(f, k + 1, n) = SubSeq(f, 1, n)
      <3>1. 0 + 1 = 1
        OBVIOUS
      <3> QED
        BY <2>1, <2>2, <3>1
    <2>4. Len(SubSeq(f, 1, n)) = n
      BY <1>1
    <2> QED
      BY <1>1, <2>3, <2>4 DEF Prefix
  <1> QED
    BY <1>3, <1>4

(* and all of it when nothing follows.                                       *)
LEMMA AllIsGiven ==
    ASSUME NEW f \in Seq(Byte), NEW s \in Seq(Byte), Prefix(s, f), Len(f) <= Len(s)
    PROVE  s = f
  <1>1. Len(s) = Len(f)
    BY DEF Prefix
  <1>2. SubSeq(f, 1, Len(f)) = f
    OBVIOUS
  <1> QED
    BY <1>1, <1>2 DEF Prefix

(* Each line that is counted has an anchor.                                  *)
LEMMA AnchorsReach ==
    ASSUME NEW f \in Seq(Byte), NEW g \in Nat \ {0}, NEW n \in 1 .. TotalLines(f)
    PROVE  f # <<>> /\ (n - 1) \div g + 1 \in DOMAIN OffsetsOf(f, g, Len(f))
  <1>1. f # <<>>
    <2> SUFFICES ASSUME f = <<>> PROVE FALSE
      OBVIOUS
    <2>1. TotalLines(f) = 0
      BY NothingToCount
    <2> QED
      BY <2>1
  <1> QED
    BY <1>1, AnchorOfLine

(* What the constructor makes of a file is in bounds for each of its lines.  *)
LEMMA IndexedInBounds ==
    ASSUME IndexTypes, NEW f \in Seq(Byte), IndexOf(f)
    PROVE  InBounds
  <1> SUFFICES ASSUME NEW n \in 1 .. index.totalLines
               PROVE  (n - 1) \div index.granularity + 1 \in DOMAIN index.offsets
    BY DEF InBounds
  <1>1. n \in 1 .. TotalLines(f) /\ index.granularity \in Nat \ {0}
    BY DEF IndexOf, IndexTypes
  <1>2. f # <<>> /\ (n - 1) \div index.granularity + 1
                      \in DOMAIN OffsetsOf(f, index.granularity, Len(f))
    BY <1>1, AnchorsReach
  <1> QED
    BY <1>2 DEF IndexOf

(* An index with the anchors and the size of a file is the index of it.      *)
LEMMA IndexedIsOf ==
    ASSUME NEW f \in Seq(Byte), Indexed(f), index.size = Len(f)
    PROVE  IndexOf(f)
  <1>1. CASE index.size = 0
    <2>1. TotalLines(f) = 0 /\ f = <<>>
      BY <1>1, NothingToCount
    <2> QED
      BY <1>1, <2>1 DEF Indexed, IndexOf
  <1>2. CASE index.size # 0
    BY <1>2 DEF Indexed, IndexOf
  <1> QED
    BY <1>1, <1>2

(* The line that an index of the present file leads to.                      *)
LEMMA IndexLeadsToLine ==
    ASSUME IndexTypes, IndexOf(file), NEW n \in 1 .. index.totalLines
    PROVE  LET g == index.granularity
           IN  /\ HasLine(n)
               /\ LineFrom(file, index.offsets[(n - 1) \div g + 1], (n - 1) % g)
                     = Ok(Lines(file)[n])
  <1> DEFINE g == index.granularity
  <1>1. file \in Seq(Byte) /\ g \in Nat \ {0} /\ n \in 1 .. TotalLines(file)
    BY DEF IndexTypes, IndexOf
  <1>2. file # <<>>
    <2> SUFFICES ASSUME file = <<>> PROVE FALSE
      OBVIOUS
    <2>1. TotalLines(file) = 0
      BY <1>1, NothingToCount
    <2> QED
      BY <2>1, <1>1
  <1>3. index.offsets = OffsetsOf(file, g, Len(file))
    BY <1>2 DEF IndexOf
  <1>4. index.offsets[(n - 1) \div g + 1] = Anchors(file, g)[(n - 1) \div g + 1]
    BY <1>1, <1>2, <1>3, AnchorOfLine
  <1>5. /\ n \in DOMAIN Lines(file)
        /\ LineFrom(file, Anchors(file, g)[(n - 1) \div g + 1], (n - 1) % g) = Ok(Lines(file)[n])
    BY <1>1, <1>2, LineFromAnchor
  <1> QED
    BY <1>4, <1>5 DEF HasLine
-----------------------------------------------------------------------------
(* Initial states, and the world.                                           *)

(* The invariant holds at first.                                             *)
LEMMA IndexStarts == Init => IndexInv
  <1> SUFFICES ASSUME Init PROVE IndexInv
    OBVIOUS
  <1>1. IndexTypes
    <2>1. index \in [valid : BOOLEAN, size : Nat, stamp : Int, head : Seq(Byte),
                     tail : Seq(Byte), granularity : Nat \ {0}, offsets : Seq(Nat),
                     totalLines : Nat]
      BY DEF Init, NoIndex, Unread
    <2>2. file \in Seq(Byte)
      BY LineIndexAssumption DEF Init
    <2> QED
      BY <2>1, <2>2 DEF Init, IndexTypes, Unread
  <1>2. index.valid = FALSE /\ index.totalLines = 0 /\ bpc = "open" /\ met = {} /\ pc = "idle"
    BY DEF Init, NoIndex
  <1>3. StagesInv
    BY <1>2 DEF Init, StagesInv, Checking
  <1>4. BuildInv /\ PresentInv /\ PristineInv
    BY <1>2 DEF BuildInv, PresentInv, PristineInv, StampTaken
  <1>5. CheckedInv /\ TrustInv
    BY <1>2 DEF Init, CheckedInv, TrustInv
  <1>6. AnswerIsPresent /\ RefusedForCause /\ NoWildRead
    BY <1>2, AnswersDiffer DEF Init, AnswerIsPresent, RefusedForCause, NoWildRead
  <1> QED
    BY <1>1, <1>3, <1>4, <1>5, <1>6 DEF IndexInv

(* Time may pass,                                                            *)
LEMMA TickKeeps == IndexInv /\ Tick => IndexInv'
  <1> SUFFICES ASSUME IndexInv, Tick PROVE IndexInv'
    OBVIOUS
  <1> USE DEF Tick, fdVars, buildVars, callVars
  <1>1. IndexTypes /\ now' \in Nat /\ now <= now'
    BY DEF IndexInv, IndexTypes
  <1>2. IndexTypes'
    BY <1>1 DEF IndexTypes
  <1>3. StagesInv'
    BY <1>1 DEF IndexInv, IndexTypes, StagesInv, Untouched, Checking
  <1>4. BuildInv' /\ PresentInv' /\ PristineInv'
    BY DEF IndexInv, BuildInv, PresentInv, PristineInv, StampTaken, Untouched, InBounds, Indexed
  <1>5. CheckedInv' /\ TrustInv'
    BY DEF IndexInv, CheckedInv, TrustInv, Untouched, Settled, InBounds, Trusted, IndexOf, Alike
  <1>6. AnswerIsPresent' /\ RefusedForCause' /\ NoWildRead'
    BY DEF IndexInv, AnswerIsPresent, RefusedForCause, NoWildRead, Returned, HasLine, Untouched,
           Settled, Right, IndexOf, Alike
  <1> QED
    BY <1>2, <1>3, <1>4, <1>5, <1>6 DEF IndexInv

(* and the name may lead to another file, at any point: what is known of the *)
(* present one is lost.                                                      *)
LEMMA BecomesKeeps ==
    ASSUME IndexInv, NEW f \in Files, NEW stamp \in 0 .. now, NEW replaced \in BOOLEAN,
           Becomes(f, stamp, replaced), UNCHANGED <<now, buildVars, cached, callVars>>,
           fd' \in {"none", "path", "old"}, old' \in Seq(Byte), ~replaced => fd' = fd
    PROVE  IndexInv'
  <1> USE DEF Becomes, buildVars, callVars
  <1>1. IndexTypes /\ StagesInv /\ f \in Seq(Byte) /\ now \in Nat
    BY LineIndexAssumption DEF IndexInv, IndexTypes
  <1>2. /\ file' = f /\ mtime' = stamp /\ changed' = now /\ UNCHANGED index /\ UNCHANGED bpc
        /\ met \subseteq met' /\ met' \subseteq {"during", "after", "hidden", "failure"}
    BY <1>1 DEF IndexTypes
  <1>3. bpc = "open" => /\ met' = {} /\ pc' = "idle" /\ answer' = NoAnswer
                        /\ ~cached'.valid /\ ~index'.valid /\ ~StampTaken'
    BY <1>1 DEF StagesInv, Hidden, StampTaken
  <1>4. bpc # "open" => ~Untouched' /\ met' # {}
    BY DEF Untouched
  <1>5. "during" \notin met' => bpc' \in {"open", "built"} /\ "during" \notin met
    BY <1>1 DEF IndexTypes
  <1>6. "hidden" \notin met' => ~Hidden(stamp, replaced) /\ "hidden" \notin met
    OBVIOUS
  <1>7. ~Settled' /\ ~(changed' < since') /\ ~(changed' < cached'.since)
    <2>1. /\ asked.began <= now /\ since <= now /\ cached.since <= now
          /\ asked.began \in Nat /\ since \in Nat /\ cached.since \in Nat
      BY <1>1 DEF StagesInv, IndexTypes
    <2>2. asked'.began = asked.began /\ since' = since /\ cached'.since = cached.since
      OBVIOUS
    <2> QED
      BY <1>1, <1>2, <2>1, <2>2, LineIndexAssumption DEF Settled
  <1> HIDE DEF Becomes
  <1>8. IndexTypes'
    <2>1. writes' = writes + 1
      BY DEF Becomes
    <2>2. writes' \in Nat
      BY <1>1, <2>1 DEF IndexTypes
    <2>3. /\ stamp \in Nat /\ stamp <= now
      BY <1>1
    <2>4. /\ now' \in Nat /\ mtime' \in Nat /\ mtime' <= now'
          /\ changed' \in Nat /\ changed' <= now'
          /\ writes' \in Nat /\ file' \in Seq(Byte)
      BY <1>1, <1>2, <2>2, <2>3
    <2> HIDE DEF buildVars, callVars
    <2>5. /\ scanned' = scanned /\ index' = index /\ bpc' = bpc
          /\ cached' = cached /\ pc' = pc /\ asked' = asked
          /\ since' = since /\ head' = head
      BY DEF buildVars, callVars
    <2> QED
      BY <1>1, <1>2, <2>4, <2>5 DEF IndexTypes
  <1>9. StagesInv'
    BY <1>1, <1>2, <1>3, <1>4 DEF StagesInv, Checking
  <1>10. (InBounds' <=> InBounds) /\ (StampTaken' <=> StampTaken)
    BY DEF InBounds, StampTaken
  <1>11. BuildInv'
    <2> SUFFICES ASSUME "during" \notin met'
                 PROVE  index'.valid => InBounds' /\ ~Untouched'
      BY <1>1, <1>5 DEF BuildInv
    <2>1. index.valid => InBounds
      BY <1>5 DEF IndexInv, BuildInv
    <2> QED
      BY <2>1, <1>2, <1>3, <1>4, <1>10
  <1>12. PresentInv'
    BY <1>2, <1>6, <1>10 DEF IndexInv, PresentInv, Hidden
  <1>13. PristineInv'
    BY <1>2, <1>3, <1>4 DEF PristineInv
  <1>14. CheckedInv' /\ TrustInv'
    BY <1>2, <1>3, <1>4, <1>7, <1>10 DEF IndexInv, CheckedInv, TrustInv
  <1>15. AnswerIsPresent' /\ RefusedForCause' /\ NoWildRead'
    BY <1>2, <1>3, <1>4, <1>7, AnswersDiffer
    DEF IndexInv, AnswerIsPresent, RefusedForCause, NoWildRead
  <1> QED
    BY <1>8, <1>9, <1>11, <1>12, <1>13, <1>14, <1>15 DEF IndexInv

(* So it may be written,                                                     *)
LEMMA WriteKeeps == IndexInv /\ Write => IndexInv'
  <1> SUFFICES ASSUME IndexInv, Write PROVE IndexInv'
    OBVIOUS
  <1>1. PICK f \in Files : Becomes(f, now, FALSE)
    BY DEF Write
  <1>2. /\ UNCHANGED <<now, buildVars, cached, callVars>>
        /\ fd' = fd /\ old' = old
    BY DEF Write, fdVars
  <1>3. now \in 0 .. now /\ fd \in {"none", "path", "old"} /\ old \in Seq(Byte)
    BY DEF IndexInv, IndexTypes
  <1> QED
    BY <1>1, <1>2, <1>3, BecomesKeeps

(* and replaced, while a descriptor stays with the old one,                  *)
LEMMA ReplaceKeeps == IndexInv /\ Replace => IndexInv'
  <1> SUFFICES ASSUME IndexInv, Replace PROVE IndexInv'
    OBVIOUS
  <1>1. IndexTypes
    BY DEF IndexInv
  <1>2. PICK f \in Files, stamp \in IF StampsMeet THEN 0 .. now ELSE {now} \ {mtime} :
          Becomes(f, stamp, TRUE)
    BY DEF Replace
  <1>3. stamp \in 0 .. now
    BY <1>1 DEF IndexTypes
  <1>4. /\ UNCHANGED <<now, buildVars, cached, callVars>>
        /\ fd' \in {"none", "path", "old"} /\ old' \in Seq(Byte)
    BY <1>1 DEF Replace, fdVars, IndexTypes
  <1> QED
    BY <1>2, <1>3, <1>4, BecomesKeeps

(* which may go on changing, unseen by the name.                             *)
LEMMA WriteOldKeeps == IndexInv /\ WriteOld => IndexInv'
  <1> SUFFICES ASSUME IndexInv, WriteOld PROVE IndexInv'
    OBVIOUS
  <1> USE DEF WriteOld, buildVars, callVars
  <1>1. old' \in Seq(Byte) /\ writes' \in Nat
    BY LineIndexAssumption DEF IndexInv, IndexTypes
  <1>2. IndexTypes'
    BY <1>1 DEF IndexInv, IndexTypes
  <1>3. StagesInv'
    BY DEF IndexInv, StagesInv, Untouched, Checking
  <1>4. BuildInv' /\ PresentInv' /\ PristineInv'
    BY DEF IndexInv, BuildInv, PresentInv, PristineInv, StampTaken, Untouched, InBounds, Indexed
  <1>5. CheckedInv' /\ TrustInv'
    BY DEF IndexInv, CheckedInv, TrustInv, Untouched, Settled, InBounds, Trusted, IndexOf, Alike
  <1>6. AnswerIsPresent' /\ RefusedForCause' /\ NoWildRead'
    BY DEF IndexInv, AnswerIsPresent, RefusedForCause, NoWildRead, Returned, HasLine, Untouched,
           Settled, Right, IndexOf, Alike
  <1> QED
    BY <1>2, <1>3, <1>4, <1>5, <1>6 DEF IndexInv
-----------------------------------------------------------------------------
(* The constructor.                                                         *)

(* Before the index is built nothing is asked of it.                         *)
LEMMA NoCallYet ==
    ASSUME IndexInv, bpc # "built", UNCHANGED <<cached, callVars>>
    PROVE  /\ pc = "idle" /\ pc' = "idle" /\ answer' = NoAnswer
           /\ ~cached'.valid /\ ~index.valid /\ index.totalLines = 0
           /\ asked'.began <= now /\ since' <= now /\ cached'.since <= now
           /\ CheckedInv' /\ TrustInv' /\ AnswerIsPresent' /\ RefusedForCause' /\ NoWildRead'
  <1> USE DEF callVars
  <1>1. /\ pc = "idle" /\ answer = NoAnswer /\ ~index.valid /\ index.totalLines = 0
        /\ ~cached.valid /\ asked.began <= now /\ since <= now /\ cached.since <= now
    BY DEF IndexInv, StagesInv
  <1> QED
    BY <1>1, AnswersDiffer
    DEF CheckedInv, TrustInv, AnswerIsPresent, RefusedForCause, NoWildRead

(* A step of it that leaves the index invalid, and the file as it was.       *)
LEMMA BuildStages ==
    ASSUME IndexInv, bpc # "built", UNCHANGED <<now, cached, callVars>>,
           bpc' # "open", index'.valid = index.valid, index'.totalLines = index.totalLines,
           bpc' # "scan" => scanned' = <<>>,
           met' \cap {"during", "after", "hidden"} = met \cap {"during", "after", "hidden"}
    PROVE  StagesInv'
  <1>1. /\ pc' = "idle" /\ answer' = NoAnswer /\ ~cached'.valid /\ ~index'.valid
        /\ index'.totalLines = 0
        /\ asked'.began <= now /\ since' <= now /\ cached'.since <= now
    BY NoCallYet
  <1>2. "hidden" \in met' => ~Untouched'
    BY DEF IndexInv, StagesInv, Untouched
  <1> QED
    BY <1>1, <1>2 DEF StagesInv, Checking

(* The constructor opens the file,                                           *)
LEMMA BuildOpenKeeps == IndexInv /\ BuildOpen => IndexInv'
  <1> SUFFICES ASSUME IndexInv, BuildOpen PROVE IndexInv'
    OBVIOUS
  <1> USE DEF BuildOpen, fileVars, OpenPath
  <1>1. IndexTypes /\ bpc = "open" /\ bpc' = "size" /\ index = NoIndex /\ scanned = <<>>
    BY DEF IndexInv, StagesInv
  <1>2. PICK g \in Granularities : index' = [index EXCEPT !.granularity = g]
    OBVIOUS
  <1>3. g \in Nat \ {0}
    BY LineIndexAssumption
  <1>4. index'.valid = index.valid /\ index'.totalLines = index.totalLines
    BY <1>1, <1>2 DEF NoIndex
  <1>5. IndexTypes'
    BY <1>1, <1>2, <1>3 DEF IndexTypes, callVars
  <1>6. /\ pc' = "idle" /\ ~index.valid
        /\ CheckedInv' /\ TrustInv' /\ AnswerIsPresent' /\ RefusedForCause' /\ NoWildRead'
    BY <1>1, NoCallYet
  <1>7. StagesInv'
    BY <1>1, <1>4, BuildStages
  <1>8. Prefix(scanned, file)'
    BY <1>1, NothingGiven DEF IndexTypes
  <1>9. BuildInv' /\ PresentInv' /\ PristineInv'
    BY <1>1, <1>4, <1>6, <1>8 DEF BuildInv, PresentInv, PristineInv, StampTaken
  <1> QED
    BY <1>5, <1>6, <1>7, <1>9 DEF IndexInv

(* takes its size by the descriptor,                                         *)
LEMMA BuildSizeKeeps == IndexInv /\ BuildSize => IndexInv'
  <1> SUFFICES ASSUME IndexInv, BuildSize PROVE IndexInv'
    OBVIOUS
  <1> USE DEF fileVars, fdVars
  <1>1. /\ IndexTypes /\ bpc = "size" /\ bpc' = "stat" /\ scanned = <<>>
        /\ UNCHANGED <<fileVars, fdVars, scanned, cached, callVars>>
    BY DEF IndexInv, StagesInv, BuildSize
  <1>2. PICK n \in {0, Len(Opened)} :
          /\ index' = [index EXCEPT !.size = n]
          /\ \/ met' = met /\ n = Len(Opened)
             \/ met' = met \cup {"failure"}
    BY DEF BuildSize
  <1>3. n \in Nat /\ (fd # "old" => n \in {0, Len(file)})
    <2>1. Opened \in Seq(Byte) /\ (fd # "old" => Opened = file)
      BY <1>1 DEF Opened, IndexTypes
    <2> QED
      BY <1>2, <2>1
  <1>4. /\ index'.size = n /\ index'.valid = index.valid /\ index'.stamp = index.stamp
        /\ index'.totalLines = index.totalLines
    BY <1>1, <1>2 DEF IndexTypes
  <1>5. IndexTypes'
    BY <1>1, <1>2, <1>3 DEF IndexTypes, callVars
  <1>6. /\ pc' = "idle" /\ ~index.valid
        /\ CheckedInv' /\ TrustInv' /\ AnswerIsPresent' /\ RefusedForCause' /\ NoWildRead'
    BY <1>1, NoCallYet
  <1>7. StagesInv'
    BY <1>1, <1>2, <1>4, BuildStages
  <1>8. "during" \notin met' => fd' # "old" /\ Prefix(scanned, file)' /\ n \in {0, Len(file)}
    BY <1>1, <1>2, <1>3 DEF IndexInv, BuildInv
  <1>9. BuildInv'
    BY <1>1, <1>4, <1>6, <1>8 DEF BuildInv
  <1>10. PresentInv'
    BY <1>1, <1>2, <1>4, <1>6 DEF IndexInv, PresentInv, StampTaken
  <1>11. PristineInv'
    <2>1. met' = {} => "during" \notin met /\ n = Len(Opened)
      BY <1>2
    <2>2. met' = {} => n = Len(file)
      BY <1>1, <2>1 DEF IndexInv, BuildInv, Opened
    <2> QED
      BY <1>1, <1>4, <1>6, <2>2 DEF PristineInv, StampTaken
  <1> QED
    BY <1>5, <1>6, <1>7, <1>9, <1>10, <1>11 DEF IndexInv

(* its stamp by the name,                                                    *)
LEMMA BuildStatKeeps == IndexInv /\ BuildStat => IndexInv'
  <1> SUFFICES ASSUME IndexInv, BuildStat PROVE IndexInv'
    OBVIOUS
  <1> USE DEF fileVars, fdVars
  <1>1. /\ IndexTypes /\ bpc = "stat" /\ bpc' = "head" /\ scanned = <<>>
        /\ UNCHANGED <<fileVars, fdVars, scanned, cached, callVars>>
    BY DEF IndexInv, StagesInv, BuildStat
  <1>2. PICK s \in Int :
          /\ index' = [index EXCEPT !.stamp = s]
          /\ \/ met' = met /\ s \div 2 = mtime
             \/ met' = met \cup {"failure"} /\ s \div 2 # mtime
    <2>1. mtime \in Nat /\ NoStamp \in Int
      BY <1>1 DEF IndexTypes, NoStamp
    <2>2. CASE /\ index' = [index EXCEPT !.stamp = FileClockToSystem(mtime, 0)]
               /\ met' = met
      BY <2>1, <2>2, StampIs
    <2>3. CASE index' = [index EXCEPT !.stamp = NoStamp] /\ met' = met \cup {"failure"}
      <3>1. NoStamp \div 2 # mtime
        <4>1. NoStamp < 0
          BY DEF NoStamp
        <4> QED
          BY <2>1, <4>1
      <3> QED
        BY <2>1, <2>3, <3>1
    <2> QED
      BY <2>2, <2>3 DEF BuildStat
  <1>3. /\ index'.size = index.size /\ index'.valid = index.valid /\ index'.stamp = s
        /\ index'.totalLines = index.totalLines
    BY <1>1, <1>2 DEF IndexTypes
  <1>4. IndexTypes'
    BY <1>1, <1>2 DEF IndexTypes, callVars
  <1>5. /\ pc' = "idle" /\ ~index.valid
        /\ CheckedInv' /\ TrustInv' /\ AnswerIsPresent' /\ RefusedForCause' /\ NoWildRead'
    BY <1>1, NoCallYet
  <1>6. StagesInv'
    BY <1>1, <1>2, <1>3, BuildStages
  <1>7. Prefix(scanned, file)'
    BY <1>1, NothingGiven DEF IndexTypes
  <1>8. BuildInv'
    BY <1>1, <1>2, <1>3, <1>5, <1>7 DEF IndexInv, BuildInv
  <1>9. PresentInv'
    BY <1>1, <1>2, <1>3, <1>5, <1>7 DEF IndexInv, PresentInv
  <1>10. PristineInv'
    BY <1>1, <1>2, <1>3, <1>5 DEF IndexInv, PristineInv
  <1> QED
    BY <1>4, <1>5, <1>6, <1>8, <1>9, <1>10 DEF IndexInv

(* the digest of the head by the descriptor,                                 *)
LEMMA BuildHeadKeeps == IndexInv /\ BuildHead => IndexInv'
  <1> SUFFICES ASSUME IndexInv, BuildHead PROVE IndexInv'
    OBVIOUS
  <1> USE DEF fileVars, fdVars
  <1>1. /\ IndexTypes /\ bpc = "head" /\ bpc' = "tail" /\ scanned = <<>>
        /\ UNCHANGED <<fileVars, fdVars, scanned, cached, callVars>>
    BY DEF IndexInv, StagesInv, BuildHead
  <1>2. PICK h \in Seq(Byte) :
          /\ index' = [index EXCEPT !.head = h]
          /\ \/ met' = met /\ h = HeadOf(Opened, index.size)
             \/ met' = met \cup {"failure"}
    <2>1. HeadOf(Opened, index.size) \in Seq(Byte) /\ Unread \in Seq(Byte)
      <3>1. Opened \in Seq(Byte) /\ index.size \in Nat /\ <<>> \in Seq(Byte)
        BY <1>1 DEF Opened, IndexTypes
      <3> QED
        BY <3>1, DigestsAre DEF Unread
    <2> QED
      BY <2>1 DEF BuildHead
  <1>3. /\ index'.size = index.size /\ index'.valid = index.valid /\ index'.stamp = index.stamp
        /\ index'.totalLines = index.totalLines /\ index'.head = h
    BY <1>1, <1>2 DEF IndexTypes
  <1>4. IndexTypes'
    BY <1>1, <1>2 DEF IndexTypes, callVars
  <1>5. /\ pc' = "idle" /\ ~index.valid
        /\ CheckedInv' /\ TrustInv' /\ AnswerIsPresent' /\ RefusedForCause' /\ NoWildRead'
    BY <1>1, NoCallYet
  <1>6. StagesInv'
    BY <1>1, <1>2, <1>3, BuildStages
  <1>7. BuildInv'
    BY <1>1, <1>2, <1>3, <1>5 DEF IndexInv, BuildInv
  <1>8. PresentInv'
    BY <1>1, <1>2, <1>3, <1>5 DEF IndexInv, PresentInv, StampTaken
  <1>9. PristineInv'
    <2>1. met' = {} => met = {} /\ h = HeadOf(file, index.size)
      BY <1>1, <1>2 DEF IndexInv, BuildInv, Opened
    <2> QED
      BY <1>1, <1>3, <1>5, <2>1 DEF IndexInv, PristineInv, StampTaken
  <1> QED
    BY <1>4, <1>5, <1>6, <1>7, <1>8, <1>9 DEF IndexInv

(* and of the tail,                                                          *)
LEMMA BuildTailKeeps == IndexInv /\ BuildTail => IndexInv'
  <1> SUFFICES ASSUME IndexInv, BuildTail PROVE IndexInv'
    OBVIOUS
  <1> USE DEF fileVars, fdVars
  <1>1. /\ IndexTypes /\ bpc = "tail" /\ bpc' = "scan"
        /\ UNCHANGED <<fileVars, fdVars, scanned, cached, callVars>>
    BY DEF IndexInv, BuildTail
  <1>2. PICK t \in Seq(Byte) :
          /\ index' = [index EXCEPT !.tail = t]
          /\ \/ met' = met /\ t = TailOf(Opened, index.size, index.head)
             \/ met' = met \cup {"failure"}
    <2>1. TailOf(Opened, index.size, index.head) \in Seq(Byte) /\ Unread \in Seq(Byte)
      <3>1. /\ Opened \in Seq(Byte) /\ index.size \in Nat /\ <<>> \in Seq(Byte)
            /\ index.head \in Seq(Byte)
        BY <1>1 DEF Opened, IndexTypes
      <3> QED
        BY <3>1, DigestsAre DEF Unread
    <2> QED
      BY <2>1 DEF BuildTail
  <1>3. /\ index'.size = index.size /\ index'.valid = index.valid /\ index'.stamp = index.stamp
        /\ index'.totalLines = index.totalLines /\ index'.head = index.head /\ index'.tail = t
    BY <1>1, <1>2 DEF IndexTypes
  <1>4. IndexTypes'
    BY <1>1, <1>2 DEF IndexTypes, callVars
  <1>5. /\ pc' = "idle" /\ ~index.valid
        /\ CheckedInv' /\ TrustInv' /\ AnswerIsPresent' /\ RefusedForCause' /\ NoWildRead'
    BY <1>1, NoCallYet
  <1>6. StagesInv'
    BY <1>1, <1>2, <1>3, BuildStages
  <1>7. BuildInv'
    BY <1>1, <1>2, <1>3, <1>5 DEF IndexInv, BuildInv
  <1>8. PresentInv'
    BY <1>1, <1>2, <1>3, <1>5 DEF IndexInv, PresentInv, StampTaken
  <1>9. PristineInv'
    <2>1. met' = {} => met = {} /\ t = TailOf(file, index.size, index.head)
      BY <1>1, <1>2 DEF IndexInv, BuildInv, Opened
    <2> QED
      BY <1>1, <1>3, <1>5, <2>1 DEF IndexInv, PristineInv, StampTaken
  <1> QED
    BY <1>4, <1>5, <1>6, <1>7, <1>8, <1>9 DEF IndexInv

(* and reads it by the descriptor,                                           *)
LEMMA ScanReadKeeps == IndexInv /\ ScanRead => IndexInv'
  <1> SUFFICES ASSUME IndexInv, ScanRead PROVE IndexInv'
    OBVIOUS
  <1> USE DEF fileVars, fdVars
  <1>1. /\ IndexTypes /\ bpc = "scan" /\ bpc' = "scan" /\ index' = index /\ met' = met
        /\ UNCHANGED <<fileVars, fdVars, cached, callVars>>
    BY DEF IndexInv, ScanRead
  <1>2. PICK n \in Len(scanned) + 1 .. Len(Opened) :
          scanned' = scanned \o SubSeq(Opened, Len(scanned) + 1, n)
    BY DEF ScanRead
  <1>3. /\ scanned' \in Seq(Byte)
        /\ fd # "old" /\ Prefix(scanned, file) => Prefix(scanned, file)'
    <2>1. Opened \in Seq(Byte) /\ scanned \in Seq(Byte)
      BY <1>1 DEF Opened, IndexTypes
    <2>2. /\ scanned' \in Seq(Byte)
          /\ Prefix(scanned, Opened) => Prefix(scanned', Opened)
      BY <1>2, <2>1, MoreIsGiven
    <2>3. fd # "old" => Opened = file
      BY DEF Opened
    <2>4. file' = file
      BY <1>1
    <2> QED
      BY <2>2, <2>3, <2>4
  <1>4. IndexTypes'
    BY <1>1, <1>3 DEF IndexTypes, callVars
  <1>5. /\ pc' = "idle" /\ ~index.valid
        /\ CheckedInv' /\ TrustInv' /\ AnswerIsPresent' /\ RefusedForCause' /\ NoWildRead'
    BY <1>1, NoCallYet
  <1>6. StagesInv'
    BY <1>1, BuildStages
  <1>7. BuildInv'
    BY <1>1, <1>3, <1>5 DEF IndexInv, BuildInv
  <1>8. PresentInv'
    BY <1>1, <1>3, <1>5 DEF IndexInv, PresentInv, StampTaken
  <1>9. PristineInv'
    BY <1>1, <1>5 DEF IndexInv, PristineInv, StampTaken
  <1> QED
    BY <1>4, <1>5, <1>6, <1>7, <1>8, <1>9 DEF IndexInv

(* until nothing follows: the anchors are of what it was given,              *)
LEMMA ScanEndsKeeps == IndexInv /\ ScanEnds => IndexInv'
  <1> SUFFICES ASSUME IndexInv, ScanEnds PROVE IndexInv'
    OBVIOUS
  <1> USE DEF fileVars
  <1> DEFINE offsets == OffsetsOf(scanned, index.granularity, index.size)
             total == TotalLines(scanned)
  <1>1. /\ IndexTypes /\ bpc = "scan" /\ bpc' = "built" /\ met' = met
        /\ fd' = "none" /\ old' = <<>> /\ scanned' = <<>>
        /\ index.size = 0 \/ Len(Opened) <= Len(scanned)
        /\ UNCHANGED <<fileVars, cached, callVars>> /\ UNCHANGED fileVars
    BY DEF IndexInv, ScanEnds, Close
  <1>2. index' = IF index.size = 0 THEN [index EXCEPT !.valid = TRUE]
                 ELSE [index EXCEPT !.valid = TRUE, !.offsets = offsets, !.totalLines = total]
    BY DEF ScanEnds
  <1>3. offsets \in Seq(Nat) /\ total \in Nat
    BY <1>1, OffsetsAre DEF IndexTypes
  <1>4. /\ pc' = "idle" /\ answer' = NoAnswer /\ ~cached'.valid /\ ~index.valid
        /\ index.totalLines = 0
        /\ asked'.began <= now /\ since' <= now /\ cached'.since <= now
        /\ CheckedInv' /\ TrustInv' /\ AnswerIsPresent' /\ RefusedForCause' /\ NoWildRead'
    BY <1>1, NoCallYet
  <1> HIDE DEF offsets, total
  <1>5. /\ index'.size = index.size /\ index'.valid = TRUE /\ index'.stamp = index.stamp
        /\ index'.head = index.head /\ index'.tail = index.tail
        /\ index'.granularity = index.granularity
        /\ index.size # 0 => index'.offsets = offsets /\ index'.totalLines = total
        /\ index.size = 0 => index'.totalLines = 0
    BY <1>1, <1>2, <1>4 DEF IndexTypes
  <1>6. IndexTypes'
    <2>1. index' \in [valid : BOOLEAN, size : Nat, stamp : Int, head : Seq(Byte),
                      tail : Seq(Byte), granularity : Nat \ {0}, offsets : Seq(Nat),
                      totalLines : Nat]
      BY <1>1, <1>2, <1>3 DEF IndexTypes
    <2> QED
      BY <1>1, <2>1 DEF IndexTypes, callVars
  <1>7. StagesInv'
    <2>1. "hidden" \in met' => ~Untouched'
      BY <1>1 DEF IndexInv, StagesInv, Untouched
    <2> QED
      BY <1>1, <1>4, <1>5, <2>1 DEF StagesInv, Checking
  <1>8. fd # "old" /\ Prefix(scanned, file) => Indexed(file)'
    <2> SUFFICES ASSUME fd # "old", Prefix(scanned, file), index.size # 0 PROVE Indexed(file)'
      BY <1>5 DEF Indexed
    <2>1. Opened = file /\ Len(file) <= Len(scanned)
      BY <1>1 DEF Opened
    <2>2. scanned = file
      BY <1>1, <2>1, AllIsGiven DEF IndexTypes
    <2>3. file' = file
      BY <1>1
    <2> QED
      BY <1>5, <2>2, <2>3 DEF Indexed, offsets, total
  <1>9. BuildInv'
    <2> SUFFICES ASSUME "during" \notin met
                 PROVE  InBounds' /\ index'.size \in {0, Len(file)} /\ Indexed(file)'
      BY <1>1 DEF BuildInv
    <2>1. fd # "old" /\ Prefix(scanned, file) /\ index.size \in {0, Len(file)}
      BY <1>1 DEF IndexInv, BuildInv
    <2>2. Indexed(file)'
      BY <2>1, <1>8
    <2>3. CASE index.size = 0
      <3>1. index'.totalLines = 0
        BY <1>5, <2>3
      <3>2. InBounds'
        BY <3>1 DEF InBounds
      <3> QED
        BY <2>1, <2>2, <3>2, <1>5
    <2>4. CASE index.size # 0
      <3>1. /\ index.size = Len(file) /\ file \in Seq(Byte) /\ file' = file
            /\ index.granularity \in Nat \ {0}
        BY <2>1, <2>4, <1>1 DEF IndexTypes
      <3>2. /\ index'.totalLines = TotalLines(file)
            /\ index'.offsets = OffsetsOf(file, index.granularity, Len(file))
            /\ index'.granularity = index.granularity
        BY <2>2, <2>4, <1>5, <3>1 DEF Indexed
      <3>3. \A n \in 1 .. TotalLines(file) :
               (n - 1) \div index.granularity + 1
                  \in DOMAIN OffsetsOf(file, index.granularity, Len(file))
        BY <3>1, AnchorsReach
      <3>4. InBounds'
        BY <3>2, <3>3 DEF InBounds
      <3> QED
        BY <2>1, <2>2, <3>4, <1>5
    <2> QED
      BY <2>3, <2>4
  <1>10. PresentInv'
    BY <1>1, <1>4, <1>5, <1>8 DEF IndexInv, PresentInv, StampTaken
  <1>11. PristineInv'
    BY <1>1, <1>5 DEF IndexInv, PristineInv, StampTaken
  <1> QED
    BY <1>4, <1>6, <1>7, <1>9, <1>10, <1>11 DEF IndexInv

(* or leaves the index invalid when a call fails.                            *)
LEMMA BuildFailsKeeps == IndexInv /\ BuildFails => IndexInv'
  <1> SUFFICES ASSUME IndexInv, BuildFails PROVE IndexInv'
    OBVIOUS
  <1> USE DEF BuildFails, fileVars, Close
  <1>1. IndexTypes /\ bpc # "built" /\ bpc' = "built" /\ index' = index /\ met' = met
    BY DEF IndexInv
  <1>2. IndexTypes'
    BY <1>1 DEF IndexTypes, callVars
  <1>3. /\ pc' = "idle" /\ ~index.valid
        /\ CheckedInv' /\ TrustInv' /\ AnswerIsPresent' /\ RefusedForCause' /\ NoWildRead'
    BY <1>1, NoCallYet
  <1>4. StagesInv'
    BY <1>1, BuildStages
  <1>5. BuildInv' /\ PresentInv' /\ PristineInv'
    BY <1>1, <1>3 DEF BuildInv, PresentInv, PristineInv, StampTaken
  <1> QED
    BY <1>2, <1>3, <1>4, <1>5 DEF IndexInv
-----------------------------------------------------------------------------
(* readLine with the index, and validate.                                   *)

(* The index of an unchanged file is the file's.                             *)
LEMMA PristineIsPresent ==
    ASSUME IndexInv, met = {}, index.valid
    PROVE  IndexOf(file) /\ index.stamp \div 2 = mtime /\ index.size = Len(file)
  <1>1. index.stamp \div 2 = mtime /\ index.size = Len(file)
    BY DEF IndexInv, PristineInv, StampTaken
  <1>2. Indexed(file) /\ file \in Seq(Byte)
    BY DEF IndexInv, BuildInv, Untouched, IndexTypes
  <1> QED
    BY <1>1, <1>2, IndexedIsOf

(* What a call sees of the file and the index stays as it is.                *)
LEMMA CallSees ==
    ASSUME UNCHANGED <<fileVars, buildVars, met>>
    PROVE  /\ InBounds' <=> InBounds
           /\ IndexOf(file)' <=> IndexOf(file)
           /\ Trusted' <=> Trusted
           /\ Alike' <=> Alike
           /\ Untouched' <=> Untouched
           /\ \A n : HasLine(n)' <=> HasLine(n)
           /\ Lines(file)' = Lines(file)
           /\ NewlinesIn(file, 0, Len(file))' = NewlinesIn(file, 0, Len(file))
           /\ UNCHANGED <<file, mtime, changed, now, index, bpc>>
  <1> USE DEF fileVars, buildVars
  <1>1. (IndexOf(file)' <=> IndexOf(file)) /\ (Alike' <=> Alike)
    BY DEF IndexOf, Alike
  <1> QED
    BY <1>1 DEF InBounds, Trusted, Untouched, HasLine

(* What a call that goes on, or ends, has to keep.                           *)
LEMMA CallKeeps ==
    ASSUME IndexInv, pc # "idle", UNCHANGED <<fileVars, buildVars, met, asked>>,
           pc' \in {"idle", "size", "stamp", "digest", "head", "tail", "open", "read"},
           since' \in Nat, since' <= now, head' \in Seq(Byte),
           fd' \in {"none", "path", "old"}, old' \in Seq(Byte),
           cached' \in [valid : BOOLEAN, since : Nat], cached'.since <= now,
           pc' \in {"open", "read"} => asked.call = "readLine",
           Checking' => asked.began <= since',
           pc' \in {"stamp", "digest", "head", "tail"} /\ "hidden" \notin met
              /\ index.stamp \div 2 = mtime => index.size = Len(file)
    PROVE  IndexTypes' /\ StagesInv' /\ BuildInv' /\ PresentInv' /\ PristineInv'
  <1>1. IndexTypes /\ StagesInv /\ index.valid /\ bpc = "built" /\ asked' = asked
    BY DEF IndexInv, StagesInv
  <1>2. UNCHANGED <<now, file, mtime, changed, writes, bpc, scanned, index, met>>
    BY DEF fileVars, buildVars
  <1>3. (Untouched' <=> Untouched) /\ (InBounds' <=> InBounds) /\ (StampTaken' <=> StampTaken)
    BY <1>2, CallSees DEF StampTaken
  <1>4. IndexTypes'
    BY <1>1, <1>2 DEF IndexTypes
  <1>5. StagesInv'
    BY <1>1, <1>2, <1>3 DEF StagesInv
  <1>6. BuildInv'
    BY <1>1, <1>2, <1>3 DEF IndexInv, BuildInv, Indexed
  <1>7. PresentInv'
    BY <1>1, <1>2, <1>3 DEF IndexInv, PresentInv, Indexed
  <1>8. PristineInv'
    BY <1>1, <1>2, <1>3 DEF IndexInv, PristineInv
  <1> QED
    BY <1>4, <1>5, <1>6, <1>7, <1>8

(* The next system call,                                                     *)
LEMMA GoesOn ==
    ASSUME IndexInv, pc # "idle", UNCHANGED <<fileVars, buildVars, met, asked, cached, answer>>,
           pc' \in {"size", "stamp", "digest", "head", "tail", "read"},
           since' \in Nat, since' <= now, head' \in Seq(Byte),
           fd' \in {"none", "path", "old"}, old' \in Seq(Byte),
           Checking' => asked.began <= since',
           pc' \in {"stamp", "digest", "head", "tail"} /\ "hidden" \notin met
              /\ index.stamp \div 2 = mtime => index.size = Len(file),
           pc' \in {"digest", "head", "tail"} => InBounds \/ {"hidden", "during"} \subseteq met,
           pc' = "read" => pc = "open" /\ fd' # "old",
           CheckedInv'
    PROVE  IndexInv'
  <1>1. IndexTypes /\ StagesInv
    BY DEF IndexInv
  <1>2. IndexTypes' /\ StagesInv' /\ BuildInv' /\ PresentInv' /\ PristineInv'
    BY <1>1, CallKeeps DEF IndexTypes, StagesInv
  <1>3. TrustInv'
    <2>1. (Settled' <=> Settled) /\ changed' = changed /\ met' = met
      BY DEF Settled, fileVars
    <2> QED
      BY <2>1, CallSees DEF IndexInv, TrustInv
  <1>4. AnswerIsPresent' /\ RefusedForCause' /\ NoWildRead'
    BY DEF IndexInv, AnswerIsPresent, RefusedForCause, NoWildRead, Returned
  <1> QED
    BY <1>2, <1>3, <1>4 DEF IndexInv

(* a refusal, for which the file or a failing call is the reason,            *)
LEMMA Refuses ==
    ASSUME IndexInv, pc # "idle", UNCHANGED <<fileVars, buildVars, met, asked>>,
           pc' = "idle", answer' = Refused, since' \in Nat, since' <= now, head' \in Seq(Byte),
           fd' \in {"none", "path", "old"}, old' \in Seq(Byte),
           cached' \in {cached, [valid |-> FALSE, since |-> since]},
           ~(met = {} /\ fault' = "none")
    PROVE  IndexInv'
  <1>1. IndexTypes /\ StagesInv
    BY DEF IndexInv
  <1>2. /\ cached' \in [valid : BOOLEAN, since : Nat] /\ cached'.since <= now
        /\ cached'.valid => cached.valid /\ cached'.since = cached.since
    <2>1. CASE cached' = cached
      BY <1>1, <2>1 DEF IndexTypes, StagesInv
    <2>2. CASE cached' = [valid |-> FALSE, since |-> since]
      <3>1. since \in Nat /\ since <= now
        BY <1>1 DEF IndexTypes, StagesInv
      <3> QED
        BY <2>2, <3>1
    <2> QED
      BY <2>1, <2>2
  <1>4. IndexTypes' /\ StagesInv' /\ BuildInv' /\ PresentInv' /\ PristineInv'
    BY <1>2, CallKeeps DEF Checking
  <1>5. CheckedInv' /\ TrustInv'
    <2>1. changed' = changed /\ met' = met
      BY DEF fileVars
    <2> QED
      BY <1>2, <2>1, CallSees DEF IndexInv, CheckedInv, TrustInv
  <1>6. AnswerIsPresent' /\ RefusedForCause' /\ NoWildRead'
    BY AnswersDiffer DEF AnswerIsPresent, RefusedForCause, NoWildRead
  <1> QED
    BY <1>4, <1>5, <1>6 DEF IndexInv

(* and an index that validate passes.                                        *)
LEMMA Passes ==
    ASSUME IndexInv, pc # "idle", UNCHANGED <<fileVars, buildVars, met, asked>>, Passed,
           since' \in Nat, since' <= now, head' \in Seq(Byte),
           fd' \in {"none", "path", "old"}, old' \in Seq(Byte),
           NEW s \in Nat, s <= now, cached' = [valid |-> TRUE, since |-> s],
           Settled => changed < s,
           changed < s \/ Untouched => Trusted,
           InBounds \/ {"hidden", "during"} \subseteq met
    PROVE  IndexInv'
  <1>1. IndexTypes /\ StagesInv
    BY DEF IndexInv
  <1>2. /\ pc' \in {"idle", "open"}
        /\ pc' = "idle" => asked.call = "validate" /\ answer' = Valid
        /\ pc' = "open" => asked.call = "readLine" /\ answer' = answer
    BY <1>1 DEF Passed, Return, IndexTypes
  <1>3. cached' \in [valid : BOOLEAN, since : Nat] /\ cached'.since = s
    OBVIOUS
  <1>4. IndexTypes' /\ StagesInv' /\ BuildInv' /\ PresentInv' /\ PristineInv'
    BY <1>2, <1>3, CallKeeps DEF Checking
  <1>5. (Settled' <=> Settled) /\ changed' = changed /\ met' = met /\ asked' = asked
    BY DEF Settled, fileVars
  <1>6. CheckedInv' /\ TrustInv'
    BY <1>2, <1>3, <1>5, CallSees DEF CheckedInv, TrustInv
  <1>7. CASE pc' = "idle"
    <2>1. AnswerIsPresent'
      <3>1. Settled \/ Untouched => Trusted
        OBVIOUS
      <3>2. Right' <=> IndexOf(file)
        BY <1>2, <1>5, <1>7, CallSees DEF Right
      <3> QED
        BY <1>5, <3>1, <3>2, CallSees DEF AnswerIsPresent, Trusted
    <2>2. RefusedForCause' /\ NoWildRead'
      BY <1>2, <1>7, AnswersDiffer DEF RefusedForCause, NoWildRead
    <2> QED
      BY <1>4, <1>6, <2>1, <2>2 DEF IndexInv
  <1>8. CASE pc' = "open"
    <2>1. AnswerIsPresent' /\ RefusedForCause' /\ NoWildRead'
      BY <1>2, <1>5, <1>8 DEF IndexInv, AnswerIsPresent, RefusedForCause, NoWildRead, Returned
    <2> QED
      BY <1>4, <1>6, <2>1 DEF IndexInv
  <1> QED
    BY <1>2, <1>7, <1>8
(* A call begins.                                                            *)
LEMMA AskKeeps == IndexInv /\ Ask => IndexInv'
  <1> SUFFICES ASSUME IndexInv, Ask PROVE IndexInv'
    OBVIOUS
  <1>1. PICK call \in {"readLine", "validate"}, n \in 0 .. MaxLine :
           /\ call = "validate" => n = 0
           /\ asked' = [call |-> call, line |-> n, began |-> now]
           /\ IF index.valid /\ (call = "validate" \/ n \in 1 .. index.totalLines)
              THEN pc' = "validate" /\ answer' = NoAnswer
              ELSE pc' = "idle" /\ answer' = Refused
    BY DEF Ask, Return
  <1>2. /\ pc = "idle" /\ bpc = "built"
        /\ UNCHANGED <<fileVars, buildVars, met>>
        /\ UNCHANGED <<now, file, mtime, changed, writes, bpc, scanned, index, met>>
        /\ UNCHANGED <<fd, old, cached, since, head>>
    BY DEF Ask, fileVars, buildVars, fdVars
  <1>3. IndexTypes /\ n \in Nat /\ asked'.call = call /\ asked'.line = n /\ asked'.began = now
    BY <1>1, LineIndexAssumption DEF IndexInv
  <1>4. IndexTypes'
    <2>1. pc' \in {"idle", "validate"}
      BY <1>1
    <2>2. asked' \in [call : {"readLine", "validate"}, line : Nat, began : Nat]
      BY <1>1, <1>3 DEF IndexTypes
    <2> QED
      BY <1>2, <1>3, <2>1, <2>2 DEF IndexTypes
  <1>5. Untouched' <=> Untouched
    BY <1>2, CallSees
  <1>6. pc' # "idle" => /\ pc' = "validate" /\ index.valid
                        /\ asked'.call = "readLine" => asked'.line \in 1 .. index.totalLines
    BY <1>1, <1>3
  <1>7. StagesInv'
    <2>1. asked'.began <= now'
      BY <1>2, <1>3 DEF IndexTypes
    <2> QED
      BY <1>2, <1>5, <1>6, <2>1 DEF IndexInv, StagesInv, Checking
  <1>8. pc' \in {"idle", "validate"}
    BY <1>1
  <1>9. BuildInv' /\ PresentInv' /\ PristineInv'
    <2>1. (InBounds' <=> InBounds) /\ (StampTaken' <=> StampTaken)
      BY <1>2, CallSees DEF StampTaken
    <2> QED
      BY <1>2, <1>5, <1>8, <2>1 DEF IndexInv, BuildInv, PresentInv, PristineInv, Indexed
  <1>10. CheckedInv' /\ TrustInv'
    BY <1>2, <1>5, <1>8, CallSees DEF IndexInv, CheckedInv, TrustInv
  <1>11. AnswerIsPresent' /\ NoWildRead'
    BY <1>1, AnswersDiffer DEF AnswerIsPresent, NoWildRead
  <1>12. RefusedForCause'
    <2> SUFFICES ASSUME answer' = Refused, met = {}, index.valid,
                        ~(call = "readLine" /\ (~HasLine(n) \/ NewlinesIn(file, 0, Len(file)) = {}))
                 PROVE  FALSE
      BY <1>1, <1>2, <1>3, CallSees, AnswersDiffer DEF RefusedForCause
    <2>1. IndexOf(file)
      BY PristineIsPresent
    <2>2. call = "readLine" /\ HasLine(n) /\ NewlinesIn(file, 0, Len(file)) # {}
      BY <1>1, AnswersDiffer
    <2>3. n \in DOMAIN Lines(file) /\ file \in Seq(Byte)
      BY <1>3, <2>2 DEF HasLine, IndexTypes
    <2>4. n \in 1 .. TotalLines(file)
      BY <2>2, <2>3, LinesCounted
    <2>5. n \in 1 .. index.totalLines
      BY <2>1, <2>4 DEF IndexOf
    <2>6. answer' = NoAnswer
      BY <2>5, <1>1
    <2> QED
      BY <2>6, AnswersDiffer
  <1> QED
    BY <1>4, <1>7, <1>9, <1>10, <1>11, <1>12 DEF IndexInv

(* What validate found less than a second ago is taken for true.             *)
LEMMA UseCacheKeeps == IndexInv /\ UseCache => IndexInv'
  <1> SUFFICES ASSUME IndexInv, UseCache PROVE IndexInv'
    OBVIOUS
  <1>1. /\ pc = "validate" /\ Remembered /\ Passed
        /\ UNCHANGED <<fileVars, buildVars, met, asked>>
        /\ UNCHANGED <<fd, old, cached, since, head>>
    BY DEF UseCache, fdVars
  <1>2. /\ IndexTypes /\ asked.began <= now /\ since <= now /\ cached.since <= now
    BY DEF IndexInv, StagesInv
  <1>3. cached.valid /\ now - cached.since < Second
    BY <1>1 DEF Remembered
  <1>4. cached' = [valid |-> TRUE, since |-> cached.since] /\ cached.since \in Nat
    BY <1>1, <1>2, <1>3 DEF IndexTypes
  <1>5. Settled => changed < cached.since
    <2>1. /\ asked.began \in Nat /\ now \in Nat /\ changed \in Nat /\ cached.since \in Nat
          /\ Second \in Nat
      BY <1>2, LineIndexAssumption DEF IndexTypes
    <2> QED
      BY <1>2, <1>3, <2>1 DEF Settled
  <1>6. /\ changed < cached.since \/ Untouched => Trusted
        /\ InBounds \/ {"hidden", "during"} \subseteq met
    BY <1>3 DEF IndexInv, TrustInv
  <1>7. /\ since' \in Nat /\ since' <= now /\ head' \in Seq(Byte)
        /\ fd' \in {"none", "path", "old"} /\ old' \in Seq(Byte)
    BY <1>1, <1>2 DEF IndexTypes
  <1> QED
    BY <1>1, <1>2, <1>4, <1>5, <1>6, <1>7, Passes

(* Otherwise it looks,                                                       *)
LEMMA LookKeeps == IndexInv /\ Look => IndexInv'
  <1> SUFFICES ASSUME IndexInv, Look PROVE IndexInv'
    OBVIOUS
  <1>1. /\ pc = "validate" /\ since' = now /\ pc' = "size"
        /\ UNCHANGED <<fileVars, buildVars, met, asked, cached, answer>>
        /\ UNCHANGED <<fd, old, head>>
    BY DEF Look, fdVars
  <1>2. IndexTypes /\ asked.began <= now
    BY DEF IndexInv, StagesInv
  <1>3. CheckedInv'
    BY <1>1 DEF CheckedInv
  <1>4. now \in Nat /\ now <= now /\ head \in Seq(Byte) /\ fd \in {"none", "path", "old"}
        /\ old \in Seq(Byte)
    BY <1>2 DEF IndexTypes
  <1> QED
    BY <1>1, <1>2, <1>3, <1>4, GoesOn

(* compares the size,                                                        *)
LEMMA ValidateSizeKeeps == IndexInv /\ ValidateSize => IndexInv'
  <1> SUFFICES ASSUME IndexInv, ValidateSize PROVE IndexInv'
    OBVIOUS
  <1>1. /\ pc = "size"
        /\ UNCHANGED <<fileVars, buildVars, met, asked, fault>>
        /\ UNCHANGED <<fd, old>>
    BY DEF ValidateSize, fdVars
  <1>2. IndexTypes /\ StagesInv /\ index.valid /\ asked.began <= since /\ since <= now
    BY <1>1 DEF IndexInv, StagesInv, Checking
  <1>3. /\ since \in Nat /\ 0 \in Nat /\ 0 <= now /\ head \in Seq(Byte) /\ Unread \in Seq(Byte)
        /\ fd \in {"none", "path", "old"} /\ old \in Seq(Byte)
    BY <1>2 DEF IndexTypes, Unread
  <1>4. CASE index.size = Len(file)
    <2>1. pc' = "stamp" /\ UNCHANGED <<cached, since, head, answer>>
      BY <1>4 DEF ValidateSize
    <2>2. CheckedInv'
      BY <1>1, <1>4, <2>1, CallSees DEF CheckedInv
    <2> QED
      BY <1>1, <1>2, <1>3, <1>4, <2>1, <2>2, GoesOn
  <1>5. CASE index.size # Len(file)
    <2>1. /\ pc' = "idle" /\ answer' = Refused /\ since' = 0 /\ head' = Unread
          /\ cached' = [valid |-> FALSE, since |-> since]
      BY <1>5 DEF ValidateSize, Refuse, Return
    <2>2. met # {}
      BY <1>2, <1>5 DEF IndexInv, PristineInv
    <2> QED
      BY <1>1, <1>3, <2>1, <2>2, Refuses
  <1> QED
    BY <1>4, <1>5

(* the stamp,                                                                *)
LEMMA ValidateStampKeeps == IndexInv /\ ValidateStamp => IndexInv'
  <1> SUFFICES ASSUME IndexInv, ValidateStamp PROVE IndexInv'
    OBVIOUS
  <1>1. /\ pc = "stamp"
        /\ UNCHANGED <<fileVars, buildVars, met, asked>>
        /\ UNCHANGED <<fd, old>>
    BY DEF ValidateStamp, fdVars
  <1>2. /\ IndexTypes /\ StagesInv /\ index.valid /\ bpc = "built" /\ StampTaken
        /\ asked.began <= since /\ since <= now
        /\ index.size = 0 => index.totalLines = 0
    BY <1>1 DEF IndexInv, StagesInv, Checking, StampTaken
  <1>3. /\ since \in Nat /\ 0 \in Nat /\ 0 <= now /\ head \in Seq(Byte) /\ Unread \in Seq(Byte)
        /\ fd \in {"none", "path", "old"} /\ old \in Seq(Byte) /\ file \in Seq(Byte)
    BY <1>2 DEF IndexTypes, Unread
  <1>4. PICK j \in Jitters :
          IF index.stamp # FileClockToSystem(mtime, j)
          THEN /\ Refuse
               /\ fault' = IF index.stamp \div 2 = mtime THEN "clock" ELSE "none"
          ELSE /\ UNCHANGED fault
               /\ IF index.size = 0 THEN Accept
                  ELSE pc' = "digest" /\ UNCHANGED <<cached, since, head, answer>>
    BY DEF ValidateStamp
  <1>5. CASE index.stamp # FileClockToSystem(mtime, j)
    <2>1. /\ pc' = "idle" /\ answer' = Refused /\ since' = 0 /\ head' = Unread
          /\ cached' = [valid |-> FALSE, since |-> since]
          /\ fault' = IF index.stamp \div 2 = mtime THEN "clock" ELSE "none"
      BY <1>4, <1>5 DEF Refuse, Return
    <2>2. met = {} => fault' # "none"
      BY <1>2, <2>1 DEF IndexInv, PristineInv
    <2> QED
      BY <1>1, <1>3, <2>1, <2>2, Refuses
  <1>6. CASE index.stamp = FileClockToSystem(mtime, j)
    <2>1. index.stamp \div 2 = mtime
      BY <1>2, <1>6, StampIs DEF IndexTypes
    <2>2. changed < since \/ Untouched => index.size = Len(file)
      BY <1>1 DEF IndexInv, CheckedInv
    <2>3. "hidden" \notin met => Indexed(file) /\ index.size = Len(file)
      BY <1>1, <1>2, <2>1 DEF IndexInv, PresentInv
    <2>4. CASE index.size = 0
      <3>1. /\ Passed /\ cached' = [valid |-> TRUE, since |-> since] /\ since' = 0
            /\ head' = Unread
        BY <1>4, <1>6, <2>4 DEF Accept
      <3>2. changed < since \/ Untouched => Trusted
        <4>1. Indexed(file)
          BY <1>2, <2>4 DEF Indexed
        <4> QED
          BY <1>3, <2>2, <4>1, IndexedIsOf DEF Trusted
      <3>3. InBounds
        BY <1>2, <2>4 DEF InBounds
      <3>4. Settled => changed < since
        BY <1>2, LineIndexAssumption DEF Settled, IndexTypes
      <3> QED
        BY <1>1, <1>2, <1>3, <3>1, <3>2, <3>3, <3>4, Passes
    <2>5. CASE index.size # 0
      <3>1. pc' = "digest" /\ UNCHANGED <<cached, since, head, answer>>
        BY <1>4, <1>6, <2>5
      <3>2. CheckedInv'
        BY <1>1, <2>1, <2>2, <3>1, CallSees DEF CheckedInv
      <3>3. InBounds \/ {"hidden", "during"} \subseteq met
        <4>1. CASE "hidden" \notin met
          BY <1>2, <1>3, <2>3, <4>1, IndexedIsOf, IndexedInBounds
        <4>2. CASE "during" \notin met
          BY <1>2, <4>2 DEF IndexInv, BuildInv
        <4> QED
          BY <4>1, <4>2
      <3> QED
        BY <1>1, <1>2, <1>3, <2>3, <3>1, <3>2, <3>3, GoesOn
    <2> QED
      BY <2>4, <2>5
  <1> QED
    BY <1>5, <1>6

(* opens the file,                                                           *)
LEMMA ValidateOpenKeeps == IndexInv /\ ValidateOpen => IndexInv'
  <1> SUFFICES ASSUME IndexInv, ValidateOpen PROVE IndexInv'
    OBVIOUS
  <1>1. /\ pc = "digest" /\ pc' = "head" /\ fd' = "path" /\ old' = <<>>
        /\ UNCHANGED <<fileVars, buildVars, met, asked, cached, answer>>
        /\ UNCHANGED <<since, head, fault>>
    BY DEF ValidateOpen, OpenPath
  <1>2. /\ IndexTypes /\ StagesInv /\ index.valid /\ StampTaken
        /\ asked.began <= since /\ since <= now
    BY <1>1 DEF IndexInv, StagesInv, Checking, StampTaken
  <1>3. since \in Nat /\ head \in Seq(Byte) /\ <<>> \in Seq(Byte)
    BY <1>2 DEF IndexTypes
  <1>4. /\ "hidden" \notin met /\ index.stamp \div 2 = mtime => index.size = Len(file)
        /\ InBounds \/ {"hidden", "during"} \subseteq met
    BY <1>1, <1>2 DEF IndexInv, PresentInv, TrustInv
  <1>5. CheckedInv'
    BY <1>1, CallSees DEF IndexInv, CheckedInv
  <1> QED
    BY <1>1, <1>2, <1>3, <1>4, <1>5, GoesOn

(* and compares the digests of its head                                      *)
LEMMA ValidateHeadKeeps == IndexInv /\ ValidateHead => IndexInv'
  <1> SUFFICES ASSUME IndexInv, ValidateHead PROVE IndexInv'
    OBVIOUS
  <1>1. /\ pc = "head" /\ pc' = "tail"
        /\ UNCHANGED <<fileVars, buildVars, met, asked, cached, answer>>
        /\ UNCHANGED <<fd, old, since>>
        /\ \/ head' = HeadOf(Opened, index.size) /\ fault' = fault
           \/ head' = Unread /\ fault' = "call"
    BY DEF ValidateHead, fdVars
  <1>2. /\ IndexTypes /\ StagesInv /\ index.valid /\ StampTaken
        /\ asked.began <= since /\ since <= now
    BY <1>1 DEF IndexInv, StagesInv, Checking, StampTaken
  <1>3. /\ since \in Nat /\ fd \in {"none", "path", "old"} /\ old \in Seq(Byte)
    BY <1>2 DEF IndexTypes
  <1>4. head' \in Seq(Byte)
    <2>1. Opened \in Seq(Byte) /\ index.size \in Nat /\ <<>> \in Seq(Byte)
      BY <1>2 DEF Opened, IndexTypes
    <2>2. HeadOf(Opened, index.size) \in Seq(Byte) /\ Unread \in Seq(Byte)
      BY <2>1, DigestsAre DEF Unread
    <2> QED
      BY <1>1, <2>2
  <1>5. /\ "hidden" \notin met /\ index.stamp \div 2 = mtime => index.size = Len(file)
        /\ InBounds \/ {"hidden", "during"} \subseteq met
    BY <1>1, <1>2 DEF IndexInv, PresentInv, TrustInv
  <1>6. CheckedInv'
    <2> SUFFICES ASSUME changed < since \/ Untouched
                 PROVE  /\ index.size = Len(file) /\ index.stamp \div 2 = mtime
                        /\ head' \in {Unread, HeadOf(file, index.size)}
                        /\ fault' = "none" => head' = HeadOf(file, index.size)
                        /\ fd # "old"
      BY <1>1, CallSees DEF CheckedInv
    <2>1. index.size = Len(file) /\ index.stamp \div 2 = mtime /\ fd # "old"
      BY <1>1 DEF IndexInv, CheckedInv
    <2>2. Opened = file
      BY <2>1 DEF Opened
    <2> QED
      BY <1>1, <2>1, <2>2
  <1> QED
    BY <1>1, <1>2, <1>3, <1>4, <1>5, <1>6, GoesOn

(* and its tail.                                                             *)
LEMMA ValidateTailKeeps == IndexInv /\ ValidateTail => IndexInv'
  <1> SUFFICES ASSUME IndexInv, ValidateTail PROVE IndexInv'
    OBVIOUS
  <1>1. /\ pc = "tail" /\ fd' = "none" /\ old' = <<>>
        /\ UNCHANGED <<fileVars, buildVars, met, asked>>
    BY DEF ValidateTail, Close
  <1>2. PICK tail \in {TailOf(Opened, index.size, head), Unread} :
          /\ IF tail = TailOf(Opened, index.size, head) THEN fault' = fault
             ELSE index.size > Digest /\ fault' = "call"
          /\ IF head = index.head /\ tail = index.tail THEN Accept ELSE Refuse
    BY DEF ValidateTail
  <1>3. /\ IndexTypes /\ StagesInv /\ index.valid /\ StampTaken
        /\ asked.began <= since /\ since <= now
    BY <1>1 DEF IndexInv, StagesInv, Checking, StampTaken
  <1>4. /\ since \in Nat /\ 0 \in Nat /\ 0 <= now /\ Unread \in Seq(Byte) /\ <<>> \in Seq(Byte)
        /\ file \in Seq(Byte)
    BY <1>3 DEF IndexTypes, Unread
  <1>5. changed < since \/ Untouched =>
          /\ index.size = Len(file) /\ index.stamp \div 2 = mtime /\ Opened = file
          /\ head \in {Unread, HeadOf(file, index.size)}
          /\ fault = "none" => head = HeadOf(file, index.size)
    BY <1>1 DEF IndexInv, CheckedInv, Opened
  <1>6. CASE head = index.head /\ tail = index.tail
    <2>1. /\ Passed /\ cached' = [valid |-> TRUE, since |-> since] /\ since' = 0
          /\ head' = Unread
      BY <1>2, <1>6 DEF Accept
    <2>2. ASSUME changed < since \/ Untouched PROVE Trusted
      <3>1. CASE "hidden" \notin met
        <4>1. Indexed(file) /\ index.size = Len(file)
          BY <1>3, <1>5, <2>2, <3>1 DEF IndexInv, PresentInv
        <4> QED
          BY <1>4, <4>1, IndexedIsOf DEF Trusted
      <3>2. CASE "hidden" \in met
        <4>1. tail \in {Unread, TailOf(file, index.size, HeadOf(file, index.size))}
          BY <1>2, <1>5, <2>2 DEF TailOf
        <4> QED
          BY <1>5, <1>6, <2>2, <3>2, <4>1 DEF Trusted, Alike
      <3> QED
        BY <3>1, <3>2
    <2>3. InBounds \/ {"hidden", "during"} \subseteq met
      BY <1>1 DEF IndexInv, TrustInv
    <2>4. Settled => changed < since
      BY <1>3, LineIndexAssumption DEF Settled, IndexTypes
    <2> QED
      BY <1>1, <1>3, <1>4, <2>1, <2>2, <2>3, <2>4, Passes
  <1>7. CASE ~(head = index.head /\ tail = index.tail)
    <2>1. /\ pc' = "idle" /\ answer' = Refused /\ since' = 0 /\ head' = Unread
          /\ cached' = [valid |-> FALSE, since |-> since]
      BY <1>2, <1>7 DEF Refuse, Return
    <2>2. ~(met = {} /\ fault' = "none")
      <3> SUFFICES ASSUME met = {}, fault' = "none" PROVE FALSE
        OBVIOUS
      <3>1. tail = TailOf(Opened, index.size, head) /\ fault = "none"
        BY <1>2
      <3>2. Untouched
        BY DEF Untouched
      <3>3. head = HeadOf(file, index.size) /\ tail = TailOf(file, index.size, head)
        BY <1>5, <3>1, <3>2
      <3>4. /\ index.head = HeadOf(file, index.size)
            /\ index.tail = TailOf(file, index.size, index.head)
        BY <1>3 DEF IndexInv, PristineInv
      <3> QED
        BY <1>7, <3>3, <3>4
    <2> QED
      BY <1>1, <1>4, <2>1, <2>2, Refuses
  <1> QED
    BY <1>6, <1>7

(* Then the file is opened, for a line that has an anchor,                   *)
LEMMA ReadOpenKeeps == IndexInv /\ ReadOpen => IndexInv'
  <1> SUFFICES ASSUME IndexInv, ReadOpen PROVE IndexInv'
    OBVIOUS
  <1> DEFINE anchor == (asked.line - 1) \div index.granularity + 1
  <1>1. /\ pc = "open"
        /\ UNCHANGED <<fileVars, buildVars, met, asked, cached>>
        /\ UNCHANGED <<since, head, fault>>
        /\ IF anchor \in DOMAIN index.offsets
           THEN fd' = "path" /\ old' = <<>> /\ pc' = "read" /\ answer' = answer
           ELSE pc' = "idle" /\ answer' = Wild /\ fd' = fd /\ old' = old
    BY DEF ReadOpen, OpenPath, Return, fdVars
  <1>2. /\ IndexTypes /\ StagesInv /\ asked.call = "readLine"
        /\ asked.line \in 1 .. index.totalLines /\ since <= now /\ cached.since <= now
    BY <1>1 DEF IndexInv, StagesInv
  <1>3. /\ since \in Nat /\ head \in Seq(Byte) /\ <<>> \in Seq(Byte)
        /\ fd \in {"none", "path", "old"} /\ old \in Seq(Byte)
        /\ cached \in [valid : BOOLEAN, since : Nat]
    BY <1>2 DEF IndexTypes
  <1>4. InBounds \/ {"hidden", "during"} \subseteq met
    BY <1>1 DEF IndexInv, TrustInv
  <1>5. CASE anchor \in DOMAIN index.offsets
    <2>1. fd' = "path" /\ old' = <<>> /\ pc' = "read" /\ answer' = answer
      BY <1>1, <1>5
    <2> HIDE DEF anchor
    <2>2. CheckedInv' /\ ~Checking'
      BY <2>1 DEF CheckedInv, Checking
    <2> QED
      BY <1>1, <1>2, <1>3, <2>1, <2>2, GoesOn
  <1>6. CASE anchor \notin DOMAIN index.offsets
    <2>1. pc' = "idle" /\ answer' = Wild /\ fd' = fd /\ old' = old
      BY <1>1, <1>6
    <2>2. {"hidden", "during"} \subseteq met
      BY <1>2, <1>4, <1>6 DEF InBounds
    <2> HIDE DEF anchor
    <2>3. IndexTypes' /\ StagesInv' /\ BuildInv' /\ PresentInv' /\ PristineInv'
      BY <1>1, <1>2, <1>3, <2>1, CallKeeps DEF Checking
    <2>4. CheckedInv' /\ TrustInv'
      <3>1. changed' = changed /\ met' = met
        BY <1>1 DEF fileVars
      <3> QED
        BY <1>1, <2>1, <3>1, CallSees DEF IndexInv, CheckedInv, TrustInv
    <2>5. AnswerIsPresent' /\ RefusedForCause' /\ NoWildRead'
      BY <1>1, <2>1, <2>2, AnswersDiffer DEF AnswerIsPresent, RefusedForCause, NoWildRead
    <2> QED
      BY <2>3, <2>4, <2>5 DEF IndexInv
  <1> QED
    BY <1>5, <1>6

(* and from the anchor the line is the one asked for.                        *)
LEMMA ReadLineKeeps == IndexInv /\ ReadLine => IndexInv'
  <1> SUFFICES ASSUME IndexInv, ReadLine PROVE IndexInv'
    OBVIOUS
  <1> DEFINE n == asked.line
             g == index.granularity
             anchor == index.offsets[(n - 1) \div g + 1]
             found == LineFrom(Opened, anchor, (n - 1) % g)
  <1>1. /\ pc = "read" /\ pc' = "idle" /\ fd' = "none" /\ old' = <<>>
        /\ answer' = found
        /\ UNCHANGED <<fileVars, buildVars, met, asked, cached>>
        /\ UNCHANGED <<since, head, fault>>
    BY DEF ReadLine, Return, Close
  <1>2. /\ IndexTypes /\ StagesInv /\ index.valid /\ asked.call = "readLine"
        /\ n \in 1 .. index.totalLines /\ since <= now /\ cached.since <= now
    BY <1>1 DEF IndexInv, StagesInv
  <1>3. /\ since \in Nat /\ head \in Seq(Byte) /\ <<>> \in Seq(Byte)
        /\ cached \in [valid : BOOLEAN, since : Nat]
    BY <1>2 DEF IndexTypes
  <1>4. Settled \/ Untouched => fd # "old" /\ Trusted
    BY <1>1 DEF IndexInv, TrustInv
  <1>5. found # Wild
    BY AnswersDiffer DEF LineFrom
  <1>6. fd # "old" /\ IndexOf(file) => HasLine(n) /\ found = Ok(Lines(file)[n])
    BY <1>2, IndexLeadsToLine DEF Opened
  <1> HIDE DEF anchor, found, g
  <1>7. IndexTypes' /\ StagesInv' /\ BuildInv' /\ PresentInv' /\ PristineInv'
    BY <1>1, <1>2, <1>3, CallKeeps DEF Checking
  <1>8. (Settled' <=> Settled) /\ changed' = changed /\ met' = met /\ asked' = asked
    BY <1>1 DEF Settled, fileVars
  <1>9. CheckedInv' /\ TrustInv'
    BY <1>1, <1>8, CallSees DEF IndexInv, CheckedInv, TrustInv
  <1>10. AnswerIsPresent'
    <2> SUFFICES ASSUME Settled \/ Untouched PROVE Right' \/ ("hidden" \in met /\ Alike)
      BY <1>1, <1>8, CallSees DEF AnswerIsPresent
    <2>1. CASE IndexOf(file)
      <3>1. HasLine(n) /\ answer' = Ok(Lines(file)[n])
        BY <1>1, <1>4, <1>6, <2>1
      <3>2. HasLine(n) /\ answer'.line = Lines(file)[n]
        BY <3>1, AnswersDiffer
      <3>3. Lines(file)' = Lines(file) /\ (HasLine(n)' <=> HasLine(n))
        BY <1>1, CallSees
      <3> QED
        BY <1>1, <1>2, <1>8, <3>2, <3>3 DEF Right, HasLine
    <2>2. CASE ~IndexOf(file)
      BY <1>4, <2>2 DEF Trusted
    <2> QED
      BY <2>1, <2>2
  <1>11. RefusedForCause'
    <2> SUFFICES ASSUME met = {}, answer'.is = "refused" PROVE FALSE
      BY <1>8 DEF RefusedForCause
    <2>1. Untouched
      BY DEF Untouched
    <2>2. fd # "old" /\ IndexOf(file)
      BY <1>4, <2>1 DEF Trusted
    <2> QED
      BY <1>1, <1>6, <2>2, AnswersDiffer
  <1>12. NoWildRead'
    BY <1>1, <1>5 DEF NoWildRead
  <1> QED
    BY <1>7, <1>9, <1>10, <1>11, <1>12 DEF IndexInv

(* A failing call refuses.                                                   *)
LEMMA CallFailsKeeps == IndexInv /\ CallFails => IndexInv'
  <1> SUFFICES ASSUME IndexInv, CallFails PROVE IndexInv'
    OBVIOUS
  <1>1. /\ pc # "idle" /\ pc' = "idle" /\ answer' = Refused /\ fault' = "call"
        /\ fd' = "none" /\ old' = <<>>
        /\ UNCHANGED <<fileVars, buildVars, met, asked>>
        /\ since' \in {0, since} /\ head' \in {Unread, head}
        /\ cached' \in {cached, [valid |-> FALSE, since |-> since]}
    BY DEF CallFails, Refuse, Return, Close
  <1>2. /\ 0 \in Nat /\ 0 <= now /\ since \in Nat /\ since <= now /\ head \in Seq(Byte)
        /\ Unread \in Seq(Byte) /\ <<>> \in Seq(Byte)
    BY DEF IndexInv, IndexTypes, StagesInv, Unread
  <1> QED
    BY <1>1, <1>2, Refuses
-----------------------------------------------------------------------------
(* The invariant is about the variables of the model only.                   *)
LEMMA IndexStutters == IndexInv /\ UNCHANGED vars => IndexInv'
  <1> SUFFICES ASSUME IndexInv, UNCHANGED vars PROVE IndexInv'
    OBVIOUS
  <1> USE DEF vars, callVars, fileVars, fdVars, buildVars
  <1>1. IndexTypes'
    BY DEF IndexInv, IndexTypes
  <1>2. StagesInv'
    BY DEF IndexInv, StagesInv, Untouched, Checking
  <1>3. BuildInv' /\ PresentInv' /\ PristineInv'
    BY DEF IndexInv, BuildInv, PresentInv, PristineInv, StampTaken, Untouched, InBounds, Indexed
  <1>4. CheckedInv' /\ TrustInv'
    BY DEF IndexInv, CheckedInv, TrustInv, Untouched, Settled, InBounds, Trusted, IndexOf, Alike
  <1>5. AnswerIsPresent' /\ RefusedForCause' /\ NoWildRead'
    BY DEF IndexInv, AnswerIsPresent, RefusedForCause, NoWildRead, Returned, HasLine, Untouched,
           Settled, Right, IndexOf, Alike
  <1> QED
    BY <1>1, <1>2, <1>3, <1>4, <1>5 DEF IndexInv

(* Whatever the file becomes between two calls of the system, in place or by *)
(* another file under its name: unless a change is hidden from the stamp,    *)
(* size and stamp tell whether the anchors are of the present file, though   *)
(* the constructor asks for the stamp by the name and reads by a descriptor; *)
(* what validate remembers was true when it looked (line_index.cpp:57-217).  *)
THEOREM IndexInvariant == Spec => []IndexInv
  <1>1. IndexInv /\ [Next]_vars => IndexInv'
    BY TickKeeps, WriteKeeps, ReplaceKeeps, WriteOldKeeps, BuildOpenKeeps, BuildSizeKeeps,
       BuildStatKeeps, BuildHeadKeeps, BuildTailKeeps, ScanReadKeeps, ScanEndsKeeps,
       BuildFailsKeeps, AskKeeps, UseCacheKeeps, LookKeeps, ValidateSizeKeeps,
       ValidateStampKeeps, ValidateOpenKeeps, ValidateHeadKeeps, ValidateTailKeeps,
       ReadOpenKeeps, ReadLineKeeps, CallFailsKeeps, IndexStutters DEF Next
  <1> QED
    BY IndexStarts, <1>1, PTL DEF Spec

(* A line that readLine returns is the present one of the file, and an index *)
(* that validate passes is of it, unless the file was changed less than a    *)
(* second before the call (line_index.cpp:163), or a change was hidden from  *)
(* the stamp and left the size and the digested ends as they were.           *)
THEOREM AnswersArePresent == Spec => []AnswerIsPresent
  <1>1. IndexInv => AnswerIsPresent
    BY DEF IndexInv
  <1> QED
    BY <1>1, IndexInvariant, PTL

(* An unchanged file passes validate, and every line of it is given if it    *)
(* has a newline, dense or sparse, but for failing calls and clocks that     *)
(* differ.                                                                   *)
THEOREM RefusalsHaveACause == Spec => []RefusedForCause
  <1>1. IndexInv => RefusedForCause
    BY DEF IndexInv
  <1> QED
    BY <1>1, IndexInvariant, PTL

(* readLine indexes offsets_ out of its bounds only if the constructor met a *)
(* change and a change was hidden from the stamp (line_index.cpp:131, 153).  *)
THEOREM ReadsInBounds == Spec => []NoWildRead
  <1>1. IndexInv => NoWildRead
    BY DEF IndexInv
  <1> QED
    BY <1>1, IndexInvariant, PTL
-----------------------------------------------------------------------------
(* Where other files are never renamed over the name and a file does not     *)
(* have one stamp twice, every change shows in the stamp.                    *)
LEMMA StampGrows ==
    ASSUME ~Replaces, ~StampsMeet
    PROVE  IndexInv /\ StampInv /\ [Next]_vars => StampInv'
  <1> SUFFICES ASSUME IndexInv, StampInv, [Next]_vars PROVE StampInv'
    OBVIOUS
  <1> USE DEF StampInv, StampTaken
  <1>1. /\ IndexTypes /\ mtime \in Nat /\ now \in Nat
        /\ bpc # "built" => ~index.valid
    BY DEF IndexInv, IndexTypes, StagesInv
  <1>2. CASE Write
    <2>1. PICK f \in Files : Becomes(f, now, FALSE)
      BY <1>2 DEF Write
    <2>2. mtime < now /\ mtime' = now /\ UNCHANGED <<bpc, index>>
      BY <1>2, <2>1 DEF Write, Becomes, buildVars
    <2>3. StampTaken => index.stamp \div 2 < now
      <3>1. index.stamp \div 2 \in Int
        BY <1>1 DEF IndexTypes
      <3> QED
        BY <1>1, <2>2, <3>1
    <2>4. ~Hidden(now, FALSE)
      BY <1>1, <2>3 DEF Hidden, IndexTypes
    <2> QED
      <3>1. index.stamp \div 2 \in Int
        BY <1>1 DEF IndexTypes
      <3>2. "hidden" \notin met'
        BY <2>1, <2>4 DEF Becomes
      <3> QED
        BY <1>1, <2>2, <2>3, <3>1, <3>2
  <1>3. CASE BuildStat
    <2>1. met' \subseteq met \cup {"failure"} /\ bpc' = "head" /\ mtime' = mtime
      BY <1>3 DEF BuildStat, fileVars
    <2>2. index'.stamp \div 2 <= mtime
      <3>1. PICK s \in Int : index'.stamp = s /\ s \div 2 <= mtime
        <4>1. CASE index' = [index EXCEPT !.stamp = FileClockToSystem(mtime, 0)]
          <5>1. /\ FileClockToSystem(mtime, 0) \in Int
                /\ FileClockToSystem(mtime, 0) \div 2 = mtime
            BY <1>1, StampIs
          <5>2. index'.stamp = FileClockToSystem(mtime, 0)
            BY <1>1, <4>1 DEF IndexTypes
          <5> QED
            BY <1>1, <5>1, <5>2
        <4>2. CASE index' = [index EXCEPT !.stamp = NoStamp]
          <5>1. NoStamp \in Int /\ NoStamp < 0
            BY DEF NoStamp
          <5>2. NoStamp \div 2 <= mtime
            BY <1>1, <5>1
          <5>3. index'.stamp = NoStamp
            BY <1>1, <4>2 DEF IndexTypes
          <5> QED
            BY <5>1, <5>2, <5>3
        <4> QED
          BY <1>3, <4>1, <4>2 DEF BuildStat
      <3> QED
        BY <3>1
    <2> QED
      BY <2>1, <2>2
  <1>4. CASE BuildOpen \/ BuildSize
    BY <1>1, <1>4 DEF BuildOpen, BuildSize, IndexTypes, fileVars
  <1>5. CASE BuildHead \/ BuildTail \/ ScanEnds
    BY <1>1, <1>5 DEF BuildHead, BuildTail, ScanEnds, IndexTypes, fileVars
  <1>6. CASE ScanRead \/ BuildFails
    BY <1>1, <1>6 DEF ScanRead, BuildFails, fileVars
  <1>7. CASE Tick \/ WriteOld
    BY <1>7 DEF Tick, WriteOld, buildVars
  <1>8. CASE Ask \/ UseCache \/ Look \/ ValidateSize \/ ValidateStamp \/ ValidateOpen
    BY <1>8 DEF Ask, UseCache, Look, ValidateSize, ValidateStamp, ValidateOpen,
                fileVars, buildVars
  <1>9. CASE ValidateHead \/ ValidateTail \/ ReadOpen \/ ReadLine \/ CallFails
    BY <1>9 DEF ValidateHead, ValidateTail, ReadOpen, ReadLine, CallFails, fileVars, buildVars
  <1>10. CASE UNCHANGED vars
    BY <1>10 DEF vars, fileVars, buildVars
  <1>11. ~Replace
    BY DEF Replace
  <1> QED
    BY <1>2, <1>3, <1>4, <1>5, <1>6, <1>7, <1>8, <1>9, <1>10, <1>11 DEF Next

(* Of a file that is only written in place, with another stamp each time,    *)
(* readLine returns present lines from a second after the change on: not the *)
(* memory of validate, nor a constructor or a call that the change met on    *)
(* its way, makes it answer from old offsets for longer.                     *)
THEOREM InPlaceChangesAreNoticed ==
    ASSUME ~Replaces, ~StampsMeet
    PROVE  Spec => []ChangeIsNoticed
  <1>1. Init => StampInv
    BY DEF Init, StampInv, StampTaken, NoIndex
  <1>2. AnswerIsPresent /\ StampInv => ChangeIsNoticed
    BY DEF AnswerIsPresent, StampInv, ChangeIsNoticed
  <1>3. IndexInv /\ StampInv /\ [Next]_vars => StampInv'
    BY StampGrows
  <1> QED
    BY <1>1, <1>2, <1>3, IndexInvariant, AnswersArePresent, PTL DEF Spec
=============================================================================
