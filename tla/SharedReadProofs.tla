-------------------------- MODULE SharedReadProofs --------------------------
(* What a read answers while other threads append to the file and other     *)
(* programs replace it.                                                     *)
EXTENDS SharingProofs

(* ------------------------------- digests --------------------------------- *)

(* A block holds at least one byte, and the length fits into one.            *)
LEMMA FullIsPositive == Full \in Nat \ {0} /\ LenField \in 0 .. Full - 1
  BY HasherAssumption

(* The blocks a number of bytes fills, and what is left.                     *)
LEMMA Quotient ==
    ASSUME NEW n \in Nat
    PROVE  n \div Full \in Nat /\ n % Full \in 0 .. Full - 1 /\ n = Full * (n \div Full) + (n % Full)
  BY FullIsPositive

(* Quotient and remainder are determined by the number.                      *)
LEMMA Unique ==
    ASSUME NEW q \in Nat, NEW r \in 0 .. Full - 1
    PROVE  (Full * q + r) \div Full = q /\ (Full * q + r) % Full = r
  BY FullIsPositive

(* More blocks have no fewer bytes.                                          *)
LEMMA Rows ==
    ASSUME NEW i \in Nat, NEW j \in Nat, i <= j
    PROVE  Full * i \in Nat /\ Full * i <= Full * j
  BY FullIsPositive

(* The bytes of blocks behind blocks.                                        *)
LEMMA RowSum ==
    ASSUME NEW i \in Nat, NEW j \in Nat
    PROVE  Full * (i + j) = Full * i + Full * j
  BY FullIsPositive

(* ------------------------- parts of sequences ---------------------------- *)

(* A part of a sequence: its length and its members.                         *)
LEMMA Part ==
    ASSUME NEW S, NEW s \in Seq(S), NEW m \in Nat, NEW n \in 0 .. Len(s)
    PROVE  /\ SubSeq(s, m + 1, n) \in Seq(S)
           /\ Len(SubSeq(s, m + 1, n)) = IF m <= n THEN n - m ELSE 0
           /\ \A i \in 1 .. Len(SubSeq(s, m + 1, n)) : SubSeq(s, m + 1, n)[i] = s[m + i]
  OBVIOUS

(* A part of the first of two sequences is one of both together,             *)
LEMMA PartOfFirst ==
    ASSUME NEW S, NEW f \in Seq(S), NEW g \in Seq(S), NEW m \in Nat, NEW n \in 0 .. Len(f), m <= n
    PROVE  SubSeq(f \o g, m + 1, n) = SubSeq(f, m + 1, n)
  <1>1. f \o g \in Seq(S) /\ n \in 0 .. Len(f \o g) /\ n \in Nat
    OBVIOUS
  <1>2. /\ SubSeq(f \o g, m + 1, n) \in Seq(S) /\ Len(SubSeq(f \o g, m + 1, n)) = n - m
        /\ \A i \in 1 .. n - m : SubSeq(f \o g, m + 1, n)[i] = (f \o g)[m + i]
    BY <1>1, Part
  <1>3. /\ SubSeq(f, m + 1, n) \in Seq(S) /\ Len(SubSeq(f, m + 1, n)) = n - m
        /\ \A i \in 1 .. n - m : SubSeq(f, m + 1, n)[i] = f[m + i]
    BY <1>1, Part
  <1>4. \A i \in 1 .. n - m : (f \o g)[m + i] = f[m + i]
    BY <1>1
  <1> DEFINE l == SubSeq(f \o g, m + 1, n)
             r == SubSeq(f, m + 1, n)
  <1>5. l \in Seq(S) /\ r \in Seq(S) /\ Len(l) = Len(r) /\ Len(l) = n - m
    BY <1>2, <1>3
  <1>6. \A i \in 1 .. n - m : l[i] = r[i]
    BY <1>2, <1>3, <1>4
  <1> HIDE DEF l, r
  <1>7. l = r
    BY <1>5, <1>6, SeqEqual
  <1> QED
    BY <1>7 DEF l, r

(* and so is a part of the second.                                           *)
LEMMA PartOfSecond ==
    ASSUME NEW S, NEW f \in Seq(S), NEW g \in Seq(S), NEW m \in Nat, NEW n \in 0 .. Len(g), m <= n
    PROVE  SubSeq(f \o g, Len(f) + m + 1, Len(f) + n) = SubSeq(g, m + 1, n)
  <1> DEFINE k == Len(f) + m
             e == Len(f) + n
             l == SubSeq(f \o g, k + 1, e)
             r == SubSeq(g, m + 1, n)
  <1>1. /\ f \o g \in Seq(S) /\ n \in Nat /\ k \in Nat /\ e \in 0 .. Len(f \o g) /\ k <= e
        /\ e - k = n - m
    OBVIOUS
  <1>2. /\ l \in Seq(S) /\ Len(l) = n - m /\ \A i \in 1 .. n - m : l[i] = (f \o g)[k + i]
    BY SMTT(30), <1>1, Part
  <1>3. /\ r \in Seq(S) /\ Len(r) = n - m /\ \A i \in 1 .. n - m : r[i] = g[m + i]
    BY <1>1, Part
  <1>4. \A i \in 1 .. n - m : (f \o g)[k + i] = g[m + i]
    BY <1>1
  <1> HIDE DEF l, r
  <1>5. l = r
    BY <1>2, <1>3, <1>4, SeqEqual
  <1> QED
    BY <1>5 DEF l, r

(* ------------------------------- blocks ---------------------------------- *)

(* The whole blocks of a sequence, one by one, and the rest behind them.     *)
LEMMA Blocks ==
    ASSUME NEW S, NEW s \in Seq(S)
    PROVE  /\ BlocksOf(s) \in Seq(Seq(S)) /\ Len(BlocksOf(s)) = Len(s) \div Full
           /\ \A i \in 1 .. Len(s) \div Full :
                 BlocksOf(s)[i] = SubSeq(s, Full * (i - 1) + 1, Full * i)
           /\ Len(s) \div Full \in Nat /\ Full * (Len(s) \div Full) \in 0 .. Len(s)
           /\ RestOf(s) \in Seq(S) /\ Len(RestOf(s)) = Len(s) % Full
  <1> DEFINE q == Len(s) \div Full
             x == Full * q
  <1>1. /\ Len(s) \in Nat /\ q \in Nat /\ Len(s) % Full \in 0 .. Full - 1 /\ Full \in Nat
        /\ Len(s) = x + (Len(s) % Full)
    <2>1. Len(s) \in Nat
      OBVIOUS
    <2>2. /\ Len(s) \div Full \in Nat /\ Len(s) % Full \in 0 .. Full - 1
          /\ Len(s) = Full * (Len(s) \div Full) + (Len(s) % Full)
      BY <2>1, Quotient
    <2> QED
      BY <2>1, <2>2, FullIsPositive
  <1>2. x \in Nat
    BY <1>1, Rows
  <1>3. ASSUME NEW i \in 1 .. q
        PROVE  SubSeq(s, Full * (i - 1) + 1, Full * i) \in Seq(S)
    <2> DEFINE a == Full * (i - 1)
               b == Full * i
    <2>1. i - 1 \in Nat /\ i \in Nat /\ i - 1 <= i /\ i <= q
      BY <1>1
    <2>2. a \in Nat /\ b \in Nat /\ b <= x
      BY <1>1, <2>1, Rows
    <2>3. b \in 0 .. Len(s)
      BY <1>1, <1>2, <2>2
    <2> HIDE DEF a, b
    <2>4. SubSeq(s, a + 1, b) \in Seq(S)
      BY <2>2, <2>3, Part
    <2> QED
      BY <2>4 DEF a, b
  <1> HIDE DEF q, x
  <1>4. BlocksOf(s) = [i \in 1 .. q |-> SubSeq(s, Full * (i - 1) + 1, Full * i)]
    BY DEF BlocksOf, q
  <1>5. BlocksOf(s) \in Seq(Seq(S)) /\ Len(BlocksOf(s)) = q
    <2> DEFINE B(i) == SubSeq(s, Full * (i - 1) + 1, Full * i)
    <2>1. \A i \in 1 .. q : B(i) \in Seq(S)
      BY <1>3
    <2>2. BlocksOf(s) = [i \in 1 .. q |-> B(i)]
      BY <1>4
    <2> HIDE DEF B
    <2> QED
      BY <1>1, <2>1, <2>2
  <1>6. RestOf(s) = SubSeq(s, x + 1, Len(s))
    BY DEF RestOf, x, q
  <1>7. x <= Len(s) /\ Len(s) - x = Len(s) % Full /\ Len(s) \in 0 .. Len(s)
    BY <1>1, <1>2
  <1>8. RestOf(s) \in Seq(S) /\ Len(RestOf(s)) = Len(s) % Full
    BY <1>2, <1>6, <1>7, Part
  <1>9. x \in 0 .. Len(s)
    BY <1>1, <1>2, <1>7
  <1> QED
    BY <1>1, <1>4, <1>5, <1>8, <1>9 DEF x, q

(* Behind whole blocks, blocks begin as at the beginning.                   *)
LEMMA Aligned ==
    ASSUME NEW S, NEW f \in Seq(S), NEW g \in Seq(S), NEW q \in Nat, Len(f) = Full * q
    PROVE  BlocksOf(f \o g) = BlocksOf(f) \o BlocksOf(g) /\ RestOf(f \o g) = RestOf(g)
  <1> DEFINE p == Len(g) \div Full
             r == Len(g) % Full
  <1>1. /\ p \in Nat /\ r \in 0 .. Full - 1 /\ Len(g) = Full * p + r /\ Len(f) \in Nat /\ Len(g) \in Nat
    <2>1. Len(f) \in Nat /\ Len(g) \in Nat
      OBVIOUS
    <2> QED
      BY <2>1, Quotient
  <1> HIDE DEF p, r
  <1>2. 0 \in 0 .. Full - 1 /\ r \in Nat /\ Full \in Nat
    BY <1>1, FullIsPositive
  <1>3. Len(f) \div Full = q
    <2>1. Len(f) = Full * q + 0
      BY <1>1
    <2> QED
      BY <1>2, <2>1, Unique
  <1>4. Full * (q + p) = Full * q + Full * p /\ Full * q \in Nat /\ Full * p \in Nat /\ q + p \in Nat
    BY <1>1, Rows, RowSum
  <1>5. f \o g \in Seq(S) /\ Len(f \o g) = Full * (q + p) + r
    <2>1. f \o g \in Seq(S) /\ Len(f \o g) = Len(f) + Len(g)
      BY ConcatProperties
    <2> DEFINE a == Full * q
               b == Full * p
               c == Full * (q + p)
    <2>2. Len(f) = a /\ Len(g) = b + r /\ c = a + b /\ a \in Nat /\ b \in Nat /\ r \in Nat
      BY <1>1, <1>2, <1>4
    <2> HIDE DEF a, b, c
    <2>3. Len(f \o g) = c + r
      BY <2>1, <2>2
    <2> QED
      BY <2>1, <2>3 DEF c
  <1>6. Len(f \o g) \div Full = q + p
    BY <1>1, <1>4, <1>5, Unique
  <1>7. /\ BlocksOf(f \o g) \in Seq(Seq(S)) /\ Len(BlocksOf(f \o g)) = q + p
        /\ \A i \in 1 .. q + p : BlocksOf(f \o g)[i] = SubSeq(f \o g, Full * (i - 1) + 1, Full * i)
    BY <1>5, <1>6, Blocks
  <1>8. /\ BlocksOf(f) \in Seq(Seq(S)) /\ Len(BlocksOf(f)) = q
        /\ \A i \in 1 .. q : BlocksOf(f)[i] = SubSeq(f, Full * (i - 1) + 1, Full * i)
    BY <1>3, Blocks
  <1>9. /\ BlocksOf(g) \in Seq(Seq(S)) /\ Len(BlocksOf(g)) = p
        /\ \A i \in 1 .. p : BlocksOf(g)[i] = SubSeq(g, Full * (i - 1) + 1, Full * i)
    BY Blocks DEF p
  <1>10. ASSUME NEW i \in 1 .. q + p
         PROVE  BlocksOf(f \o g)[i] = (BlocksOf(f) \o BlocksOf(g))[i]
    <2>1. CASE i <= q
      <3> DEFINE a == Full * (i - 1)
                 b == Full * i
      <3>1. i - 1 \in Nat /\ i \in Nat /\ i - 1 <= i /\ i \in 1 .. q
        BY <1>1, <2>1
      <3>2. a \in Nat /\ b \in Nat /\ a <= b /\ b <= Full * q
        BY <2>1, <3>1, Rows
      <3>3. b \in 0 .. Len(f)
        BY <1>1, <3>2
      <3> HIDE DEF a, b
      <3>4. SubSeq(f \o g, a + 1, b) = SubSeq(f, a + 1, b)
        BY <3>2, <3>3, PartOfFirst
      <3>5. BlocksOf(f \o g)[i] = BlocksOf(f)[i]
        BY <1>7, <1>8, <3>1, <3>4 DEF a, b
      <3>6. (BlocksOf(f) \o BlocksOf(g))[i] = BlocksOf(f)[i]
        BY <1>8, <1>9, <3>1, ConcatProperties
      <3> QED
        BY <3>5, <3>6
    <2>2. CASE ~(i <= q)
      <3> DEFINE j == i - q
                 a == Full * (j - 1)
                 b == Full * j
      <3>1. j \in 1 .. p /\ j \in Nat /\ j - 1 \in Nat /\ j - 1 <= j /\ j <= p /\ i = q + j
            /\ i - 1 = q + (j - 1)
        BY <1>1, <2>2
      <3>2. a \in Nat /\ b \in Nat /\ a <= b /\ b <= Full * p
        BY <1>1, <3>1, Rows
      <3>3. b \in 0 .. Len(g)
        <4>1. Full * p <= Len(g)
          BY <1>1, <1>2, <1>4
        <4> QED
          BY <1>1, <1>4, <3>2, <4>1
      <3>4. Full * (i - 1) = Len(f) + a /\ Full * i = Len(f) + b
        BY <3>1, RowSum
      <3> HIDE DEF a, b
      <3>5. SubSeq(f \o g, Len(f) + a + 1, Len(f) + b) = SubSeq(g, a + 1, b)
        BY ZenonT(60), <3>2, <3>3, PartOfSecond
      <3>6. BlocksOf(g)[j] = SubSeq(g, a + 1, b)
        BY <1>9, <3>1 DEF a, b
      <3>7. BlocksOf(f \o g)[i] = BlocksOf(g)[j]
        BY <1>7, <3>4, <3>5, <3>6
      <3>8. (BlocksOf(f) \o BlocksOf(g))[i] = BlocksOf(g)[j]
        BY <1>8, <1>9, <2>2, ConcatProperties
      <3> QED
        BY <3>7, <3>8
    <2> QED
      BY <2>1, <2>2
  <1>11. BlocksOf(f) \o BlocksOf(g) \in Seq(Seq(S)) /\ Len(BlocksOf(f) \o BlocksOf(g)) = q + p
    BY <1>8, <1>9, ConcatProperties
  <1>12. BlocksOf(f \o g) = BlocksOf(f) \o BlocksOf(g)
    <2> DEFINE l == BlocksOf(f \o g)
               m == BlocksOf(f) \o BlocksOf(g)
    <2>1. /\ l \in Seq(Seq(S)) /\ m \in Seq(Seq(S)) /\ Len(l) = q + p /\ Len(m) = q + p
          /\ \A i \in 1 .. q + p : l[i] = m[i]
      BY <1>7, <1>10, <1>11
    <2> HIDE DEF l, m
    <2>2. l = m
      BY <2>1, SeqEqual
    <2> QED
      BY <2>2 DEF l, m
  <1>13. RestOf(f \o g) = RestOf(g)
    <2> DEFINE a == Full * p
               n == Len(g)
    <2>1. Full * (q + p) = Len(f) + a /\ Len(f \o g) = Len(f) + n
      BY <1>4, ConcatProperties
    <2>2. a \in Nat /\ n \in 0 .. Len(g) /\ a <= n
      BY <1>1, <1>2, <1>4
    <2>3. RestOf(f \o g) = SubSeq(f \o g, Len(f) + a + 1, Len(f) + n)
      BY <1>6, <2>1 DEF RestOf
    <2>4. RestOf(g) = SubSeq(g, a + 1, n)
      BY DEF RestOf, p
    <2> HIDE DEF a, n
    <2>5. SubSeq(f \o g, Len(f) + a + 1, Len(f) + n) = SubSeq(g, a + 1, n)
      BY SMTT(30), <2>2, PartOfSecond
    <2> QED
      BY <2>3, <2>4, <2>5
  <1> QED
    BY <1>12, <1>13

(* Less than a block is all rest; a whole one is all block.                 *)
LEMMA Short ==
    ASSUME NEW S, NEW s \in Seq(S), Len(s) < Full
    PROVE  BlocksOf(s) = <<>> /\ RestOf(s) = s
  <1>1. Len(s) \in Nat /\ Full \in Nat
    BY FullIsPositive
  <1>2. Len(s) \div Full = 0
    <2>1. Len(s) \in 0 .. Full - 1 /\ Len(s) = Full * 0 + Len(s)
      BY <1>1
    <2> QED
      BY <2>1, Unique
  <1>3. BlocksOf(s) \in Seq(Seq(S)) /\ Len(BlocksOf(s)) = 0
    BY <1>2, Blocks
  <1>4. RestOf(s) = SubSeq(s, 1, Len(s))
    BY <1>1, <1>2 DEF RestOf
  <1> QED
    BY <1>3, <1>4, EmptySeq, SubSeqFull

(* A sequence of the length of a block is one block.                         *)
LEMMA Whole ==
    ASSUME NEW S, NEW s \in Seq(S), Len(s) = Full
    PROVE  BlocksOf(s) = <<s>> /\ RestOf(s) = <<>>
  <1>1. Len(s) \in Nat /\ Full \in Nat /\ 0 \in 0 .. Full - 1 /\ Full = Full * 1 + 0
    BY FullIsPositive
  <1>2. Len(s) \div Full = 1 /\ Len(s) % Full = 0
    BY <1>1, Unique
  <1>3. /\ BlocksOf(s) \in Seq(Seq(S)) /\ Len(BlocksOf(s)) = 1
        /\ BlocksOf(s)[1] = SubSeq(s, Full * (1 - 1) + 1, Full * 1)
        /\ RestOf(s) \in Seq(S) /\ Len(RestOf(s)) = 0
    <2>1. /\ BlocksOf(s) \in Seq(Seq(S)) /\ Len(BlocksOf(s)) = 1
          /\ RestOf(s) \in Seq(S) /\ Len(RestOf(s)) = 0
      BY <1>2, Blocks
    <2>2. \A i \in 1 .. Len(s) \div Full : BlocksOf(s)[i] = SubSeq(s, Full * (i - 1) + 1, Full * i)
      BY Blocks
    <2>3. 1 \in 1 .. Len(s) \div Full
      BY <1>2
    <2> QED
      BY <2>1, <2>2, <2>3
  <1>4. SubSeq(s, Full * (1 - 1) + 1, Full * 1) = s
    <2>1. Full * (1 - 1) + 1 = 1 /\ Full * 1 = Len(s)
      BY <1>1
    <2> QED
      BY <2>1, SubSeqFull
  <1>5. <<s>> \in Seq(Seq(S)) /\ Len(<<s>>) = 1 /\ <<s>>[1] = s
    OBVIOUS
  <1>6. BlocksOf(s) = <<s>>
    <2> DEFINE one == <<s>>
    <2>1. one \in Seq(Seq(S)) /\ Len(one) = 1 /\ one[1] = s
      BY <1>5
    <2> HIDE DEF one
    <2>2. \A i \in 1 .. 1 : BlocksOf(s)[i] = one[i]
      <3>1. BlocksOf(s)[1] = s
        BY <1>3, <1>4, Zenon
      <3> QED
        BY <2>1, <3>1
    <2>3. BlocksOf(s) = one
      BY <1>3, <2>1, <2>2, SeqEqual
    <2> QED
      BY <2>3 DEF one
  <1> QED
    BY <1>3, <1>6, EmptySeq

(* A sequence is its blocks and its rest.                                   *)
LEMMA CutInBlocks ==
    ASSUME NEW S, NEW f \in Seq(S)
    PROVE  \E g \in Seq(S), q \in Nat :
              /\ Len(g) = Full * q /\ f = g \o RestOf(f) /\ BlocksOf(g) = BlocksOf(f)
              /\ Len(f) = Full * q + Len(RestOf(f)) /\ Len(RestOf(f)) \in 0 .. Full - 1
  <1> DEFINE q == Len(f) \div Full
             x == Full * q
             g == SubSeq(f, 1, x)
  <1>1. /\ q \in Nat /\ x \in 0 .. Len(f) /\ RestOf(f) \in Seq(S) /\ Len(RestOf(f)) = Len(f) % Full
    BY Blocks
  <1>2. Len(f) \in Nat /\ Len(f) % Full \in 0 .. Full - 1 /\ Len(f) = x + (Len(f) % Full)
    <2>1. Len(f) \in Nat
      OBVIOUS
    <2> QED
      BY <2>1, Quotient
  <1>3. RestOf(f) = SubSeq(f, x + 1, Len(f))
    BY DEF RestOf
  <1> HIDE DEF q, x
  <1>4. x \in Nat /\ x \in 0 .. Len(f)
    BY <1>1
  <1>5. g \in Seq(S) /\ Len(g) = x
    <2>1. 0 \in Nat /\ 0 <= x /\ x - 0 = x /\ 0 + 1 = 1
      BY <1>4
    <2>2. SubSeq(f, 0 + 1, x) \in Seq(S) /\ Len(SubSeq(f, 0 + 1, x)) = IF 0 <= x THEN x - 0 ELSE 0
      BY <1>4, Part
    <2> QED
      BY <2>1, <2>2
  <1>6. f = g \o RestOf(f)
    <2>1. 1 \in 1 .. Len(f) + 1 /\ x \in 1 - 1 .. Len(f) /\ Len(f) \in x .. Len(f)
      BY <1>2, <1>4
    <2>2. SubSeq(f, 1, x) \o SubSeq(f, x + 1, Len(f)) = SubSeq(f, 1, Len(f))
      BY <2>1, ConcatAdjacentSubSeq
    <2> QED
      BY <1>3, <2>2, SubSeqFull
  <1> HIDE DEF g
  <1>7. Len(RestOf(f)) < Full
    BY <1>1, <1>2, FullIsPositive
  <1>8. BlocksOf(RestOf(f)) = <<>>
    BY <1>1, <1>7, Short
  <1>9. BlocksOf(g \o RestOf(f)) = BlocksOf(g) \o BlocksOf(RestOf(f))
    BY <1>1, <1>5, Aligned DEF x
  <1>10. BlocksOf(g) \in Seq(Seq(S))
    BY <1>5, Blocks
  <1>11. BlocksOf(f) = BlocksOf(g)
    BY <1>6, <1>8, <1>9, <1>10, ConcatEmptySeq
  <1>12. Len(g) = Full * q /\ Len(f) = Full * q + Len(RestOf(f)) /\ Len(RestOf(f)) \in 0 .. Full - 1
    BY <1>1, <1>2, <1>5 DEF x
  <1> QED
    BY <1>1, <1>5, <1>6, <1>11, <1>12

(* ------------------------------- updates --------------------------------- *)

(* A new hasher has hashed the empty sequence.                               *)
LEMMA NewHasHashedNothing ==
    ASSUME NEW algo
    PROVE  NewHasher(algo) = Hashed(algo, <<>>)
  <1>1. <<>> \in Seq({}) /\ Len(<<>>) = 0 /\ 0 < Full
    BY EmptySeq, FullIsPositive
  <1>2. BlocksOf(<<>>) = <<>> /\ RestOf(<<>>) = <<>>
    BY <1>1, Short
  <1> QED
    BY <1>1, <1>2 DEF NewHasher, Hashed

(* The lesser of two numbers.                                                *)
LEMMA Lesser ==
    ASSUME NEW x \in Int, NEW y \in Int
    PROVE  Min({x, y}) \in {x, y} /\ Min({x, y}) <= x /\ Min({x, y}) <= y
  <1>1. \E m \in {x, y} : \A n \in {x, y} : m =< n
    OBVIOUS
  <1>2. Min({x, y}) \in {x, y} /\ \A n \in {x, y} : Min({x, y}) =< n
    BY <1>1, Zenon DEF Min
  <1> QED
    BY <1>2

(* Concatenation is associative,                                             *)
LEMMA Regroup ==
    ASSUME NEW S, NEW r \in Seq(S), NEW s \in Seq(S), NEW t \in Seq(S)
    PROVE  (r \o s) \o t = r \o (s \o t)
  BY ConcatAssociative

Associate(r, s, t) == (r \o s) \o t = r \o (s \o t)
(* under the name it is used by,                                             *)
LEMMA Associative ==
    ASSUME NEW S, NEW r \in Seq(S), NEW s \in Seq(S), NEW t \in Seq(S)
    PROVE  Associate(r, s, t)
  BY Regroup DEF Associate

AssociateFour(r, s, t, u) == (r \o s) \o (t \o u) = r \o ((s \o t) \o u)
(* and so it is for four sequences.                                          *)
LEMMA RegroupFour ==
    ASSUME NEW S, NEW r \in Seq(S), NEW s \in Seq(S), NEW t \in Seq(S), NEW u \in Seq(S)
    PROVE  AssociateFour(r, s, t, u)
  <1>1. s \o (t \o u) = (s \o t) \o u
    BY SMTT(30), Regroup
  <1> DEFINE v == t \o u
  <1>2. v \in Seq(S)
    BY ConcatProperties
  <1> HIDE DEF v
  <1>3. (r \o s) \o v = r \o (s \o v)
    BY <1>2, Regroup
  <1> QED
    BY <1>1, <1>3 DEF v, AssociateFour

(* update, written out for the algorithms that work on blocks.              *)
Take(pending, b) == IF pending = <<>> THEN 0 ELSE Min({Full - Len(pending), Len(b)})
Left(kept, more) == IF Len(kept) < Full /\ more = <<>> THEN kept ELSE RestOf(more)
Worked(algo, state, kept, more, total) ==
    [algo |-> algo, state |-> (state \o BlocksOf(kept)) \o BlocksOf(more),
     pending |-> Left(kept, more), total |-> total]
Updated(algo, state, pending, total, b, first, more) ==
    Update([algo |-> algo, state |-> state, pending |-> pending, total |-> total], b) =
       Worked(algo, state, pending \o first, more, total + Len(b))

(* What update makes of state and pending bytes, for the algorithms with     *)
(* blocks.                                                                   *)
LEMMA UpdateOfBlocks ==
    ASSUME NEW algo, algo # "Crc32", NEW state, NEW pending, NEW total, NEW b,
           NEW first, NEW more, first = SubSeq(b, 1, Take(pending, b)),
           more = SubSeq(b, Take(pending, b) + 1, Len(b))
    PROVE  Updated(algo, state, pending, total, b, first, more)
  <1> DEFINE h == [algo |-> algo, state |-> state, pending |-> pending, total |-> total]
  <1>1. h.algo = algo /\ h.state = state /\ h.pending = pending /\ h.total = total
    OBVIOUS
  <1> DEFINE kept == pending \o first
  <1>2. Update(h, b) =
           [h EXCEPT !.total = total + Len(b), !.pending = Left(kept, more),
                     !.state = (state \o BlocksOf(kept)) \o BlocksOf(more)]
    BY <1>1 DEF Update, Take, Left
  <1> HIDE DEF kept
  <1>3. Update(h, b) = Worked(algo, state, kept, more, total + Len(b))
    BY <1>2 DEF Worked
  <1> QED
    BY <1>3 DEF kept, Updated

(* The blocks of g, of what completes its rest, and of what is left.        *)
WholeAndRest(f, g, q, rest) ==
    f = g \o rest /\ Len(g) = Full * q /\ BlocksOf(g) = BlocksOf(f) /\ Len(rest) < Full
Completes(rest, b, first, more) ==
    /\ b = first \o more
    /\ IF rest = <<>> THEN Len(first) = 0
       ELSE \/ Len(first) = Full - Len(rest)
            \/ Len(first) < Full - Len(rest) /\ more = <<>>
Joined(f, b, kept, more) ==
    /\ BlocksOf(f \o b) = (BlocksOf(f) \o BlocksOf(kept)) \o BlocksOf(more)
    /\ RestOf(f \o b) = Left(kept, more)

AssociateBlocks(r, s, t) ==
    (BlocksOf(r) \o BlocksOf(s)) \o BlocksOf(t) = BlocksOf(r) \o (BlocksOf(s) \o BlocksOf(t))

(* Three sequences of blocks behind each other.                              *)
LEMMA ThreeBlocks ==
    ASSUME NEW S, NEW r \in Seq(S), NEW s \in Seq(S), NEW t \in Seq(S)
    PROVE  AssociateBlocks(r, s, t)
  <1>1. PICK x \in Seq(Seq(S)), y \in Seq(Seq(S)), z \in Seq(Seq(S)) :
           x = BlocksOf(r) /\ y = BlocksOf(s) /\ z = BlocksOf(t)
    BY Blocks
  <1>2. (x \o y) \o z = x \o (y \o z)
    <2> DEFINE T == Seq(S)
    <2>1. x \in Seq(T) /\ y \in Seq(T) /\ z \in Seq(T)
      OBVIOUS
    <2> HIDE DEF T
    <2>2. Associate(x, y, z)
      BY <2>1, Associative
    <2> QED
      BY <2>2 DEF Associate
  <1> QED
    BY <1>1, <1>2, Zenon DEF AssociateBlocks

(* The blocks before, the one completed and those behind it are the blocks   *)
(* of all.                                                                   *)
LEMMA JoinBlocks ==
    ASSUME NEW S, NEW f \in Seq(S), NEW b \in Seq(S), NEW g \in Seq(S), NEW q \in Nat,
           NEW rest \in Seq(S), NEW first \in Seq(S), NEW more \in Seq(S),
           WholeAndRest(f, g, q, rest), Completes(rest, b, first, more)
    PROVE  Joined(f, b, rest \o first, more)
  <1>1. f \o b = g \o ((rest \o first) \o more)
    <2>1. AssociateFour(g, rest, first, more)
      BY RegroupFour
    <2>2. f = g \o rest /\ b = first \o more
      BY DEF WholeAndRest, Completes
    <2> QED
      BY <2>1, <2>2, Zenon DEF AssociateFour
  <1>a. Len(g) = Full * q /\ BlocksOf(g) = BlocksOf(f) /\ Len(rest) < Full
    BY DEF WholeAndRest
  <1>b. IF rest = <<>> THEN Len(first) = 0
        ELSE \/ Len(first) = Full - Len(rest)
             \/ Len(first) < Full - Len(rest) /\ more = <<>>
    BY DEF Completes
  <1>2. PICK kept \in Seq(S) : kept = rest \o first
    BY ConcatProperties
  <1>3. Len(kept) = Len(rest) + Len(first) /\ Len(rest) \in Nat /\ Len(first) \in Nat /\ Full \in Nat
        /\ Full > 0
    BY <1>2, ConcatProperties, FullIsPositive
  <1>4. BlocksOf(kept \o more) = BlocksOf(kept) \o BlocksOf(more) /\ RestOf(kept \o more) = Left(kept, more)
    <2>1. CASE Len(kept) < Full /\ more = <<>>
      <3>1. kept \o more = kept /\ BlocksOf(kept) = <<>> /\ RestOf(kept) = kept
        BY <2>1, ConcatEmptySeq, Short
      <3>2. BlocksOf(more) = <<>>
        BY <1>3, <2>1, Short, EmptySeq
      <3>3. BlocksOf(kept) \o BlocksOf(more) = <<>>
        BY <3>1, <3>2, EmptySeq, ConcatEmptySeq
      <3> QED
        BY <2>1, <3>1, <3>3 DEF Left
    <2>2. CASE ~(Len(kept) < Full /\ more = <<>>)
      <3>1. Len(kept) = 0 \/ Len(kept) = Full
        <4>1. rest = <<>> => Len(rest) = 0
          BY EmptySeq
        <4> QED
          BY <1>3, <1>a, <1>b, <2>2, <4>1
      <3>2. \E k \in Nat : Len(kept) = Full * k
        <4>1. 0 = Full * 0 /\ Full = Full * 1 /\ 0 \in Nat /\ 1 \in Nat
          BY <1>3
        <4> QED
          BY <3>1, <4>1
      <3>3. BlocksOf(kept \o more) = BlocksOf(kept) \o BlocksOf(more)
            /\ RestOf(kept \o more) = RestOf(more)
        BY <3>2, Aligned
      <3> QED
        BY <2>2, <3>3 DEF Left
    <2> QED
      BY <2>1, <2>2
  <1>5. PICK t \in Seq(S) : t = kept \o more
    BY ConcatProperties
  <1>6. BlocksOf(g \o t) = BlocksOf(g) \o BlocksOf(t) /\ RestOf(g \o t) = RestOf(t)
    BY <1>a, Aligned
  <1>7. f \o b = g \o t
    BY <1>1, <1>2, <1>5
  <1>9. AssociateBlocks(g, kept, more)
    BY ThreeBlocks
  <1>10. BlocksOf(f \o b) = (BlocksOf(f) \o BlocksOf(kept)) \o BlocksOf(more)
    BY <1>a, <1>2, <1>4, <1>5, <1>6, <1>7, <1>9, Zenon DEF AssociateBlocks
  <1>11. RestOf(f \o b) = Left(kept, more)
    BY <1>4, <1>5, <1>6, <1>7, Zenon
  <1> QED
    BY <1>2, <1>10, <1>11, Zenon DEF Joined

(* The bytes that complete a block, or all there are, and the others.        *)
LEMMA TakeSome ==
    ASSUME NEW S, NEW rest \in Seq(S), NEW b \in Seq(S), Len(rest) < Full
    PROVE  \E first \in Seq(S), more \in Seq(S) :
              /\ first = SubSeq(b, 1, Take(rest, b))
              /\ more = SubSeq(b, Take(rest, b) + 1, Len(b))
              /\ Completes(rest, b, first, more)
  <1>1. Len(rest) \in Nat /\ Full \in Nat /\ Len(b) \in Nat
    BY FullIsPositive
  <1>2. PICK take \in 0 .. Len(b) :
           /\ take = Take(rest, b)
           /\ rest = <<>> => take = 0
           /\ rest # <<>> => take <= Full - Len(rest) /\ (take = Full - Len(rest) \/ take = Len(b))
    <2>1. Full - Len(rest) \in Nat /\ Full - Len(rest) \in Int /\ Len(b) \in Int
      BY <1>1
    <2> DEFINE m == Min({Full - Len(rest), Len(b)})
    <2> HIDE DEF m
    <2>2. m \in {Full - Len(rest), Len(b)} /\ m <= Full - Len(rest) /\ m <= Len(b)
      BY <2>1, Lesser, Zenon DEF m
    <2>3. Take(rest, b) = IF rest = <<>> THEN 0 ELSE m
      BY DEF m, Take
    <2>4. Take(rest, b) \in 0 .. Len(b)
      BY <1>1, <2>1, <2>2, <2>3
    <2> QED
      BY <1>1, <2>1, <2>2, <2>3, <2>4
  <1>3. take \in Nat /\ 0 <= take /\ take <= Len(b) /\ Len(b) \in 0 .. Len(b)
    BY <1>1
  <1>4. PICK first \in Seq(S) : first = SubSeq(b, 1, take) /\ Len(first) = take
    <2>1. SubSeq(b, 0 + 1, take) \in Seq(S)
          /\ Len(SubSeq(b, 0 + 1, take)) = IF 0 <= take THEN take - 0 ELSE 0
      BY Part
    <2>2. 0 + 1 = 1 /\ (IF 0 <= take THEN take - 0 ELSE 0) = take
      BY <1>3
    <2> QED
      BY <2>1, <2>2, Zenon
  <1>5. PICK more \in Seq(S) : more = SubSeq(b, take + 1, Len(b)) /\ Len(more) = Len(b) - take
    BY ZenonT(60), <1>3, Part
  <1>6. b = first \o more
    <2>1. 1 \in 1 .. Len(b) + 1 /\ take \in 1 - 1 .. Len(b) /\ Len(b) \in take .. Len(b)
      BY <1>1
    <2>2. SubSeq(b, 1, take) \o SubSeq(b, take + 1, Len(b)) = SubSeq(b, 1, Len(b))
      BY <2>1, ConcatAdjacentSubSeq
    <2> QED
      BY <1>4, <1>5, <2>2, SubSeqFull
  <1>7. rest # <<>> => \/ Len(first) = Full - Len(rest)
                       \/ Len(first) < Full - Len(rest) /\ more = <<>>
    <2>1. take = Len(b) => more = <<>>
      BY <1>3, <1>5, EmptySeq
    <2>2. Len(first) = take /\ Full - Len(rest) \in Nat
      BY <1>1, <1>4
    <2> HAVE rest # <<>>
    <2>3. take <= Full - Len(rest) /\ (take = Full - Len(rest) \/ take = Len(b))
      BY <1>2
    <2>4. CASE take = Full - Len(rest)
      BY <2>2, <2>4, Zenon
    <2>5. CASE take = Len(b) /\ take # Full - Len(rest)
      <3>1. take < Full - Len(rest)
        BY <1>3, <2>2, <2>3, <2>5
      <3> QED
        BY <2>1, <2>2, <2>5, <3>1, Zenon
    <2> QED
      BY <2>3, <2>4, <2>5, Zenon
  <1>8. Completes(rest, b, first, more)
    BY <1>2, <1>4, <1>6, <1>7, Zenon DEF Completes
  <1> QED
    BY <1>2, <1>4, <1>5, <1>8, Zenon

(* However the bytes are cut, update leaves what one update would.          *)
THEOREM UpdateHashes ==
    ASSUME NEW S, NEW f \in Seq(S), NEW b \in Seq(S), NEW algo
    PROVE  Update(Hashed(algo, f), b) = Hashed(algo, f \o b)
  <1>1. CASE algo = "Crc32"
    BY <1>1 DEF Update, Hashed
  <1>2. CASE algo # "Crc32"
    <2>1. PICK g \in Seq(S), q \in Nat :
             /\ Len(g) = Full * q /\ f = g \o RestOf(f) /\ BlocksOf(g) = BlocksOf(f)
             /\ Len(f) = Full * q + Len(RestOf(f)) /\ Len(RestOf(f)) \in 0 .. Full - 1
      BY CutInBlocks
    <2>2. PICK rest \in Seq(S) : rest = RestOf(f)
      BY Blocks
    <2>3. Len(rest) < Full
      BY <2>1, <2>2, FullIsPositive
    <2>4. PICK first \in Seq(S), more \in Seq(S) :
             /\ first = SubSeq(b, 1, Take(rest, b)) /\ more = SubSeq(b, Take(rest, b) + 1, Len(b))
             /\ Completes(rest, b, first, more)
      BY <2>3, TakeSome
    <2>5. Joined(f, b, rest \o first, more)
      <3>1. WholeAndRest(f, g, q, rest)
        BY <2>1, <2>2, <2>3 DEF WholeAndRest
      <3> QED
        BY <2>4, <3>1, JoinBlocks
    <2>6. Hashed(algo, f) =
             [algo |-> algo, state |-> BlocksOf(f), pending |-> rest, total |-> Len(f)]
      BY <1>2, <2>2 DEF Hashed
    <2>7. Update([algo |-> algo, state |-> BlocksOf(f), pending |-> rest, total |-> Len(f)], b)
             = Worked(algo, BlocksOf(f), rest \o first, more, Len(f) + Len(b))
      <3> DEFINE state == BlocksOf(f)
                 total == Len(f)
      <3> HIDE DEF state, total
      <3> DEFINE a == algo
      <3>1. Updated(a, state, rest, total, b, first, more)
        <4>1. a # "Crc32" /\ first = SubSeq(b, 1, Take(rest, b)) /\ more = SubSeq(b, Take(rest, b) + 1, Len(b))
          BY <1>2, <2>4
        <4> HIDE DEF a
        <4> QED
          BY <4>1, UpdateOfBlocks
      <3> QED
        BY <3>1 DEF state, total, Updated
    <2>8. Len(f \o b) = Len(f) + Len(b)
      BY ConcatProperties
    <2> QED
      BY <1>2, <2>5, <2>6, <2>7, <2>8, Zenon DEF Hashed, Worked, Joined
  <1> QED
    BY <1>1, <1>2

(* ------------------------------- padding --------------------------------- *)

(* A padding is so many zeros.                                               *)
LEMMA ZerosType ==
    ASSUME NEW S, <<"zero">> \in S, NEW n \in Nat
    PROVE  Zeros(n) \in Seq(S) /\ Len(Zeros(n)) = n /\ \A i \in 1 .. n : Zeros(n)[i] = <<"zero">>
  BY DEF Zeros

(* Two paddings behind each other are one.                                   *)
LEMMA ZerosAdd ==
    ASSUME NEW a \in Nat, NEW b \in Nat
    PROVE  Zeros(a + b) = Zeros(a) \o Zeros(b)
  <1> DEFINE S == {<<"zero">>}
  <1>1. <<"zero">> \in S /\ a + b \in Nat
    OBVIOUS
  <1> HIDE DEF S
  <1>2. PICK x \in Seq(S) : x = Zeros(a) /\ Len(x) = a /\ \A i \in 1 .. a : x[i] = <<"zero">>
    BY <1>1, ZerosType
  <1>3. PICK y \in Seq(S) : y = Zeros(b) /\ Len(y) = b /\ \A i \in 1 .. b : y[i] = <<"zero">>
    BY <1>1, ZerosType
  <1>4. PICK z \in Seq(S) : z = Zeros(a + b) /\ Len(z) = a + b /\ \A i \in 1 .. a + b : z[i] = <<"zero">>
    BY <1>1, ZerosType
  <1>5. PICK ww \in Seq(S) : /\ ww = x \o y /\ Len(ww) = a + b
                             /\ \A i \in 1 .. a + b : ww[i] = IF i <= a THEN x[i] ELSE y[i - a]
    <2>1. x \o y \in Seq(S) /\ Len(x \o y) = Len(x) + Len(y)
      OBVIOUS
    <2>2. \A i \in 1 .. Len(x) + Len(y) :
             (x \o y)[i] = IF i <= Len(x) THEN x[i] ELSE y[i - Len(x)]
      OBVIOUS
    <2>3. Len(x) = a /\ Len(y) = b
      BY <1>2, <1>3
    <2> QED
      BY <2>1, <2>2, <2>3, Zenon
  <1>6. \A i \in 1 .. a + b : ww[i] = z[i]
    <2> TAKE i \in 1 .. a + b
    <2>1. ww[i] = IF i <= a THEN x[i] ELSE y[i - a]
      BY <1>5
    <2>2. z[i] = <<"zero">>
      BY <1>4
    <2>3. CASE i <= a
      BY <1>2, <2>1, <2>2, <2>3
    <2>4. CASE ~(i <= a)
      <3>1. i - a \in 1 .. b
        BY <2>4
      <3>2. y[i - a] = <<"zero">>
        BY <1>3, <3>1
      <3> QED
        BY <2>1, <2>2, <2>4, <3>2, Zenon
    <2> QED
      BY <2>3, <2>4
  <1>7. ww = z
    BY <1>4, <1>5, <1>6, SeqEqual
  <1> QED
    BY <1>2, <1>3, <1>4, <1>5, <1>7

(* The length field has its size.                                            *)
LEMMA LengthType ==
    ASSUME NEW n, NEW S, <<"length", n>> \in S
    PROVE  LengthIs(n) \in Seq(S) /\ Len(LengthIs(n)) = LenField
  BY FullIsPositive DEF LengthIs

(* How many zeros fill the last block.                                      *)
Padding(n) == CHOOSE z \in 0 .. Full - 1 : (n + 1 + z + LenField) % Full = 0

(* The padding is the least that fills up one block, or two.                 *)
LEMMA PaddingIs ==
    ASSUME NEW q \in Nat, NEW r \in 0 .. Full - 1, NEW k \in {1, 2}, NEW n, n = Full * q + r,
           k * Full - LenField - r - 1 \in 0 .. Full - 1
    PROVE  Padding(n) = k * Full - LenField - r - 1
  <1> DEFINE z == k * Full - LenField - r - 1
  <1>1. Full \in Nat \ {0} /\ LenField \in Nat /\ Full * q \in Nat /\ k \in Nat /\ q + k \in Nat
        /\ Full * (q + k) = Full * q + Full * k /\ k * Full = Full * k /\ Full * k \in Nat
        /\ Full * (q + k) \in Nat
    BY FullIsPositive, Rows, RowSum
  <1>2. n + 1 + z + LenField = Full * (q + k) + 0 /\ 0 \in 0 .. Full - 1
    BY <1>1
  <1>3. (n + 1 + z + LenField) % Full = 0
    BY <1>1, <1>2, Unique
  <1>4. ASSUME NEW y \in 0 .. Full - 1, (n + 1 + y + LenField) % Full = 0
        PROVE  y = z
    <2> DEFINE m == n + 1 + y + LenField
               p == m \div Full
    <2>1. m \in Nat
      BY <1>1
    <2>2. p \in Nat /\ m = Full * p + (m % Full)
      BY <2>1, Quotient
    <2>3. m = Full * p
      <3>1. m % Full = 0
        BY <1>4
      <3> HIDE DEF m
      <3>2. Full * p \in Nat
        BY <2>2, Rows
      <3> HIDE DEF p
      <3> QED
        BY <2>2, <3>1, <3>2
    <2>4. m - Full * (q + k) = y - z
      BY <1>1, <1>2
    <2> HIDE DEF m, p, z
    <2>5. z \in 0 .. Full - 1
      BY DEF z
    <2>6. CASE p <= q + k - 1
      <3>1. Full * p <= Full * (q + k) - Full
        BY <1>1, <2>2, <2>6
      <3>2. Full * p \in Nat
        BY <2>2, Rows
      <3> QED
        BY <1>1, <2>3, <2>4, <2>5, <3>1, <3>2
    <2>7. CASE p >= q + k + 1
      <3>1. Full * p >= Full * (q + k) + Full
        BY <1>1, <2>2, <2>7
      <3>2. Full * p \in Nat
        BY <2>2, Rows
      <3> QED
        BY <1>1, <2>3, <2>4, <2>5, <3>1, <3>2
    <2>8. CASE p = q + k
      BY <1>1, <2>3, <2>4, <2>5, <2>8
    <2> QED
      BY <1>1, <2>2, <2>6, <2>7, <2>8
  <1>5. z \in 0 .. Full - 1
    OBVIOUS
  <1> HIDE DEF z
  <1>6. Padding(n) = z
    BY <1>3, <1>4, <1>5 DEF Padding
  <1> QED
    BY <1>6 DEF z

(* ------------------------------- finalize -------------------------------- *)

(* A sequence of one member.                                                 *)
LEMMA One ==
    ASSUME NEW S, NEW e \in S
    PROVE  <<e>> \in Seq(S) /\ Len(<<e>>) = 1
  OBVIOUS

(* A sequence with one more member.                                          *)
LEMMA OneMore ==
    ASSUME NEW S, NEW s \in Seq(S), NEW e \in S
    PROVE  s \o <<e>> \in Seq(S) /\ Len(s \o <<e>>) = Len(s) + 1
  OBVIOUS

(* What SHA-256 works in last: the rest of the bytes, the mark, zeros and    *)
(* the length make one block, or two.                                        *)
Padded(rest, z, n) == ((rest \o <<Mark>>) \o Zeros(z)) \o LengthIs(n)

(* The length of a padded rest.                                              *)
LEMMA PaddedType ==
    ASSUME NEW S, NEW n, {Mark, <<"zero">>, <<"length", n>>} \subseteq S,
           NEW rest \in Seq(S), NEW z \in Nat
    PROVE  Padded(rest, z, n) \in Seq(S) /\ Len(Padded(rest, z, n)) = Len(rest) + 1 + z + LenField
  <1>1. rest \o <<Mark>> \in Seq(S) /\ Len(rest \o <<Mark>>) = Len(rest) + 1
    OBVIOUS
  <1>2. Zeros(z) \in Seq(S) /\ Len(Zeros(z)) = z
    BY ZerosType
  <1>3. LengthIs(n) \in Seq(S) /\ Len(LengthIs(n)) = LenField
    BY LengthType
  <1> DEFINE m == rest \o <<Mark>>
             o == Zeros(z)
             l == LengthIs(n)
  <1>4. m \in Seq(S) /\ o \in Seq(S) /\ l \in Seq(S)
        /\ Len(m) = Len(rest) + 1 /\ Len(o) = z /\ Len(l) = LenField
    BY <1>1, <1>2, <1>3
  <1>5. Padded(rest, z, n) = (m \o o) \o l
    BY DEF Padded
  <1> HIDE DEF m, o, l
  <1>6. (m \o o) \o l \in Seq(S) /\ Len((m \o o) \o l) = Len(m) + Len(o) + Len(l)
    <2>1. PICK v \in Seq(S) : v = m \o o /\ Len(v) = Len(m) + Len(o)
      BY <1>4, ConcatProperties
    <2>2. v \o l \in Seq(S) /\ Len(v \o l) = Len(v) + Len(l)
      BY <1>4, ConcatProperties
    <2> QED
      BY <2>1, <2>2, Zenon
  <1> QED
    BY <1>4, <1>5, <1>6

(* One block more: the mark does not leave room for the length.             *)
OfTwo(rest, a, b, n) ==
    BlocksOf(Padded(rest, a + b, n)) =
       <<(rest \o <<Mark>>) \o Zeros(a)>> \o <<Zeros(b) \o LengthIs(n)>>

(* A rest that is padded to two blocks is two blocks.                        *)
LEMMA PaddedOfTwo ==
    ASSUME NEW S, NEW n, {Mark, <<"zero">>, <<"length", n>>} \subseteq S,
           NEW rest \in Seq(S), NEW a \in Nat, NEW b \in Nat,
           Len(rest) + 1 + a = Full, b + LenField = Full
    PROVE  OfTwo(rest, a, b, n)
  <1>1. PICK m \in Seq(S) : m = rest \o <<Mark>> /\ Len(m) = Len(rest) + 1
    <2>1. Mark \in S
      OBVIOUS
    <2> QED
      BY <2>1, OneMore, Zenon
  <1>2. PICK x \in Seq(S) : x = Zeros(a) /\ Len(x) = a
    BY ZerosType
  <1>3. PICK y \in Seq(S) : y = Zeros(b) /\ Len(y) = b
    BY ZerosType
  <1>4. PICK l \in Seq(S) : l = LengthIs(n) /\ Len(l) = LenField
    BY LengthType
  <1>5. Padded(rest, a + b, n) = (m \o (x \o y)) \o l
    BY <1>1, <1>2, <1>3, <1>4, ZerosAdd, Zenon DEF Padded
  <1>6. (m \o (x \o y)) \o l = (m \o x) \o (y \o l)
    <2>1. Associate(m, x, y)
      BY Associative
    <2>2. PICK ww \in Seq(S) : ww = m \o x
      BY ConcatProperties
    <2>3. Associate(ww, y, l)
      BY Associative
    <2> QED
      BY <2>1, <2>2, <2>3, Zenon DEF Associate
  <1>7. PICK t \in Seq(S) : t = m \o x /\ Len(t) = Full
    <2>1. m \o x \in Seq(S) /\ Len(m \o x) = Len(m) + Len(x)
      OBVIOUS
    <2> QED
      BY <1>1, <1>2, <2>1
  <1>8. PICK u \in Seq(S) : u = y \o l /\ Len(u) = Full
    <2>1. y \o l \in Seq(S) /\ Len(y \o l) = Len(y) + Len(l)
      OBVIOUS
    <2> QED
      BY <1>3, <1>4, <2>1
  <1>9. Len(t) = Full * 1 /\ 1 \in Nat
    BY <1>7, FullIsPositive
  <1>10. BlocksOf(t \o u) = BlocksOf(t) \o BlocksOf(u)
    BY <1>9, Aligned
  <1>11. BlocksOf(t) = <<t>> /\ BlocksOf(u) = <<u>>
    BY <1>7, <1>8, Whole
  <1> QED
    BY <1>1, <1>2, <1>3, <1>4, <1>5, <1>6, <1>7, <1>8, <1>10, <1>11, Zenon DEF OfTwo

(* SHA-256 ends with the digest of all bytes, padded to one block or two.    *)
LEMMA ShaDigest ==
    ASSUME NEW S, NEW f \in Seq(S), {Mark, <<"zero">>, <<"length", Len(f)>>} \subseteq S
    PROVE  ShaFinal(Hashed("Sha256", f)) = Digest("Sha256", f)
  <1> DEFINE n == Len(f)
             h == Hashed("Sha256", f)
  <1>1. PICK g \in Seq(S), q \in Nat :
           /\ Len(g) = Full * q /\ f = g \o RestOf(f) /\ BlocksOf(g) = BlocksOf(f)
           /\ Len(f) = Full * q + Len(RestOf(f)) /\ Len(RestOf(f)) \in 0 .. Full - 1
    BY CutInBlocks
  <1>2. PICK rest \in Seq(S) : rest = RestOf(f)
    BY Blocks
  <1>3. h.state = BlocksOf(f) /\ h.pending = rest /\ h.total = n
    BY <1>2 DEF Hashed
  <1>4. Full \in Nat /\ LenField \in Nat /\ LenField < Full /\ n \in Nat /\ Len(rest) \in 0 .. Full - 1
        /\ n = Full * q + Len(rest)
    BY <1>1, <1>2, FullIsPositive
  <1> HIDE DEF h
  <1>5. PICK z \in Nat : z = Padding(n) /\
           z = IF Len(rest) + 1 > Full - LenField THEN 2 * Full - LenField - Len(rest) - 1
               ELSE 1 * Full - LenField - Len(rest) - 1
    <2>1. CASE Len(rest) + 1 > Full - LenField
      <3>1. 2 * Full - LenField - Len(rest) - 1 \in 0 .. Full - 1
        BY <1>4, <2>1
      <3>2. Padding(n) = 2 * Full - LenField - Len(rest) - 1
        BY <1>4, <3>1, PaddingIs
      <3> QED
        BY <2>1, <3>1, <3>2
    <2>2. CASE ~(Len(rest) + 1 > Full - LenField)
      <3>1. 1 * Full - LenField - Len(rest) - 1 \in 0 .. Full - 1
        BY <1>4, <2>2
      <3>2. Padding(n) = 1 * Full - LenField - Len(rest) - 1
        BY <1>4, <3>1, PaddingIs
      <3> QED
        BY <2>2, <3>1, <3>2
    <2> QED
      BY <2>1, <2>2
  <1>6. Digest("Sha256", f) = BlocksOf(((f \o <<Mark>>) \o Zeros(z)) \o LengthIs(n))
    BY <1>5 DEF Digest, Padding
  <1>7. ((f \o <<Mark>>) \o Zeros(z)) \o LengthIs(n) = g \o Padded(rest, z, n)
    <2>1. PICK m \in Seq(S) : m = <<Mark>>
      <3>1. Mark \in S
        OBVIOUS
      <3> QED
        BY <3>1, One, Zenon
    <2>2. PICK y \in Seq(S) : y = Zeros(z)
      BY ZerosType
    <2>3. PICK l \in Seq(S) : l = LengthIs(n)
      BY LengthType
    <2>4. Associate(g, rest, m)
      BY Associative
    <2>5. PICK v \in Seq(S) : v = rest \o m
      BY ConcatProperties
    <2>6. Associate(g, v, y)
      BY Associative
    <2>7. PICK ww \in Seq(S) : ww = v \o y
      BY ConcatProperties
    <2>8. Associate(g, ww, l)
      BY Associative
    <2>9. f = g \o rest
      BY <1>1, <1>2
    <2> HIDE DEF n
    <2> QED
      BY <2>1, <2>2, <2>3, <2>4, <2>5, <2>6, <2>7, <2>8, <2>9, Zenon DEF Associate, Padded
  <1>8. PICK t \in Seq(S) : t = Padded(rest, z, n) /\ Len(t) = Len(rest) + 1 + z + LenField
    BY ZenonT(60), PaddedType
  <1>9. BlocksOf(g \o t) = BlocksOf(g) \o BlocksOf(t)
    BY <1>1, Aligned
  <1>10. Digest("Sha256", f) = BlocksOf(f) \o BlocksOf(t)
    BY <1>1, <1>6, <1>7, <1>8, <1>9, Zenon
  <1>11. Append(rest, Mark) = rest \o <<Mark>> /\ Len(Append(rest, Mark)) = Len(rest) + 1
    <2>1. Mark \in S
      OBVIOUS
    <2> QED
      BY <2>1, AppendIsConcat, AppendProperties
  <1>12. PICK m \in Seq(S) : m = rest \o <<Mark>> /\ m = Append(rest, Mark) /\ Len(m) = Len(rest) + 1
    <2>1. Mark \in S
      OBVIOUS
    <2> QED
      BY <1>11, <2>1, AppendProperties
  <1>13. CASE Len(m) > Full - LenField
    <2> DEFINE a == Full - Len(m)
               b == Full - LenField
    <2>1. /\ a \in Nat /\ b \in Nat /\ z = a + b /\ Len(rest) + 1 + a = Full /\ b + LenField = Full
      BY SMTT(30), <1>4, <1>5, <1>12, <1>13
    <2>2. b - Len(<<>>) = b /\ <<>> \o Zeros(b) = Zeros(b)
      <3>1. Zeros(b) \in Seq(S)
        BY <2>1, ZerosType
      <3> QED
        BY <2>1, <3>1, ConcatEmptySeq
    <2>3. ShaFinal(h) = (BlocksOf(f) \o <<m \o Zeros(a)>>)
                           \o <<(<<>> \o Zeros(b - Len(<<>>))) \o LengthIs(n)>>
      BY <1>3, <1>12, <1>13 DEF ShaFinal
    <2> HIDE DEF a, b
    <2>4. BlocksOf(Padded(rest, a + b, n)) = <<m \o Zeros(a)>> \o <<Zeros(b) \o LengthIs(n)>>
      <3> DEFINE k == n
      <3>1. {Mark, <<"zero">>, <<"length", k>>} \subseteq S
        OBVIOUS
      <3> HIDE DEF k
      <3>2. OfTwo(rest, a, b, k)
        BY <2>1, <3>1, PaddedOfTwo
      <3> QED
        BY <1>12, <3>2, Zenon DEF k, OfTwo
    <2>5. PICK x \in Seq(Seq(S)) : x = <<m \o Zeros(a)>>
      <3>1. PICK u \in Seq(S) : u = Zeros(a)
        BY <2>1, ZerosType
      <3>2. PICK v \in Seq(S) : v = m \o u
        BY ConcatProperties
      <3>3. <<v>> \in Seq(Seq(S))
        BY One, Zenon
      <3> QED
        BY <3>1, <3>2, <3>3, Zenon
    <2>6. PICK y \in Seq(Seq(S)) : y = <<Zeros(b) \o LengthIs(n)>>
      <3>1. PICK u \in Seq(S) : u = Zeros(b)
        BY <2>1, ZerosType
      <3>2. PICK v \in Seq(S) : v = LengthIs(n)
        BY LengthType
      <3>3. PICK o \in Seq(S) : o = u \o v
        BY ConcatProperties
      <3>4. <<o>> \in Seq(Seq(S))
        BY One, Zenon
      <3> QED
        BY <3>1, <3>2, <3>3, <3>4, Zenon
    <2>7. PICK ww \in Seq(Seq(S)) : ww = BlocksOf(f)
      BY Blocks
    <2>8. (ww \o x) \o y = ww \o (x \o y)
      <3> DEFINE T == Seq(S)
      <3>1. ww \in Seq(T) /\ x \in Seq(T) /\ y \in Seq(T)
        OBVIOUS
      <3> HIDE DEF T
      <3>2. Associate(ww, x, y)
        BY <3>1, Associative
      <3> QED
        BY <3>2 DEF Associate
    <2>9. ShaFinal(h) = (ww \o x) \o y
      BY <2>2, <2>3, <2>5, <2>6, <2>7, Zenon
    <2>10. Digest("Sha256", f) = ww \o (x \o y)
      BY <1>8, <1>10, <2>1, <2>4, <2>5, <2>6, <2>7, Zenon
    <2> QED
      BY <2>8, <2>9, <2>10, Zenon DEF h
  <1>14. CASE ~(Len(m) > Full - LenField)
    <2>1. z = Full - LenField - Len(m) /\ Len(t) = Full
      BY SMTT(30), <1>4, <1>5, <1>8, <1>12, <1>14
    <2>2. BlocksOf(t) = <<t>>
      BY <2>1, Whole
    <2>3. t = (m \o Zeros(z)) \o LengthIs(n)
      BY <1>8, <1>12 DEF Padded
    <2>4. ShaFinal(h) = (BlocksOf(f) \o <<>>)
                           \o <<(m \o Zeros(Full - LenField - Len(m))) \o LengthIs(n)>>
      BY <1>3, <1>12, <1>14 DEF ShaFinal
    <2>5. BlocksOf(f) \o <<>> = BlocksOf(f)
      <3>1. BlocksOf(f) \in Seq(Seq(S))
        BY Blocks
      <3> QED
        BY <3>1, ConcatEmptySeq
    <2> QED
      BY <1>10, <2>1, <2>2, <2>3, <2>4, <2>5, Zenon DEF h
  <1> QED
    BY <1>13, <1>14

(* finalize gives the digest of the bytes seen.                             *)
THEOREM FinalizeDigests ==
    ASSUME NEW S, NEW f \in Seq(S), NEW algo \in Algorithms
    PROVE  Finalize(Hashed(algo, f)) = Digest(algo, f)
  <1>1. CASE algo = "Sha256"
    <2> DEFINE U == S \cup {Mark, <<"zero">>, <<"length", Len(f)>>}
    <2>1. f \in Seq(U) /\ {Mark, <<"zero">>, <<"length", Len(f)>>} \subseteq U
      OBVIOUS
    <2> HIDE DEF U
    <2>2. ShaFinal(Hashed("Sha256", f)) = Digest("Sha256", f)
      BY <2>1, ShaDigest
    <2>3. Finalize(Hashed("Sha256", f)) = ShaFinal(Hashed("Sha256", f))
      BY DEF Finalize, Hashed
    <2> QED
      BY <1>1, <2>2, <2>3
  <1>2. CASE algo = "Crc32"
    BY <1>2 DEF Finalize, Hashed, Digest
  <1>3. CASE algo = "XxHash64"
    <2>1. Len(f) < Full => BlocksOf(f) = <<>>
      BY Short
    <2>2. Len(f) \in Nat /\ Full \in Nat
      BY FullIsPositive
    <2>3. (IF Len(f) >= Full THEN BlocksOf(f) ELSE <<>>) = BlocksOf(f)
      BY <2>1, <2>2
    <2> QED
      BY <1>3, <2>3 DEF Finalize, Hashed, Digest
  <1> QED
    BY <1>1, <1>2, <1>3 DEF Algorithms

(* ----------------------- pieces of a growing file ------------------------ *)

(* What follows a piece of a sequence makes it longer.                      *)
LEMMA PiecesJoin ==
    ASSUME NEW S, NEW f \in Seq(S), NEW a \in Nat, NEW m \in Nat, NEW n \in Nat,
           a + m + n <= Len(f)
    PROVE  SubSeq(f, a + 1, a + m) \o SubSeq(f, a + m + 1, a + m + n) = SubSeq(f, a + 1, a + m + n)
  <1>1. Len(f) \in Nat
    OBVIOUS
  <1>2. a + 1 \in 1 .. Len(f) + 1 /\ a + m \in (a + 1) - 1 .. Len(f) /\ a + m + n \in a + m .. Len(f)
    BY <1>1
  <1> QED
    BY <1>2, ConcatAdjacentSubSeq

Grown(f, g) ==
    Len(f) <= Len(g) /\ \A m \in 0 .. Len(f) : SubSeq(g, 1, m) = SubSeq(f, 1, m)

(* A file that has grown holds the pieces it held.                           *)
LEMMA PieceKept ==
    ASSUME NEW f \in Seq(Byte), NEW g \in Seq(Byte), Grown(f, g),
           NEW a \in Nat, NEW n \in 0 .. Len(f), a <= n
    PROVE  SubSeq(g, a + 1, n) = SubSeq(f, a + 1, n)
  <1>1. Len(f) \in Nat /\ Len(g) \in Nat /\ Len(f) <= Len(g) /\ n \in 0 .. Len(g) /\ n \in Nat
    BY DEF Grown
  <1>2. SubSeq(g, 1, Len(f)) = f
    <2>1. SubSeq(g, 1, Len(f)) = SubSeq(f, 1, Len(f))
      BY <1>1 DEF Grown
    <2> QED
      BY <2>1, SubSeqFull
  <1>3. \A i \in 1 .. Len(f) : g[i] = f[i]
    <2>1. /\ Len(SubSeq(g, 0 + 1, Len(f))) = Len(f)
          /\ \A i \in 1 .. Len(f) : SubSeq(g, 0 + 1, Len(f))[i] = g[0 + i]
      BY <1>1, SubSeqType
    <2>2. SubSeq(g, 0 + 1, Len(f)) = f /\ \A i \in 1 .. Len(f) : 0 + i = i
      BY <1>1, <1>2
    <2> QED
      BY <2>1, <2>2
  <1> DEFINE l == SubSeq(g, a + 1, n)
             r == SubSeq(f, a + 1, n)
  <1>4. l \in Seq(Byte) /\ Len(l) = n - a /\ \A i \in 1 .. n - a : l[i] = g[a + i]
    BY <1>1, SubSeqType
  <1>5. r \in Seq(Byte) /\ Len(r) = n - a /\ \A i \in 1 .. n - a : r[i] = f[a + i]
    BY <1>1, SubSeqType
  <1>6. \A i \in 1 .. n - a : a + i \in 1 .. Len(f)
    BY <1>1
  <1> HIDE DEF l, r
  <1>7. l = r
    BY <1>3, <1>4, <1>5, <1>6, SeqEqual
  <1> QED
    BY <1>7 DEF l, r

(* ---------------------------- the others step ---------------------------- *)

ReadGoesOn == IInv /\ rd.pc # "idle" /\ "truncated" \notin meanwhile

(* Who reads has no other call under way.                                    *)
LEMMA ReadersDoNotWrite ==
    ASSUME IInv, rd.pc # "idle"
    PROVE  put[Owner].pc = "idle" /\ ed.pc = "idle" /\ w.pc \in {"none", "reading"}
  BY DEF IInv, Modes, WriterInv, Committing

(* Unless they truncate, others only let the versions grow.                  *)
LEMMA OthersGrow ==
    ASSUME IInv, rd.pc # "idle", OthersDo, "truncated" \notin meanwhile'
    PROVE  /\ "truncated" \notin meanwhile /\ UNCHANGED rd
           /\ Present \in Nat /\ Present <= Present' /\ Present' \in Nat
           /\ \A v \in 1 .. Present :
                 versions[v] \in Seq(Byte) /\ versions'[v] \in Seq(Byte) /\ Grown(versions[v], versions'[v])
  <1>1. FileStep /\ ~Opened(Owner) /\ FileTypes /\ PutInv /\ OthersInv
    BY OthersInFiles DEF IInv
  <1>2. put[Owner].pc = "idle"
    BY ReadersDoNotWrite
  <1>3. "truncated" \notin meanwhile
    BY <1>1, Remembered
  <1>4. FileTypes'
    BY <1>1, FilesInv
  <1>5. Present \in Nat /\ Present <= Present' /\ Present' \in Nat
    <2>1. Present <= Len(versions')
      BY <1>1, FileChanges
    <2> QED
      BY <1>1, <1>4, <2>1 DEF FileTypes, Present
  <1>6. ASSUME NEW v \in 1 .. Present
        PROVE  versions[v] \in Seq(Byte) /\ versions'[v] \in Seq(Byte) /\ Grown(versions[v], versions'[v])
    <2>1. versions[v] \in Seq(Byte)
      BY <1>1, ElementOfSeq DEF FileTypes, Present
    <2> QED
      BY <1>1, <1>2, <2>1, FilesGrow DEF Grown
  <1> QED
    BY <1>3, <1>5, <1>6 DEF OthersDo

(* What is known of a read stays true while others append and replace.      *)
LEMMA SeenStays ==
    ASSUME IInv, rd.pc # "idle", OthersDo, "truncated" \notin meanwhile', ReadInv
    PROVE  ReadInv'
  <1>1. /\ rd' = rd /\ Present \in Nat /\ Present <= Present' /\ Present' \in Nat
        /\ \A v \in 1 .. Present :
              versions[v] \in Seq(Byte) /\ versions'[v] \in Seq(Byte) /\ Grown(versions[v], versions'[v])
    BY OthersGrow
  <1>2. ASSUME NEW v \in 1 .. Present
        PROVE  /\ v \in 1 .. Present' /\ Len(versions[v]) \in Nat /\ Len(versions'[v]) \in Nat
               /\ Len(versions[v]) <= Len(versions'[v])
               /\ 0 .. Len(versions[v]) \subseteq 0 .. Len(versions'[v])
    BY <1>1 DEF Grown
  <1>3. rd.pc \in {"size", "read", "stream", "view"} => rd.fd \in 1 .. Present
    BY DEF IInv, ReadTypes
  <1>4. SizeInv' /\ HasherInv' /\ ApiInv'
    BY <1>1 DEF ReadInv, SizeInv, HasherInv, ApiInv, ByName, RIs
  <1>5. SeenInv'
    <2>1. \A s \in rd.seen : s[1] \in 1 .. Present' /\ s[2] \in 0 .. Len(versions'[s[1]])
      <3> TAKE s \in rd.seen
      <3>1. s[1] \in 1 .. Present /\ s[2] \in 0 .. Len(versions[s[1]])
        BY DEF ReadInv, SeenInv
      <3> QED
        BY <1>2, <3>1
    <2>2. rd.pc = "open" /\ ByName => \E v \in 1 .. Present' : rd.seen = {<<v, rd.size>>}
      BY <1>2 DEF ReadInv, SeenInv
    <2>3. rd.pc \in {"read", "view"} /\ ByName =>
             \E v \in 1 .. Present', n \in 0 .. Len(versions'[rd.fd]) :
                 rd.seen = {<<v, rd.size>>, <<rd.fd, n>>}
      BY <1>2, <1>3 DEF ReadInv, SeenInv
    <2>4. rd.pc \in {"size", "read", "stream"} /\ ~ByName =>
             \E n \in 0 .. Len(versions'[rd.fd]) :
                /\ <<rd.fd, n>> \in rd.seen
                /\ rd.pc = "read" =>
                      /\ rd.want <= StringMax
                      /\ \E size \in n .. Len(versions'[rd.fd]) : rd.want \in Wanted(size)
      <3> HAVE rd.pc \in {"size", "read", "stream"} /\ ~ByName
      <3>1. PICK n \in 0 .. Len(versions[rd.fd]) :
               /\ <<rd.fd, n>> \in rd.seen
               /\ rd.pc = "read" =>
                     /\ rd.want <= StringMax
                     /\ \E size \in n .. Len(versions[rd.fd]) : rd.want \in Wanted(size)
        BY DEF ReadInv, SeenInv
      <3>2. n \in 0 .. Len(versions'[rd.fd]) /\ n .. Len(versions[rd.fd]) \subseteq n .. Len(versions'[rd.fd])
        BY <1>2, <1>3
      <3> QED
        BY <3>1, <3>2
    <2> QED
      BY <1>1, <2>1, <2>2, <2>3, <2>4 DEF SeenInv, ByName, RIs, Wanted, Remaining
  <1>6. GotInv'
    <2>1. CASE rd.pc \in {"read", "stream"}
      <3>1. /\ Start + Len(rd.got) <= Len(versions[rd.fd])
            /\ rd.got = SubSeq(versions[rd.fd], Start + 1, Start + Len(rd.got))
        BY <2>1 DEF ReadInv, GotInv
      <3>2. Start \in Nat /\ Len(rd.got) \in Nat /\ rd.fd \in 1 .. Present
        <4>1. rd.req \in ReadRequests /\ rd.got \in Seq(Byte)
          BY ReadKnown DEF IInv
        <4>2. rd.req.api = "readRange" => rd.req.offset \in Nat
          BY <4>1 DEF ReadRequests
        <4> QED
          BY <1>3, <2>1, <4>1, <4>2 DEF Start, RIs
      <3> DEFINE n == Start + Len(rd.got)
      <3>3. n \in 0 .. Len(versions[rd.fd]) /\ Start <= n /\ n <= Len(versions'[rd.fd])
        BY <1>2, <3>1, <3>2
      <3> HIDE DEF n
      <3>4. SubSeq(versions'[rd.fd], Start + 1, n) = SubSeq(versions[rd.fd], Start + 1, n)
        BY <1>1, <3>2, <3>3, PieceKept
      <3>5. Start' = Start
        BY <1>1 DEF Start, RIs
      <3> QED
        BY <1>1, <3>1, <3>3, <3>4, <3>5 DEF GotInv, n
    <2> QED
      BY <1>1, <2>1 DEF GotInv
  <1> QED
    BY <1>4, <1>5, <1>6 DEF ReadInv

(* ------------------------------- moments --------------------------------- *)

(* The moments a read may be of, by what it has looked at.                   *)
LEMMA OfMoment ==
    /\ \A f : f \in Moments <=>
          \E s \in rd.seen : \E m \in s[2] .. Len(versions[s[1]]) : f = SubSeq(versions[s[1]], 1, m)
    /\ \A f : f \in Moments' <=>
          \E s \in rd'.seen : \E m \in s[2] .. Len(versions'[s[1]]) : f = SubSeq(versions'[s[1]], 1, m)
  BY DEF Moments

(* What readall and readRange take for the size of the file.                *)
Ranged == rd.req.api \in {"readall", "readRange"}

(* What is known of a request to read.                                       *)
LEMMA RequestKnown ==
    ASSUME rd.req \in ReadRequests
    PROVE  /\ rd.req.api \in WholeApis
           /\ rd.req.api = "readRange" => rd.req.offset \in Nat /\ rd.req.len \in Nat
           /\ Start \in Nat /\ (rd.req.api = "readRange" => Start = rd.req.offset)
           /\ (rd.req.api # "readRange" => Start = 0)
  <1>1. rd.req.api \in WholeApis
        /\ (rd.req.api = "readRange" => rd.req.offset \in Nat /\ rd.req.len \in Nat)
    BY DEF ReadRequests, WholeApis
  <1> QED
    BY <1>1 DEF Start, RIs

(* A number that fits its width does not wrap.                               *)
LEMMA NoWrap ==
    ASSUME NEW m \in Nat, NEW n \in Nat, n <= m
    PROVE  n % (m + 1) = n
  OBVIOUS

(* A number does not grow by wrapping.                                       *)
LEMMA Remains ==
    ASSUME NEW m \in Nat, NEW n \in Nat
    PROVE  n % (m + 1) \in Nat /\ n % (m + 1) <= n
  OBVIOUS

(* What readRange wants is what it is to answer, in a file of that size.     *)
LEMMA PromisedRange ==
    ASSUME rd.req \in ReadRequests, ~Wraps(rd.req), Ranged, NEW f \in Seq(Byte),
           NEW want \in Wanted(Len(f))
    PROVE  /\ want \in Nat /\ Start + want \in 0 .. Len(f)
           /\ ReadPromised(rd.req, f) = InString(SubSeq(f, Start + 1, Start + want))
  <1> DEFINE n == Len(f)
             o == rd.req.offset
             l == rd.req.len
  <1>1. n \in Nat /\ ReadSizeMax \in Nat
    BY WholeReadAssumption
  <1>2. CASE rd.req.api = "readall"
    <2>1. want = n /\ Start = 0
      BY <1>2, RequestKnown DEF Wanted, RIs
    <2>2. SubSeq(f, Start + 1, Start + want) = f
      BY <1>1, <2>1, SubSeqFull
    <2>3. ReadPromised(rd.req, f) = InString(f)
      BY <1>2, HashingApis DEF ReadPromised
    <2>4. want \in Nat /\ Start + want \in 0 .. n
      BY <1>1, <2>1
    <2> QED
      BY <2>2, <2>3, <2>4
  <1>3. CASE rd.req.api = "readRange"
    <2>1. o \in Nat /\ l \in Nat /\ Start = o
      BY <1>3, RequestKnown
    <2>2. ~(o > n) /\ want = Remaining(n)
      BY <1>3 DEF Wanted, RIs
    <2>3. o + l <= ReadSizeMax
      BY <1>1, <1>3, <2>1 DEF Wraps
    <2>4. want = IF l = 0 \/ o + l > n THEN n - o ELSE l
      <3>1. CASE l = 0
        <4>1. o + (n - o) = n /\ n % (ReadSizeMax + 1) <= n /\ n % (ReadSizeMax + 1) \in Nat
          <5>1. o + (n - o) = n
            BY <1>1, <2>1
          <5> HIDE DEF n, o
          <5>2. n % (ReadSizeMax + 1) <= n /\ n % (ReadSizeMax + 1) \in Nat
            BY <1>1, Remains, Zenon
          <5> QED
            BY <5>1, <5>2
        <4>2. ~((o + (n - o)) % (ReadSizeMax + 1) > n)
          BY <1>1, <4>1
        <4> QED
          BY <2>2, <3>1, <4>2 DEF Remaining
      <3>2. CASE l # 0
        <4>1. (o + l) % (ReadSizeMax + 1) = o + l
          <5> DEFINE k == o + l
          <5>1. k \in Nat /\ k <= ReadSizeMax
            BY <1>1, <2>1, <2>3
          <5> HIDE DEF k
          <5>2. k % (ReadSizeMax + 1) = k
            BY <1>1, <5>1, NoWrap, Zenon
          <5> QED
            BY <5>2 DEF k
        <4> QED
          BY <2>2, <3>2, <4>1 DEF Remaining
      <3> QED
        BY <3>1, <3>2
    <2> DEFINE e == IF l = 0 THEN n ELSE Min({n, o + l})
    <2>5. e = o + want
      <3>1. n \in Int /\ o + l \in Int
        BY <1>1, <2>1
      <3> DEFINE k == Min({n, o + l})
      <3> HIDE DEF k
      <3>2. k \in {n, o + l} /\ k <= n /\ k <= o + l
        BY <3>1, MinOfTwo, Zenon DEF k
      <3>3. e = IF l = 0 THEN n ELSE k
        BY DEF k
      <3> QED
        BY <1>1, <2>1, <2>2, <2>4, <3>2, <3>3
    <2>6. ReadPromised(rd.req, f) = InString(SubSeq(f, o + 1, e))
      BY <1>3, <2>2 DEF ReadPromised, Hashing
    <2>7. want \in Nat /\ o + want \in 0 .. n
      BY <1>1, <2>1, <2>2, <2>4
    <2> HIDE DEF e
    <2> QED
      BY <2>1, <2>5, <2>6, <2>7
  <1> QED
    BY <1>2, <1>3 DEF Ranged

(* And where it wants nothing, it is to refuse.                              *)
LEMMA PromisedNone ==
    ASSUME rd.req \in ReadRequests, Ranged, NEW f \in Seq(Byte), Wanted(Len(f)) = {}
    PROVE  ReadPromised(rd.req, f) = Refused
  <1>1. rd.req.api = "readRange" /\ rd.req.offset > Len(f)
    BY DEF Wanted, RIs, Ranged
  <1> QED
    BY <1>1 DEF ReadPromised, Hashing

(* An answer that is promised of a moment of a file the call has looked at.  *)
LEMMA AnswerOfMoment ==
    ASSUME NEW s \in rd'.seen, NEW m \in s[2] .. Len(versions'[s[1]]),
           rd'.answer = ReadPromised(rd'.req, SubSeq(versions'[s[1]], 1, m))
    PROVE  ReadIsOfOneMoment'
  <1>1. SubSeq(versions'[s[1]], 1, m) \in Moments'
    BY OfMoment
  <1> QED
    BY <1>1 DEF ReadIsOfOneMoment

(* The answer insert has got stays true while others append and replace.     *)
LEMMA AnswerStays ==
    ASSUME IInv, rd.pc = "done", OthersDo, ~OwnerDone, "truncated" \notin meanwhile', ReadInv,
           ReadIsOfOneMoment
    PROVE  ReadIsOfOneMoment'
  <1>1. /\ rd' = rd /\ "truncated" \notin meanwhile
        /\ \A v \in 1 .. Present :
              versions[v] \in Seq(Byte) /\ versions'[v] \in Seq(Byte) /\ Grown(versions[v], versions'[v])
    BY OthersGrow
  <1>2. rd.req.api = "readall"
    <2>1. w.pc = "reading"
      BY ReadersDoNotWrite DEF OwnerDone
    <2> QED
      BY <2>1 DEF IInv, InsertInv
  <1>3. CASE rd.failed \/ rd.missing
    BY <1>1, <1>3 DEF ReadIsOfOneMoment
  <1>4. CASE ~rd.failed /\ ~rd.missing
    <2>1. \E f \in Moments : rd.answer = ReadPromised(rd.req, f)
      BY <1>1, <1>2, <1>4 DEF ReadIsOfOneMoment, ReadReturned, Wraps
    <2>a. PICK f \in Moments : rd.answer = ReadPromised(rd.req, f)
      BY <2>1
    <2>b. PICK s \in rd.seen : \E m \in s[2] .. Len(versions[s[1]]) : f = SubSeq(versions[s[1]], 1, m)
      BY OfMoment
    <2>2. PICK m \in s[2] .. Len(versions[s[1]]) : f = SubSeq(versions[s[1]], 1, m)
      BY <2>b
    <2>3. s[1] \in 1 .. Present /\ s[2] \in 0 .. Len(versions[s[1]])
      BY DEF ReadInv, SeenInv
    <2>4. SubSeq(versions'[s[1]], 1, m) = SubSeq(versions[s[1]], 1, m) /\ m \in s[2] .. Len(versions'[s[1]])
      BY SMTT(30), <1>1, <2>3 DEF Grown
    <2> QED
      BY <1>1, <2>a, <2>2, <2>4, AnswerOfMoment
  <1> QED
    BY <1>3, <1>4

(* --------------------------- the steps of a read ------------------------- *)

(* What a read looks at is a version that exists, at a length it has.        *)
LEMMA SightKnown ==
    ASSUME FileTypes, Exists
    PROVE  /\ Present \in Nat /\ Present \in 1 .. Present /\ versions[Present] \in Seq(Byte)
           /\ Len(versions[Present]) \in Nat
           /\ Sight[1] = Present /\ Sight[2] = Len(versions[Present])
           /\ Sight[1] \in 1 .. Present /\ Sight[2] \in 0 .. Len(versions[Sight[1]])
  <1>1. Present \in 1 .. Present /\ Present \in Nat
    BY EmptySeq DEF FileTypes, Present, Exists
  <1>2. versions[Present] \in Seq(Byte)
    BY <1>1, ElementOfSeq DEF FileTypes, Present
  <1> QED
    BY <1>1, <1>2 DEF Sight

(* A call that returns keeps the invariant of reads.                         *)
LEMMA ReturnInv ==
    ASSUME UNCHANGED fileVars, rd'.pc = "done",
           \A s \in rd'.seen : s[1] \in 1 .. Present /\ s[2] \in 0 .. Len(versions[s[1]])
    PROVE  ReadInv'
  BY DEF fileVars, Present, ReadInv, SizeInv, SeenInv, GotInv, HasherInv, ApiInv

(* ReadMissing, ReadCallFails *)
LEMMA NoReadInv ==
    ASSUME ReadGoesOn, ReadInv, ReadMissing \/ ReadCallFails
    PROVE  ReadInv' /\ ReadIsOfOneMoment'
  <1>1. rd = [pc |-> rd.pc, req |-> rd.req, hasher |-> rd.hasher, fd |-> rd.fd,
              size |-> rd.size, want |-> rd.want, got |-> rd.got, answer |-> rd.answer,
              seen |-> rd.seen, failed |-> rd.failed, missing |-> rd.missing]
    BY ReadKnown DEF ReadGoesOn, IInv
  <1>2. rd'.pc = "done" /\ rd'.seen = rd.seen /\ (rd'.failed \/ rd'.missing) /\ UNCHANGED fileVars
    BY <1>1 DEF ReadMissing, ReadCallFails
  <1>3. ReadInv'
    BY <1>2, ReturnInv DEF ReadInv, SeenInv
  <1> QED
    BY <1>2, <1>3 DEF ReadIsOfOneMoment

(* Opening the file begins a read of one moment;                             *)
LEMMA OpenReadInv ==
    ASSUME ReadGoesOn, ReadInv, ReadOpen
    PROVE  ReadInv' /\ ReadIsOfOneMoment'
  <1>1. /\ rd = [pc |-> rd.pc, req |-> rd.req, hasher |-> rd.hasher, fd |-> rd.fd,
                 size |-> rd.size, want |-> rd.want, got |-> rd.got, answer |-> rd.answer,
                 seen |-> rd.seen, failed |-> rd.failed, missing |-> rd.missing]
        /\ rd.req \in ReadRequests /\ rd.got = <<>> /\ rd.pc = "open"
    BY ReadKnown DEF ReadGoesOn, IInv, ReadOpen, RAt
  <1>2. /\ rd.req.api \in {"readall", "readRange", "filesEqual", "readMapped"} \cup DOMAIN Hashing
        /\ DOMAIN Hashing = {"fileHash", "fileCrc32", "fileXxHash64"}
        /\ (rd.req.api # "readRange" => Start = 0)
    BY <1>1, RequestKnown, HashingApis DEF WholeApis
  <1> DEFINE pc == CASE RIs({"readall", "readRange"}) -> "size"
                     [] RIs({"filesEqual"}) -> "read"
                     [] RIs(DOMAIN Hashing) -> "stream"
                     [] RIs({"readMapped"}) -> "view"
  <1>3. /\ rd' = [rd EXCEPT !.pc = pc, !.fd = Present, !.seen = @ \cup {Sight}]
        /\ UNCHANGED fileVars /\ Exists /\ versions' = versions /\ Present' = Present
    BY DEF ReadOpen, fileVars, Present
  <1>4. /\ rd.req.api \in {"readall", "readRange"} => pc = "size"
        /\ rd.req.api = "filesEqual" => pc = "read"
        /\ rd.req.api \in DOMAIN Hashing => pc = "stream"
        /\ rd.req.api = "readMapped" => pc = "view"
    BY <1>2 DEF RIs
  <1> HIDE DEF pc
  <1>5. /\ rd'.pc = pc /\ rd'.req = rd.req /\ rd'.hasher = rd.hasher /\ rd'.fd = Present
        /\ rd'.size = rd.size /\ rd'.want = rd.want /\ rd'.got = <<>> /\ rd'.seen = rd.seen \cup {Sight}
    BY <1>1, <1>3
  <1>6. /\ Present \in Nat /\ Present \in 1 .. Present /\ versions[Present] \in Seq(Byte)
        /\ Len(versions[Present]) \in Nat
        /\ Sight[1] \in 1 .. Present /\ Sight[2] \in 0 .. Len(versions[Sight[1]])
        /\ Sight = <<Present, Len(versions[Present])>>
    BY <1>3, SightKnown DEF ReadGoesOn, IInv, Sight
  <1>7. SizeInv' /\ ApiInv'
    BY <1>1, <1>2, <1>4, <1>5 DEF ReadInv, SizeInv, ApiInv, ByName, RIs
  <1>8. HasherInv'
    BY <1>1, <1>2, <1>4, <1>5 DEF ReadInv, HasherInv, RIs
  <1>9. GotInv'
    <2>1. CASE rd'.pc \in {"read", "stream"}
      <3>1. Start = 0 /\ Start' = Start
        BY <1>2, <1>4, <1>5, <2>1 DEF Start, RIs
      <3>2. SubSeq(versions[Present], 1, 0) = <<>> /\ Len(<<>>) = 0
        BY <1>6, SubSeqEmpty, EmptySeq
      <3>3. Start' + Len(rd'.got) = 0 /\ Start' + 1 = 1
        BY <1>5, <3>1, <3>2
      <3>4. rd'.got = SubSeq(versions'[rd'.fd], Start' + 1, Start' + Len(rd'.got))
        BY <1>3, <1>5, <3>2, <3>3, Zenon
      <3>5. Start' + Len(rd'.got) <= Len(versions'[rd'.fd])
        BY <1>3, <1>5, <1>6, <3>3
      <3> QED
        BY <3>4, <3>5 DEF GotInv
    <2> QED
      BY <2>1 DEF GotInv
  <1>10. SeenInv'
    <2>1. \A s \in rd'.seen : s[1] \in 1 .. Present' /\ s[2] \in 0 .. Len(versions'[s[1]])
      BY <1>3, <1>5, <1>6 DEF ReadInv, SeenInv
    <2>2. rd'.pc \in {"read", "view"} /\ ByName' =>
             \E v \in 1 .. Present', n \in 0 .. Len(versions'[rd'.fd]) :
                 rd'.seen = {<<v, rd'.size>>, <<rd'.fd, n>>}
      <3> HAVE rd'.pc \in {"read", "view"} /\ ByName'
      <3>1. ByName
        BY <1>5 DEF ByName, RIs
      <3>2. PICK v \in 1 .. Present : rd.seen = {<<v, rd.size>>}
        BY <1>1, <3>1 DEF ReadInv, SeenInv
      <3>3. rd'.seen = {<<v, rd'.size>>, <<rd'.fd, Len(versions[Present])>>}
        BY <1>5, <1>6, <3>2
      <3>4. Len(versions[Present]) \in 0 .. Len(versions'[rd'.fd])
        BY <1>3, <1>5, <1>6
      <3> QED
        BY <1>3, <3>3, <3>4
    <2>3. rd'.pc \in {"size", "read", "stream"} /\ ~ByName' =>
             \E n \in 0 .. Len(versions'[rd'.fd]) : <<rd'.fd, n>> \in rd'.seen /\ rd'.pc # "read"
      <3> HAVE rd'.pc \in {"size", "read", "stream"} /\ ~ByName'
      <3>1. Len(versions[Present]) \in 0 .. Len(versions'[rd'.fd])
        BY <1>3, <1>5, <1>6
      <3>2. <<rd'.fd, Len(versions[Present])>> \in rd'.seen
        BY <1>5, <1>6
      <3>3. rd'.pc # "read"
        BY <1>2, <1>4, <1>5 DEF ByName, RIs
      <3> QED
        BY <3>1, <3>2, <3>3
    <2>4. rd'.pc # "open"
      BY <1>2, <1>4, <1>5
    <2> QED
      BY <2>1, <2>2, <2>3, <2>4 DEF SeenInv
  <1>11. rd'.pc # "done"
    BY <1>2, <1>4, <1>5
  <1> QED
    BY <1>7, <1>8, <1>9, <1>10, <1>11 DEF ReadInv, ReadIsOfOneMoment, ReadReturned

(* so does asking for the size first, as filesEqual and readMapped do;       *)
LEMMA StatReadInv ==
    ASSUME ReadGoesOn, ReadInv, ReadStat
    PROVE  ReadInv' /\ ReadIsOfOneMoment'
  <1>1. /\ rd = [pc |-> rd.pc, req |-> rd.req, hasher |-> rd.hasher, fd |-> rd.fd,
                 size |-> rd.size, want |-> rd.want, got |-> rd.got, answer |-> rd.answer,
                 seen |-> rd.seen, failed |-> rd.failed, missing |-> rd.missing]
        /\ rd.pc = "stat" /\ rd.req.api \in {"filesEqual", "readMapped"}
    BY ReadKnown DEF ReadGoesOn, IInv, ReadStat, RAt, ReadInv, ApiInv, ByName, RIs
  <1>2. /\ Present \in Nat /\ Present \in 1 .. Present /\ versions[Present] \in Seq(Byte)
        /\ Len(versions[Present]) \in Nat
        /\ Sight[1] \in 1 .. Present /\ Sight[2] \in 0 .. Len(versions[Sight[1]])
        /\ Sight = <<Present, Len(versions[Present])>>
    BY SightKnown DEF ReadGoesOn, IInv, Sight, ReadStat
  <1>3. UNCHANGED fileVars /\ versions' = versions /\ Present' = Present
    BY DEF ReadStat, fileVars, Present
  <1> DEFINE size == Len(versions[Present])
             f == versions[Present]
  <1>4. ASSUME NEW answer, StatAnswers(answer), answer = ReadPromised(rd.req, f)
        PROVE  ReadInv' /\ ReadIsOfOneMoment'
    <2>1. /\ rd'.pc = "done" /\ rd'.seen = {Sight} /\ rd'.answer = answer /\ rd'.req = rd.req
      BY <1>1, <1>4 DEF StatAnswers
    <2>2. ReadInv'
      BY <1>2, <1>3, <2>1, ReturnInv
    <2>3. /\ Sight \in rd'.seen /\ size \in Sight[2] .. Len(versions'[Sight[1]])
          /\ SubSeq(versions'[Sight[1]], 1, size) = f
      BY <1>2, <1>3, <2>1, SubSeqFull
    <2>4. ReadIsOfOneMoment'
      BY <1>4, <2>1, <2>3, AnswerOfMoment
    <2> QED
      BY <2>2, <2>4
  <1>5. CASE RIs({"filesEqual"}) /\ size # Len(Twin) /\ StatAnswers(Equal(FALSE))
    <2>1. ReadPromised(rd.req, f) = Equal(f = Twin) /\ (f = Twin) = FALSE
      BY <1>5, HashingApis DEF ReadPromised, RIs
    <2> QED
      BY <1>4, <1>5, <2>1
  <1>6. CASE RIs({"filesEqual"}) /\ size = Len(Twin) /\ size = 0 /\ StatAnswers(Equal(TRUE))
    <2>1. f = <<>> /\ Twin = <<>>
      BY <1>2, <1>6, WholeReadAssumption, EmptySeq
    <2>2. ReadPromised(rd.req, f) = Equal(f = Twin) /\ (f = Twin) = TRUE
      BY <1>6, <2>1, HashingApis DEF ReadPromised, RIs
    <2> QED
      BY <1>4, <1>6, <2>2
  <1>7. CASE RIs({"readMapped"}) /\ size = 0 /\ StatAnswers(Refused)
    <2>1. f = <<>>
      BY <1>2, <1>7, EmptySeq
    <2>2. ReadPromised(rd.req, f) = Refused
      BY <1>7, <2>1, HashingApis DEF ReadPromised, RIs
    <2> QED
      BY <1>4, <1>7, <2>2
  <1>8. CASE /\ size > 0 /\ (RIs({"filesEqual"}) => size = Len(Twin))
             /\ rd' = [rd EXCEPT !.pc = "open", !.size = size, !.want = size, !.seen = {Sight}]
    <2>1. /\ rd'.pc = "open" /\ rd'.size = size /\ rd'.want = size /\ rd'.seen = {Sight}
          /\ rd'.req = rd.req
      BY <1>1, <1>8
    <2>2. SizeInv' /\ ApiInv'
      BY <1>1, <1>8, <2>1 DEF SizeInv, ApiInv, RIs
    <2>3. SeenInv'
      BY <1>2, <1>3, <2>1 DEF SeenInv
    <2>4. GotInv' /\ HasherInv'
      BY <1>1, <2>1, HashingApis DEF GotInv, HasherInv, RIs
    <2> QED
      BY <2>1, <2>2, <2>3, <2>4 DEF ReadInv, ReadIsOfOneMoment, ReadReturned
  <1> QED
    BY <1>5, <1>6, <1>7, <1>8 DEF ReadStat

(* the size found is one the version has had;                                *)
LEMMA SizeReadInv ==
    ASSUME ReadGoesOn, ReadInv, ReadSize
    PROVE  ReadInv' /\ (~Wraps(rd.req) => ReadIsOfOneMoment')
  <1>1. /\ rd = [pc |-> rd.pc, req |-> rd.req, hasher |-> rd.hasher, fd |-> rd.fd,
                 size |-> rd.size, want |-> rd.want, got |-> rd.got, answer |-> rd.answer,
                 seen |-> rd.seen, failed |-> rd.failed, missing |-> rd.missing]
        /\ rd.req \in ReadRequests /\ rd.got = <<>> /\ rd.pc = "size"
        /\ rd.fd \in 1 .. Present /\ versions[rd.fd] \in Seq(Byte)
    BY ReadKnown DEF ReadGoesOn, IInv, ReadSize, Sized, RAt
  <1>2. rd.req.api \in {"readall", "readRange"}
    BY <1>1 DEF ReadInv, ApiInv, RIs
  <1>3. UNCHANGED fileVars /\ versions' = versions /\ Present' = Present
    BY DEF ReadSize, Sized, fileVars, Present
  <1>4. ~ByName /\ ~RIs(DOMAIN Hashing) /\ ~RIs({"filesEqual"}) /\ Ranged
    BY <1>2, HashingApis DEF ByName, RIs, Ranged
  <1>5. PICK n \in 0 .. Len(versions[rd.fd]) : <<rd.fd, n>> \in rd.seen
    BY <1>1, <1>4 DEF ReadInv, SeenInv
  <1>6. \A s \in rd.seen : s[1] \in 1 .. Present /\ s[2] \in 0 .. Len(versions[s[1]])
    BY DEF ReadInv, SeenInv
  <1> DEFINE f == versions[rd.fd]
             size == Len(f)
  <1>7. size \in Nat /\ size \in n .. size /\ SubSeq(f, 1, size) = f
    BY <1>1, SubSeqFull
  <1>8. CASE RReturn(Refused) /\ (Wanted(size) = {} \/ \E want \in Wanted(size) : want > StringMax)
    <2>1. /\ rd'.pc = "done" /\ rd'.seen = rd.seen /\ rd'.answer = Refused /\ rd'.req = rd.req
      BY <1>1, <1>8 DEF RReturn
    <2>2. ReadInv'
      BY <1>3, <1>6, <2>1, ReturnInv
    <2>3. ASSUME ~Wraps(rd.req) PROVE ReadPromised(rd.req, f) = Refused
      <3>1. CASE Wanted(size) = {}
        BY <1>1, <1>4, <3>1, PromisedNone
      <3>2. ASSUME NEW want \in Wanted(size), want > StringMax
            PROVE  ReadPromised(rd.req, f) = Refused
        <4>1. /\ want \in Nat /\ Start + want \in 0 .. Len(f)
              /\ ReadPromised(rd.req, f) = InString(SubSeq(f, Start + 1, Start + want))
          BY <1>1, <1>4, <2>3, <3>2, PromisedRange
        <4>2. Start \in Nat
          BY <1>1, RequestKnown
        <4> HIDE DEF f
        <4>3. Len(SubSeq(f, Start + 1, Start + want)) = want
          <5>1. f \in Seq(Byte)
            BY <1>1 DEF f
          <5> DEFINE e == Start + want
          <5>2. e \in 0 .. Len(f) /\ Start <= e /\ e - Start = want
            BY <4>1, <4>2
          <5> HIDE DEF e
          <5>3. Len(SubSeq(f, Start + 1, e)) = IF Start <= e THEN e - Start ELSE 0
            BY <4>2, <5>1, <5>2, SubSeqType
          <5> QED
            BY <5>2, <5>3 DEF e
        <4> QED
          BY <3>2, <4>1, <4>3 DEF InString
      <3> QED
        BY <1>8, <3>1, <3>2
    <2>4. ASSUME ~Wraps(rd.req) PROVE ReadIsOfOneMoment'
      <3> DEFINE s == <<rd.fd, n>>
      <3>1. /\ s \in rd'.seen /\ size \in s[2] .. Len(versions'[s[1]])
            /\ SubSeq(versions'[s[1]], 1, size) = f
        BY <1>3, <1>5, <1>7, <2>1
      <3>2. rd'.answer = ReadPromised(rd'.req, SubSeq(versions'[s[1]], 1, size))
        BY <2>1, <2>3, <2>4, <3>1
      <3> HIDE DEF s, size
      <3> QED
        BY <3>1, <3>2, AnswerOfMoment
    <2> QED
      BY <2>2, <2>4
  <1>9. ASSUME NEW want \in Wanted(size), want <= StringMax,
               rd' = [rd EXCEPT !.pc = "read", !.want = want]
        PROVE  ReadInv' /\ ReadIsOfOneMoment'
    <2>1. /\ rd'.pc = "read" /\ rd'.seen = rd.seen /\ rd'.want = want /\ rd'.req = rd.req
          /\ rd'.got = <<>> /\ rd'.fd = rd.fd
      BY <1>1, <1>9
    <2>2. SizeInv' /\ ApiInv' /\ HasherInv' /\ ~ByName' /\ Start' = Start
      BY <1>2, <1>3, <2>1 DEF SizeInv, ApiInv, HasherInv, ByName, RIs, Wanted, Remaining, Start
    <2>3. SeenInv'
      <3>1. /\ n \in 0 .. Len(versions'[rd'.fd]) /\ <<rd'.fd, n>> \in rd'.seen
            /\ size \in n .. Len(versions'[rd'.fd])
        BY <1>3, <1>5, <1>7, <2>1
      <3>2. \E k \in n .. Len(versions'[rd'.fd]) : rd'.want \in Wanted(k)'
        <4>1. \A k : Wanted(k)' = Wanted(k)
          BY <2>1 DEF Wanted, Remaining, RIs
        <4>2. PICK k \in n .. Len(versions'[rd'.fd]) : k = size
          BY <3>1
        <4>3. rd'.want \in Wanted(k)
          BY <1>9, <2>1, <4>2
        <4> QED
          BY <4>1, <4>3
      <3>3. \A s \in rd'.seen : s[1] \in 1 .. Present' /\ s[2] \in 0 .. Len(versions'[s[1]])
        BY <1>3, <1>6, <2>1
      <3> HIDE DEF size
      <3> QED
        BY <1>9, <2>1, <2>2, <3>1, <3>2, <3>3 DEF SeenInv
    <2>4. GotInv'
      <3>1. Start \in Nat /\ Start <= size
        <4>1. rd.req.api = "readRange" => ~(rd.req.offset > size)
          BY <1>9 DEF Wanted, RIs
        <4> QED
          BY <1>1, <1>7, <4>1, RequestKnown
      <3>2. SubSeq(f, Start + 1, Start) = <<>> /\ Len(<<>>) = 0
        BY <3>1, SubSeqEmpty, EmptySeq
      <3>3. Start' + Len(rd'.got) = Start
        BY <2>1, <2>2, <3>1, <3>2
      <3>4. rd'.got = SubSeq(versions'[rd'.fd], Start' + 1, Start' + Len(rd'.got))
        BY <1>3, <2>1, <2>2, <3>2, <3>3, Zenon
      <3>5. Start' + Len(rd'.got) <= Len(versions'[rd'.fd])
        BY <1>3, <2>1, <3>1, <3>3
      <3> QED
        BY <3>4, <3>5 DEF GotInv
    <2> QED
      BY <2>1, <2>2, <2>3, <2>4 DEF ReadInv, ReadIsOfOneMoment, ReadReturned
  <1> QED
    BY <1>8, <1>9 DEF ReadSize, Sized

(* What is read continues what has been got.                                *)
LEMMA GotMore ==
    ASSUME ReadGoesOn, ReadInv, rd.pc \in {"read", "stream"}, NEW n \in Nat,
           NEW bytes \in Got(rd.fd, Offset, n), rd'.got = rd.got \o bytes,
           rd'.fd = rd.fd, rd'.req = rd.req, UNCHANGED versions
    PROVE  GotInv' /\ bytes \in Seq(Byte)
  <1>1. /\ FileTypes /\ rd.req \in ReadRequests /\ rd.got \in Seq(Byte)
        /\ rd.fd \in 1 .. Present /\ versions[rd.fd] \in Seq(Byte) /\ Len(versions[rd.fd]) \in Nat
        /\ Len(rd.got) \in Nat
    BY ReadKnown DEF ReadGoesOn, IInv
  <1>2. Start \in Nat /\ Offset = Start + Len(rd.got) /\ Offset \in Nat /\ Start' = Start
    BY <1>1, RequestKnown DEF Offset, Start, RIs
  <1>3. /\ bytes \in Seq(Byte) /\ Len(bytes) \in Nat
        /\ Offset + Len(bytes) <= Len(versions[rd.fd])
        /\ bytes = SubSeq(versions[rd.fd], Offset + 1, Offset + Len(bytes))
    <2> DEFINE off == Offset
               fd == rd.fd
    <2>1. FileTypes /\ fd \in 1 .. Present /\ off \in Nat /\ bytes \in Got(fd, off, n)
      BY <1>1, <1>2
    <2> HIDE DEF off, fd
    <2>2. /\ bytes \in Seq(Byte) /\ off + Len(bytes) <= Len(versions[fd])
          /\ bytes = SubSeq(versions[fd], off + 1, off + Len(bytes))
      BY <2>1, GotBytes
    <2> QED
      BY <2>2 DEF off, fd
  <1>4. rd.got = SubSeq(versions[rd.fd], Start + 1, Start + Len(rd.got))
    BY DEF ReadInv, GotInv
  <1> DEFINE a == Len(rd.got)
             b == Len(bytes)
             f == versions[rd.fd]
  <1>5. a \in Nat /\ b \in Nat /\ f \in Seq(Byte) /\ Start + a + b <= Len(f)
    BY <1>1, <1>2, <1>3
  <1>6. Len(rd'.got) = a + b
    BY <1>1, <1>3
  <1>7. rd'.got = SubSeq(f, Start + 1, Start + a) \o SubSeq(f, Start + a + 1, Start + a + b)
    BY <1>2, <1>3, <1>4
  <1> HIDE DEF a, b, f
  <1>8. rd'.got = SubSeq(f, Start + 1, Start + a + b)
    BY <1>2, <1>5, <1>7, PiecesJoin
  <1>9. Start' + Len(rd'.got) = Start + a + b
    BY <1>2, <1>5, <1>6
  <1> QED
    BY <1>3, <1>5, <1>8, <1>9, <1>2 DEF GotInv, f

(* the bytes read follow those read before;                                  *)
LEMMA SomeReadInv ==
    ASSUME ReadGoesOn, ReadInv, ReadSome
    PROVE  ReadInv' /\ ReadIsOfOneMoment'
  <1>1. /\ rd = [pc |-> rd.pc, req |-> rd.req, hasher |-> rd.hasher, fd |-> rd.fd,
                 size |-> rd.size, want |-> rd.want, got |-> rd.got, answer |-> rd.answer,
                 seen |-> rd.seen, failed |-> rd.failed, missing |-> rd.missing]
        /\ rd.pc = "read" /\ rd.want \in Nat /\ rd.got \in Seq(Byte) /\ Len(rd.got) <= rd.want
    BY ReadKnown DEF ReadGoesOn, IInv, ReadSome, RAt
  <1>2. PICK bytes \in Got(rd.fd, Offset, rd.want - Len(rd.got)) : rd' = [rd EXCEPT !.got = @ \o bytes]
    BY DEF ReadSome
  <1>3. /\ rd'.pc = "read" /\ rd'.got = rd.got \o bytes /\ rd'.fd = rd.fd /\ rd'.req = rd.req
        /\ rd'.size = rd.size /\ rd'.want = rd.want /\ rd'.seen = rd.seen
        /\ UNCHANGED fileVars /\ versions' = versions /\ Present' = Present
    BY <1>1, <1>2 DEF ReadSome, fileVars, Present
  <1>4. rd.want - Len(rd.got) \in Nat
    BY <1>1
  <1>5. GotInv'
    BY <1>1, <1>2, <1>3, <1>4, GotMore
  <1>6. SizeInv' /\ ApiInv' /\ HasherInv'
    BY <1>1, <1>3 DEF ReadInv, SizeInv, ApiInv, HasherInv, ByName, RIs
  <1>7. SeenInv'
    BY ZenonT(60), <1>1, <1>3 DEF ReadInv, SeenInv, ByName, RIs, Wanted, Remaining
  <1> QED
    BY <1>3, <1>5, <1>6, <1>7 DEF ReadInv, ReadIsOfOneMoment, ReadReturned

(* the hasher has the bytes read so far,                                     *)
LEMMA HashReadInv ==
    ASSUME ReadGoesOn, ReadInv, HashSome
    PROVE  ReadInv' /\ ReadIsOfOneMoment'
  <1>1. /\ rd = [pc |-> rd.pc, req |-> rd.req, hasher |-> rd.hasher, fd |-> rd.fd,
                 size |-> rd.size, want |-> rd.want, got |-> rd.got, answer |-> rd.answer,
                 seen |-> rd.seen, failed |-> rd.failed, missing |-> rd.missing]
        /\ rd.pc = "stream" /\ rd.got \in Seq(Byte)
    BY ReadKnown DEF ReadGoesOn, IInv, HashSome, RAt
  <1>2. PICK bytes \in Got(rd.fd, Offset, Block) :
           rd' = [rd EXCEPT !.got = @ \o bytes, !.hasher = Update(@, bytes)]
    BY DEF HashSome
  <1>3. /\ rd'.pc = "stream" /\ rd'.got = rd.got \o bytes /\ rd'.fd = rd.fd /\ rd'.req = rd.req
        /\ rd'.size = rd.size /\ rd'.want = rd.want /\ rd'.seen = rd.seen
        /\ rd'.hasher = Update(rd.hasher, bytes)
        /\ UNCHANGED fileVars /\ versions' = versions /\ Present' = Present
    BY <1>1, <1>2 DEF HashSome, fileVars, Present
  <1>4. GotInv' /\ bytes \in Seq(Byte)
    BY <1>1, <1>2, <1>3, SharedFileAssumption, GotMore
  <1>5. RIs(DOMAIN Hashing)
    BY <1>1 DEF ReadInv, ApiInv
  <1>6. SizeInv' /\ ApiInv'
    BY <1>1, <1>3, <1>5 DEF ReadInv, SizeInv, ApiInv, RIs
  <1>7. HasherInv'
    <2>1. rd.hasher = Hashed(Hashing[rd.req.api], rd.got)
      BY <1>1, <1>5 DEF ReadInv, HasherInv
    <2>2. rd'.hasher = Hashed(Hashing[rd.req.api], rd.got \o bytes)
      BY <1>1, <1>3, <1>4, <2>1, UpdateHashes
    <2> QED
      BY <1>3, <2>2 DEF HasherInv
  <1>8. SeenInv'
    BY <1>1, <1>3 DEF ReadInv, SeenInv, ByName, RIs
  <1> QED
    BY <1>3, <1>4, <1>6, <1>7, <1>8 DEF ReadInv, ReadIsOfOneMoment, ReadReturned

(* and at the end of the file its digest is that of the file;                *)
LEMMA HashDoneInv ==
    ASSUME ReadGoesOn, ReadInv, HashDone
    PROVE  ReadInv' /\ ReadIsOfOneMoment'
  <1>1. /\ rd = [pc |-> rd.pc, req |-> rd.req, hasher |-> rd.hasher, fd |-> rd.fd,
                 size |-> rd.size, want |-> rd.want, got |-> rd.got, answer |-> rd.answer,
                 seen |-> rd.seen, failed |-> rd.failed, missing |-> rd.missing]
        /\ rd.pc = "stream" /\ rd.got \in Seq(Byte) /\ rd.req \in ReadRequests
        /\ rd.fd \in 1 .. Present /\ versions[rd.fd] \in Seq(Byte)
    BY ReadKnown DEF ReadGoesOn, IInv, HashDone, RAt
  <1>2. /\ rd'.pc = "done" /\ rd'.seen = rd.seen /\ rd'.req = rd.req
        /\ rd'.answer = Ok(Finalize(rd.hasher))
        /\ UNCHANGED fileVars /\ versions' = versions
    BY <1>1 DEF HashDone, RReturn, fileVars
  <1>3. rd.req.api \in DOMAIN Hashing /\ Hashing[rd.req.api] \in Algorithms
        /\ rd.req.api \notin {"readall", "readRange", "filesEqual", "readMapped"} /\ ~ByName
    BY <1>1, HashingApis DEF ReadInv, ApiInv, RIs, Hashing, Algorithms, ByName
  <1>4. rd.got = versions[rd.fd]
    <2>1. Start = 0 /\ Offset = Len(rd.got) /\ Len(rd.got) \in Nat
      BY <1>1, <1>3, RequestKnown DEF Offset
    <2>2. /\ Len(rd.got) <= Len(versions[rd.fd])
          /\ rd.got = SubSeq(versions[rd.fd], 1, Len(rd.got))
      BY <1>1, <2>1 DEF ReadInv, GotInv
    <2>3. Len(rd.got) = Len(versions[rd.fd])
      BY <1>1, <2>1, <2>2 DEF HashDone, AtEnd
    <2> QED
      BY <1>1, <2>2, <2>3, SubSeqFull
  <1> DEFINE f == versions[rd.fd]
             alg == Hashing[rd.req.api]
  <1>5. Finalize(rd.hasher) = Digest(alg, f)
    <2>1. rd.hasher = Hashed(alg, f)
      BY <1>1, <1>3, <1>4 DEF ReadInv, HasherInv, RIs
    <2>2. f \in Seq(Byte) /\ alg \in Algorithms
      BY <1>1, <1>3
    <2> HIDE DEF f, alg
    <2> QED
      BY <2>1, <2>2, FinalizeDigests
  <1>6. ReadPromised(rd.req, f) = Ok(Digest(alg, f))
    BY <1>3 DEF ReadPromised
  <1>7. PICK n \in 0 .. Len(f) : <<rd.fd, n>> \in rd.seen
    BY <1>1, <1>3 DEF ReadInv, SeenInv
  <1>8. ReadInv'
    BY <1>2, ReturnInv DEF ReadInv, SeenInv
  <1>9. ReadIsOfOneMoment'
    <2> DEFINE s == <<rd.fd, n>>
               m == Len(f)
    <2>1. s \in rd'.seen /\ m \in s[2] .. Len(versions'[s[1]]) /\ SubSeq(versions'[s[1]], 1, m) = f
      BY <1>1, <1>2, <1>7, SubSeqFull
    <2>2. rd'.answer = ReadPromised(rd'.req, SubSeq(versions'[s[1]], 1, m))
      BY <1>2, <1>5, <1>6, <2>1
    <2> HIDE DEF s, m, f
    <2> QED
      BY <2>1, <2>2, AnswerOfMoment
  <1> QED
    BY <1>8, <1>9

(* A piece of a beginning of a file is that piece of the file.              *)
LEMMA PieceOfPrefix ==
    ASSUME NEW f \in Seq(Byte), NEW m \in 0 .. Len(f), NEW a \in Nat, NEW n \in 0 .. m, a <= n
    PROVE  /\ SubSeq(f, 1, m) \in Seq(Byte) /\ Len(SubSeq(f, 1, m)) = m
           /\ SubSeq(SubSeq(f, 1, m), a + 1, n) = SubSeq(f, a + 1, n)
  <1>1. m \in Nat /\ Len(f) \in Nat /\ Len(f) \in 0 .. Len(f) /\ 0 + 1 = 1 /\ 0 <= m /\ m - 0 = m
    OBVIOUS
  <1>2. SubSeq(f, 0 + 1, m) \in Seq(Byte) /\ Len(SubSeq(f, 0 + 1, m)) = IF 0 <= m THEN m - 0 ELSE 0
    BY <1>1, SubSeqType
  <1>3. PICK g \in Seq(Byte) : g = SubSeq(f, 1, m) /\ Len(g) = m
    BY <1>1, <1>2
  <1>4. PICK h \in Seq(Byte) : h = SubSeq(f, m + 1, Len(f))
    BY <1>1, SubSeqType
  <1>5. f = g \o h
    <2>1. 1 \in 1 .. Len(f) + 1 /\ m \in 1 - 1 .. Len(f) /\ Len(f) \in m .. Len(f)
      BY <1>1
    <2>2. SubSeq(f, 1, m) \o SubSeq(f, m + 1, Len(f)) = SubSeq(f, 1, Len(f))
      BY <2>1, ConcatAdjacentSubSeq
    <2> QED
      BY <1>3, <1>4, <2>2, SubSeqFull
  <1>6. SubSeq(g \o h, a + 1, n) = SubSeq(g, a + 1, n)
    <2>1. n \in 0 .. Len(g)
      BY <1>3
    <2> QED
      BY <2>1, PartOfFirst
  <1> QED
    BY <1>3, <1>5, <1>6

(* Two versions looked at are two files.                                     *)
LEMMA TwoFiles ==
    ASSUME NEW v, NEW k, NEW fd, NEW n, v # fd
    PROVE  Cardinality({s[1] : s \in {<<v, k>>, <<fd, n>>}}) = 2
  <1>1. {s[1] : s \in {<<v, k>>, <<fd, n>>}} = {v} \cup {fd}
    OBVIOUS
  <1>2. IsFiniteSet({v}) /\ Cardinality({v}) = 1 /\ fd \notin {v}
    BY FS_Singleton
  <1>3. Cardinality({v} \cup {fd}) = 1 + 1
    BY <1>2, FS_AddElement
  <1> QED
    BY <1>1, <1>3

(* What the calls that ask for the size by name have looked at.             *)
LEMMA TwoSights ==
    ASSUME ReadGoesOn, ReadInv, rd.pc \in {"read", "view"}, ByName
    PROVE  \E v \in 1 .. Present, n \in 0 .. Len(versions[rd.fd]) :
              /\ rd.seen = {<<v, rd.size>>, <<rd.fd, n>>}
              /\ rd.size \in 0 .. Len(versions[v]) /\ rd.size > 0
              /\ v # rd.fd => Cardinality({s[1] : s \in rd.seen}) = 2
  <1>1. PICK v \in 1 .. Present, n \in 0 .. Len(versions[rd.fd]) :
           rd.seen = {<<v, rd.size>>, <<rd.fd, n>>}
    BY DEF ReadInv, SeenInv
  <1>2. rd.size \in 0 .. Len(versions[v])
    <2>1. <<v, rd.size>> \in rd.seen
      BY <1>1
    <2> QED
      BY <2>1 DEF ReadInv, SeenInv
  <1>3. rd.size > 0
    BY DEF ReadInv, SizeInv
  <1>4. v # rd.fd => Cardinality({s[1] : s \in rd.seen}) = 2
    BY <1>1, TwoFiles
  <1> QED
    BY <1>1, <1>2, <1>3, <1>4

(* The answer of one of these calls, that has returned.                     *)
LEMMA AnswerByName ==
    ASSUME ReadGoesOn, ReadInv, rd.pc \in {"read", "view"}, ByName, UNCHANGED versions,
           rd.fd \in 1 .. Present, versions[rd.fd] \in Seq(Byte),
           rd'.seen = rd.seen, rd'.req = rd.req, rd'.fd = rd.fd, rd'.size = rd.size,
           \/ /\ rd.size > Len(versions[rd.fd]) /\ rd'.answer \in {Equal(FALSE), Beyond}
           \/ /\ rd.size <= Len(versions[rd.fd])
              /\ rd'.answer = ReadPromised(rd.req, SubSeq(versions[rd.fd], 1, rd.size))
    PROVE  ReadIsOfOneMoment'
  <1>1. PICK v \in 1 .. Present, n \in 0 .. Len(versions[rd.fd]) :
           /\ rd.seen = {<<v, rd.size>>, <<rd.fd, n>>}
           /\ rd.size \in 0 .. Len(versions[v]) /\ rd.size > 0
           /\ v # rd.fd => Cardinality({s[1] : s \in rd.seen}) = 2
    BY TwoSights
  <1>2. CASE v # rd.fd
    <2>1. Cardinality({s[1] : s \in rd'.seen}) = 2
      BY <1>1, <1>2
    <2>2. rd'.req.api \in {"filesEqual", "readMapped"}
      BY DEF ByName, RIs
    <2>3. \/ rd'.size > Len(versions'[rd'.fd]) /\ rd'.answer \in {Equal(FALSE), Beyond}
          \/ rd'.answer = ReadPromised(rd'.req, SubSeq(versions'[rd'.fd], 1, rd'.size))
      OBVIOUS
    <2> QED
      BY <2>1, <2>2, <2>3 DEF ReadIsOfOneMoment
  <1>3. CASE v = rd.fd
    <2> DEFINE s == <<v, rd.size>>
               m == rd.size
    <2>1. Len(versions[rd.fd]) \in Nat /\ rd.size \in Nat /\ rd.size <= Len(versions[rd.fd])
      BY <1>1, <1>3
    <2>2. s \in rd'.seen /\ m \in s[2] .. Len(versions'[s[1]]) /\ s[1] = rd.fd
      BY <1>1, <1>3, <2>1
    <2>3. rd'.answer = ReadPromised(rd'.req, SubSeq(versions'[s[1]], 1, m))
      <3>1. ~(rd.size > Len(versions[rd.fd]))
        BY <2>1
      <3>2. rd'.answer = ReadPromised(rd.req, SubSeq(versions[rd.fd], 1, rd.size))
        BY <3>1
      <3>3. versions' = versions /\ rd'.req = rd.req /\ s[1] = rd.fd
        BY <2>2
      <3> HIDE DEF s
      <3> QED
        BY <3>2, <3>3, Zenon
    <2> HIDE DEF s, m
    <2> QED
      BY <2>2, <2>3, AnswerOfMoment
  <1> QED
    BY <1>2, <1>3

(* a mapping shows the version that was opened;                              *)
LEMMA ViewReadInv ==
    ASSUME ReadGoesOn, ReadInv, View
    PROVE  ReadInv' /\ ReadIsOfOneMoment'
  <1>1. /\ rd = [pc |-> rd.pc, req |-> rd.req, hasher |-> rd.hasher, fd |-> rd.fd,
                 size |-> rd.size, want |-> rd.want, got |-> rd.got, answer |-> rd.answer,
                 seen |-> rd.seen, failed |-> rd.failed, missing |-> rd.missing]
        /\ rd.pc = "view" /\ rd.fd \in 1 .. Present /\ versions[rd.fd] \in Seq(Byte) /\ rd.size \in Nat
    BY ReadKnown DEF ReadGoesOn, IInv, View, RAt
  <1>2. rd.req.api = "readMapped" /\ ByName /\ rd.size > 0
    BY <1>1 DEF ReadInv, ApiInv, SizeInv, ByName, RIs
  <1> DEFINE f == SubSeq(versions[rd.fd], 1, rd.size)
  <1>3. /\ rd'.pc = "done" /\ rd'.seen = rd.seen /\ rd'.req = rd.req /\ rd'.fd = rd.fd
        /\ rd'.size = rd.size /\ UNCHANGED fileVars /\ UNCHANGED versions
        /\ rd'.answer = IF rd.size <= Len(versions[rd.fd]) THEN Ok(f) ELSE Beyond
    BY <1>1 DEF View, RReturn, fileVars
  <1>4. ReadInv'
    BY <1>3, ReturnInv DEF ReadInv, SeenInv
  <1>5. Len(versions[rd.fd]) \in Nat
    BY <1>1
  <1>6. CASE rd.size <= Len(versions[rd.fd])
    <2>1. Len(f) = rd.size /\ f # <<>>
      <3>1. rd.size \in 0 .. Len(versions[rd.fd]) /\ 0 \in 0 .. rd.size /\ 0 \in Nat /\ 0 <= 0
        BY <1>1, <1>5, <1>6
      <3>2. Len(f) = rd.size
        BY <1>1, <3>1, PieceOfPrefix
      <3> HIDE DEF f
      <3> QED
        BY <1>2, <3>2, EmptySeq
    <2>2. ReadPromised(rd.req, f) = Ok(f)
      <3> HIDE DEF f
      <3> QED
        BY <1>2, <2>1, HashingApis DEF ReadPromised
    <2>3. rd'.answer = ReadPromised(rd.req, SubSeq(versions[rd.fd], 1, rd.size))
      BY <1>3, <1>6, <2>2
    <2> QED
      BY <1>1, <1>2, <1>3, <1>4, <1>6, <2>3, AnswerByName
  <1>7. CASE ~(rd.size <= Len(versions[rd.fd]))
    <2>1. rd.size > Len(versions[rd.fd]) /\ rd'.answer \in {Equal(FALSE), Beyond}
      BY <1>1, <1>3, <1>5, <1>7
    <2> QED
      BY <1>1, <1>2, <1>3, <1>4, <2>1, AnswerByName
  <1> QED
    BY <1>6, <1>7

(* ReadDone and ReadShort: all the bytes have been got, or the file ends.    *)
LEMMA RangedAnswer ==
    ASSUME ReadGoesOn, ReadInv, rd.pc = "read", Ranged, ~Wraps(rd.req), UNCHANGED versions,
           rd'.seen = rd.seen, rd'.req = rd.req,
           \/ Len(rd.got) = rd.want /\ rd'.answer = Ok(rd.got)
           \/ Len(rd.got) < rd.want /\ AtEnd(rd.fd, Offset)
    PROVE  ReadIsOfOneMoment'
  <1>1. /\ rd.req \in ReadRequests /\ rd.got \in Seq(Byte) /\ rd.want \in Nat
        /\ rd.fd \in 1 .. Present /\ versions[rd.fd] \in Seq(Byte)
    BY ReadKnown DEF ReadGoesOn, IInv
  <1> DEFINE f == versions[rd.fd]
  <1>2. f \in Seq(Byte) /\ Len(f) \in Nat /\ Len(rd.got) \in Nat
    BY <1>1
  <1>3. Start \in Nat /\ Offset = Start + Len(rd.got)
    BY <1>1, RequestKnown DEF Offset
  <1>4. ~ByName
    BY HashingApis DEF Ranged, ByName, RIs
  <1>5. PICK n \in 0 .. Len(f) :
           /\ <<rd.fd, n>> \in rd.seen /\ rd.want <= StringMax
           /\ \E size \in n .. Len(f) : rd.want \in Wanted(size)
    BY <1>4 DEF ReadInv, SeenInv
  <1>6. PICK size \in n .. Len(f) : rd.want \in Wanted(size)
    BY <1>5
  <1>7. rd.got = SubSeq(f, Start + 1, Start + Len(rd.got))
    BY DEF ReadInv, GotInv
  <1>8. size \in Nat /\ size \in 0 .. Len(f) /\ n \in Nat
    BY <1>2
  <1>9. PICK g \in Seq(Byte) : g = SubSeq(f, 1, size) /\ Len(g) = size
    <2>1. 0 \in Nat /\ 0 \in 0 .. size /\ 0 <= 0
      BY <1>8
    <2> HIDE DEF f
    <2>2. SubSeq(f, 1, size) \in Seq(Byte) /\ Len(SubSeq(f, 1, size)) = size
      BY <1>2, <1>8, <2>1, PieceOfPrefix
    <2> QED
      BY <2>2
  <1>10. /\ rd.want \in Nat /\ Start + rd.want \in 0 .. Len(g)
         /\ ReadPromised(rd.req, g) = InString(SubSeq(g, Start + 1, Start + rd.want))
    <2>1. rd.want \in Wanted(Len(g))
      BY <1>6, <1>9
    <2> HIDE DEF f
    <2> QED
      BY <1>1, <2>1, PromisedRange
  <1>11. CASE Len(rd.got) = rd.want /\ rd'.answer = Ok(rd.got)
    <2>1. SubSeq(g, Start + 1, Start + rd.want) = rd.got
      <3> DEFINE e == Start + rd.want
      <3>1. e \in 0 .. size /\ Start <= e
        BY <1>3, <1>9, <1>10
      <3>2. rd.got = SubSeq(f, Start + 1, e)
        BY <1>7, <1>11
      <3> HIDE DEF f, e
      <3>3. SubSeq(SubSeq(f, 1, size), Start + 1, e) = SubSeq(f, Start + 1, e)
        BY <1>2, <1>3, <1>8, <3>1, PieceOfPrefix
      <3> QED
        BY <1>9, <3>2, <3>3, Zenon DEF e
    <2>2. ReadPromised(rd.req, g) = Ok(rd.got)
      <3>1. ~(Len(rd.got) > StringMax)
        BY <1>1, <1>5, <1>11, WholeReadAssumption
      <3> QED
        BY <1>10, <2>1, <3>1, Zenon DEF InString
    <2> DEFINE s == <<rd.fd, n>>
    <2>3. s \in rd'.seen /\ size \in s[2] .. Len(versions'[s[1]]) /\ s[1] = rd.fd
      BY <1>5, <1>8
    <2>4. versions' = versions /\ rd'.req = rd.req
      OBVIOUS
    <2> HIDE DEF s
    <2>5. rd'.answer = ReadPromised(rd'.req, SubSeq(versions'[s[1]], 1, size))
      BY <1>9, <1>11, <2>2, <2>3, <2>4, Zenon
    <2> QED
      BY <2>3, <2>5, AnswerOfMoment
  <1>12. CASE Len(rd.got) < rd.want /\ AtEnd(rd.fd, Offset)
    <2>1. Start + Len(rd.got) >= Len(f)
      BY <1>3, <1>12 DEF AtEnd
    <2>2. Start + rd.want <= Len(f)
      BY <1>3, <1>8, <1>9, <1>10
    <2>3. Len(rd.got) \in Nat /\ Start \in Nat /\ rd.want \in Nat /\ Len(f) \in Nat
          /\ Len(rd.got) < rd.want
      BY <1>2, <1>3, <1>10, <1>12
    <2> HIDE DEF f
    <2>4. FALSE
      BY <2>1, <2>2, <2>3
    <2> QED
      BY <2>4
  <1> QED
    BY <1>11, <1>12

(* the answer is of a moment the read has seen, or a refusal.                *)
LEMMA EndReadInv ==
    ASSUME ReadGoesOn, ReadInv, ReadDone \/ ReadShort
    PROVE  ReadInv' /\ (~Wraps(rd.req) => ReadIsOfOneMoment')
  <1>1. /\ rd = [pc |-> rd.pc, req |-> rd.req, hasher |-> rd.hasher, fd |-> rd.fd,
                 size |-> rd.size, want |-> rd.want, got |-> rd.got, answer |-> rd.answer,
                 seen |-> rd.seen, failed |-> rd.failed, missing |-> rd.missing]
        /\ rd.pc = "read" /\ rd.got \in Seq(Byte) /\ rd.req \in ReadRequests
        /\ rd.fd \in 1 .. Present /\ versions[rd.fd] \in Seq(Byte)
        /\ rd.want \in Nat /\ rd.size \in Nat
    BY ReadKnown DEF ReadGoesOn, IInv, ReadDone, ReadShort, RAt
  <1>2. /\ rd'.pc = "done" /\ rd'.seen = rd.seen /\ rd'.req = rd.req /\ rd'.fd = rd.fd
        /\ rd'.size = rd.size /\ UNCHANGED fileVars /\ UNCHANGED versions
        /\ \/ /\ Len(rd.got) = rd.want
              /\ rd'.answer = IF RIs({"filesEqual"}) THEN Equal(rd.got = Twin) ELSE Ok(rd.got)
           \/ /\ Len(rd.got) < rd.want /\ AtEnd(rd.fd, Offset) /\ rd'.answer = NoAnswer
    BY <1>1 DEF ReadDone, ReadShort, RReturn, fileVars
  <1>3. ReadInv'
    BY <1>2, ReturnInv DEF ReadInv, SeenInv
  <1>4. rd.req.api \in {"readall", "readRange", "filesEqual"}
    BY <1>1 DEF ReadInv, ApiInv, RIs
  <1>5. CASE rd.req.api \in {"readall", "readRange"}
    <2>1. Ranged /\ ~RIs({"filesEqual"})
      BY <1>5 DEF Ranged, RIs
    <2>2. \/ Len(rd.got) = rd.want /\ rd'.answer = Ok(rd.got)
          \/ Len(rd.got) < rd.want /\ AtEnd(rd.fd, Offset)
      BY <1>2, <2>1
    <2>3. ASSUME ~Wraps(rd.req) PROVE ReadIsOfOneMoment'
      BY <1>1, <1>2, <2>1, <2>2, <2>3, RangedAnswer
    <2> QED
      BY <1>3, <2>3
  <1>6. CASE rd.req.api = "filesEqual"
    <2>1. ByName /\ RIs({"filesEqual"}) /\ Start = 0 /\ Offset = Len(rd.got)
          /\ Len(rd.got) \in Nat /\ Len(versions[rd.fd]) \in Nat
      BY <1>1, <1>6, RequestKnown DEF ByName, RIs, Offset
    <2>2. rd.want = rd.size
      BY <1>1, <2>1 DEF ReadInv, SizeInv
    <2>3. /\ Len(rd.got) <= Len(versions[rd.fd])
          /\ rd.got = SubSeq(versions[rd.fd], 1, Len(rd.got))
      BY <1>1, <2>1 DEF ReadInv, GotInv
    <2>4. CASE Len(rd.got) = rd.want /\ rd'.answer = Equal(rd.got = Twin)
      <3>1. ReadPromised(rd.req, rd.got) = Equal(rd.got = Twin)
        BY <1>6, HashingApis DEF ReadPromised
      <3>2. /\ rd.size <= Len(versions[rd.fd])
            /\ rd'.answer = ReadPromised(rd.req, SubSeq(versions[rd.fd], 1, rd.size))
        BY <2>2, <2>3, <2>4, <3>1
      <3> QED
        BY <1>1, <1>2, <1>3, <2>1, <3>2, AnswerByName
    <2>5. CASE Len(rd.got) < rd.want /\ AtEnd(rd.fd, Offset) /\ rd'.answer = NoAnswer
      <3>1. rd.size > Len(versions[rd.fd]) /\ rd'.answer = Equal(FALSE)
        BY <1>1, <2>1, <2>2, <2>3, <2>5 DEF AtEnd, NoAnswer
      <3> QED
        BY <1>1, <1>2, <1>3, <2>1, <3>1, AnswerByName
    <2> QED
      BY <1>2, <2>1, <2>4, <2>5
  <1> QED
    BY <1>4, <1>5, <1>6

(* ------------------------------- theorems -------------------------------- *)

(* So every step of a read keeps it,                                         *)
LEMMA OwnReadInv ==
    ASSUME IInv, "truncated" \notin meanwhile, OwnerReads, ReadInv
    PROVE  ReadInv' /\ ReadIsOfOneMoment'
  <1>1. ReadGoesOn /\ ReadStep
    BY ReadsInFiles DEF ReadGoesOn, OwnerReads
  <1>2. CASE ReadSize \/ ReadDone \/ ReadShort
    <2>1. ReadInv' /\ (~Wraps(rd.req) => ReadIsOfOneMoment')
      BY <1>1, <1>2, SizeReadInv, EndReadInv
    <2>2. rd'.req = rd.req
      <3>1. rd = [pc |-> rd.pc, req |-> rd.req, hasher |-> rd.hasher, fd |-> rd.fd,
                  size |-> rd.size, want |-> rd.want, got |-> rd.got, answer |-> rd.answer,
                  seen |-> rd.seen, failed |-> rd.failed, missing |-> rd.missing]
        BY <1>1, ReadKnown DEF ReadGoesOn, IInv
      <3> QED
        BY <1>2, <3>1 DEF ReadSize, Sized, ReadDone, ReadShort, RReturn
    <2>3. Wraps(rd.req) => ReadIsOfOneMoment'
      BY <2>2 DEF ReadIsOfOneMoment
    <2> QED
      BY <2>1, <2>3
  <1>3. CASE ReadOpen \/ ReadMissing \/ ReadStat \/ ReadSome \/ HashSome \/ HashDone \/ View
             \/ ReadCallFails
    BY <1>1, <1>3, OpenReadInv, NoReadInv, StatReadInv, SomeReadInv, HashReadInv, HashDoneInv, ViewReadInv
  <1> QED
    BY <1>1, <1>2, <1>3 DEF ReadStep

(* and every step of anybody.                                                *)
LEMMA NextReads ==
    ASSUME IInv, Reads, [Next]_vars
    PROVE  Reads'
  <1>1. CASE OwnerReads
    <2>1. rd.pc # "idle" /\ UNCHANGED meanwhile
      BY <1>1, ReadsInFiles DEF Elsewhere, fileVars
    <2>2. CASE "truncated" \notin meanwhile
      <3>1. ReadInv' /\ ReadIsOfOneMoment'
        BY <1>1, <2>1, <2>2, OwnReadInv DEF Reads
      <3> QED
        BY <3>1 DEF Reads
    <2>3. CASE "truncated" \in meanwhile
      BY <2>1, <2>3 DEF Reads
    <2> QED
      BY <2>2, <2>3
  <1>2. CASE OthersDo /\ Next
    <2>1. CASE rd'.pc # "idle" /\ "truncated" \notin meanwhile'
      <3>1. rd' = rd /\ rd.pc # "idle"
        BY <1>2, <2>1 DEF OthersDo
      <3>2. "truncated" \notin meanwhile
        BY <1>2, <2>1, <3>1, OthersGrow
      <3>3. ReadInv /\ ReadIsOfOneMoment
        BY <3>1, <3>2 DEF Reads
      <3>4. ReadInv'
        BY <1>2, <2>1, <3>1, <3>3, SeenStays
      <3>5. ReadIsOfOneMoment'
        <4>1. CASE rd.pc = "done"
          BY <1>2, <2>1, <3>3, <4>1, AnswerStays DEF Next
        <4>2. CASE rd.pc # "done"
          BY <3>1, <4>2 DEF ReadIsOfOneMoment, ReadReturned
        <4> QED
          BY <4>1, <4>2
      <3> QED
        BY <3>4, <3>5 DEF Reads
    <2> QED
      BY <2>1 DEF Reads
  <1>3. CASE OwnerEdits \/ OwnerWrites
    <2>1. rd'.pc = "idle"
      BY <1>3, EditsInFiles, WritesInFiles DEF OwnerEdits
    <2> QED
      BY <2>1 DEF Reads
  <1>4. CASE UNCHANGED vars
    <2>1. UNCHANGED <<rd, versions, meanwhile>>
      BY <1>4 DEF vars, fileVars
    <2>2. /\ ByName' = ByName /\ Present' = Present /\ Start' = Start
          /\ \A k : Wanted(k)' = Wanted(k)
      BY <2>1 DEF ByName, RIs, Present, Start, Wanted, Remaining
    <2>3. (SizeInv' <=> SizeInv) /\ (GotInv' <=> GotInv) /\ (HasherInv' <=> HasherInv)
          /\ (ApiInv' <=> ApiInv)
      BY <2>1, <2>2 DEF SizeInv, GotInv, HasherInv, ApiInv, RIs
    <2>4. SeenInv => SeenInv'
      BY <2>1, <2>2 DEF SeenInv
    <2>5. ReadIsOfOneMoment' <=> ReadIsOfOneMoment
      BY <2>1 DEF ReadIsOfOneMoment, ReadReturned, Moments
    <2> QED
      BY <2>1, <2>3, <2>4, <2>5 DEF Reads, ReadInv
  <1>5. OwnerEdits \/ OwnerReads \/ OwnerWrites \/ OthersDo \/ UNCHANGED vars
    BY NextKinds, SharingAssumption
  <1> QED
    BY <1>1, <1>2, <1>3, <1>4, <1>5

(* At first there is no read.                                                *)
LEMMA InitReads == Init => Reads
  <1> SUFFICES ASSUME Init, rd.pc # "idle" PROVE ReadInv /\ ReadIsOfOneMoment
    BY DEF Reads
  <1>1. PICK c : rd = ReadStart(c)
    BY DEF Init, EditInit, ReadInit, WriterInit, EditBegins, ReadIdle, ReadBegins
  <1>2. /\ rd.pc = IF c.api \in {"filesEqual", "readMapped"} THEN "stat" ELSE "open"
        /\ rd.req = c /\ rd.got = <<>> /\ rd.seen = {}
        /\ rd.hasher = NewHasher(IF c.api \in DOMAIN Hashing THEN Hashing[c.api] ELSE "none")
    BY <1>1 DEF ReadStart
  <1>3. SizeInv /\ SeenInv /\ GotInv /\ ApiInv
    BY <1>2 DEF SizeInv, SeenInv, GotInv, ApiInv, ByName, RIs
  <1>4. HasherInv
    BY <1>2, NewHasHashedNothing DEF HasherInv, RIs
  <1> QED
    BY <1>2, <1>3, <1>4 DEF ReadInv, ReadIsOfOneMoment, ReadReturned

(* What a read answers is true of one moment of one file it has looked at,   *)
(* while others append to the file and replace it; a range, of which length  *)
(* and offset do not wrap around (file_read.cpp:7-78, 485-534); or the call  *)
(* asked one file for its size and read another (hash_glob.cpp:166-174).     *)
THEOREM ReadsOneMoment == Spec => []ReadIsOfOneMoment
  <1>1. Spec => []Reads
    <2>1. IInv /\ Reads /\ [Next]_vars => Reads'
      BY NextReads
    <2> QED
      BY InitReads, Invariance, <2>1, PTL DEF Spec
  <1>2. Reads => ReadIsOfOneMoment
    BY DEF Reads, ReadIsOfOneMoment, ReadReturned
  <1> QED
    BY <1>1, <1>2, PTL
=============================================================================
