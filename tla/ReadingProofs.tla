--------------------------- MODULE ReadingProofs ---------------------------
(* That a line-reading call answers with the lines of the file: for every    *)
(* file, every call, every block size and every way the reads cut the file.  *)
EXTENDS Reading, LinesProofs

(* ------------------------- newlines by lanes ----------------------------- *)

(* Division with remainder.                                                  *)
LEMMA Divided ==
    ASSUME NEW n \in Nat, NEW lanes \in Nat \ {0}
    PROVE  /\ n \div lanes \in Nat /\ n % lanes \in 0 .. lanes - 1
           /\ n = lanes * (n \div lanes) + (n % lanes)
           /\ lanes * (n \div lanes) \in Nat /\ lanes * (n \div lanes) <= n
  <1> DEFINE q == n \div lanes
             r == n % lanes
             m == lanes * q
  <1>1. q \in Nat /\ r \in 0 .. lanes - 1 /\ n = m + r
    OBVIOUS
  <1>2. m \in Nat
    <2> HIDE DEF q
    <2> QED
      BY <1>1
  <1> HIDE DEF m, q, r
  <1>3. m <= n /\ n \in Nat /\ lanes \in Nat
    BY <1>1, <1>2
  <1> QED
    BY <1>1, <1>2, <1>3 DEF m, q, r

(* The next multiple of the lanes.                                           *)
LEMMA Multiple ==
    ASSUME NEW j \in Nat, NEW lanes \in Nat \ {0}
    PROVE  lanes * j \in Nat /\ (lanes * j) % lanes = 0 /\ lanes * (j + 1) = lanes * j + lanes
  OBVIOUS

(* A multiple that fits is no more than the quotient,                        *)
LEMMA FewerRows ==
    ASSUME NEW j \in Nat, NEW q \in Nat, NEW r \in Nat, NEW lanes \in Nat \ {0},
           r < lanes, lanes * j <= lanes * q + r
    PROVE  j <= q
  OBVIOUS

(* and a multiple of no more fits.                                           *)
LEMMA MoreRows ==
    ASSUME NEW j \in Nat, NEW q \in Nat, NEW lanes \in Nat \ {0}, j <= q
    PROVE  lanes * j \in Nat /\ lanes * q \in Nat /\ lanes * j <= lanes * q
  OBVIOUS

(* Where the loop over vectors ends.                                        *)
LEMMA BehindIs ==
    ASSUME NEW block \in Seq(Byte), NEW from \in 0 .. Len(block), NEW lanes \in Nat \ {0}
    PROVE  Behind(block, from, lanes) \in from .. Len(block)
  <1> DEFINE q == (Len(block) - from) \div lanes
  <1>1. Len(block) - from \in Nat /\ Len(block) \in Nat
    OBVIOUS
  <1>2. q \in Nat /\ lanes * q \in Nat /\ lanes * q <= Len(block) - from
    BY <1>1, Divided
  <1>3. Behind(block, from, lanes) = from + lanes * q
    BY DEF Behind
  <1> HIDE DEF q
  <1> QED
    BY <1>1, <1>2, <1>3

(* Every position before that is one lane of one vector.                    *)
LEMMA LaneOf ==
    ASSUME NEW block \in Seq(Byte), NEW from \in 0 .. Len(block), NEW lanes \in Nat \ {0},
           NEW p \in from + 1 .. Behind(block, from, lanes)
    PROVE  \E i \in Loads(block, from, lanes), k \in 0 .. lanes - 1 : p = i + k + 1
  <1> DEFINE n == Len(block) - from
             q == n \div lanes
             e == p - from - 1
             j == e \div lanes
             k == e % lanes
             i == from + lanes * j
  <1>1. n \in Nat /\ Len(block) = from + n /\ from \in Nat /\ lanes \in Nat
    OBVIOUS
  <1>2. q \in Nat /\ lanes * q \in Nat /\ lanes * q <= n
    BY <1>1, Divided
  <1>3. Behind(block, from, lanes) = from + lanes * q
    BY DEF Behind
  <1>4. e \in Nat /\ e < lanes * q /\ p = from + e + 1
    BY <1>1, <1>2, <1>3
  <1>5. j \in Nat /\ k \in 0 .. lanes - 1 /\ e = lanes * j + k
    BY <1>4, Divided
  <1> HIDE DEF n, q, e, j, k
  <1>6. ~(q <= j)
    <2>1. lanes * j \in Nat /\ lanes * j <= e
      BY <1>1, <1>4, <1>5, Multiple
    <2> QED
      BY <1>2, <1>4, <1>5, <2>1, MoreRows
  <1>7. j + 1 <= q /\ j + 1 \in Nat
    BY <1>2, <1>5, <1>6
  <1>8. /\ lanes * j \in Nat /\ (lanes * j) % lanes = 0
        /\ lanes * (j + 1) = lanes * j + lanes /\ lanes * (j + 1) <= lanes * q
    BY <1>2, <1>5, <1>7, MoreRows, Multiple
  <1>9. i \in from .. Len(block) - lanes /\ i - from = lanes * j
    BY <1>1, <1>2, <1>8
  <1>10. i \in Loads(block, from, lanes)
    BY <1>8, <1>9 DEF Loads
  <1>11. p = i + k + 1
    BY <1>1, <1>4, <1>5, <1>8
  <1> HIDE DEF i
  <1> QED
    BY <1>5, <1>10, <1>11

(* A lane of a vector is a byte of the block before the last full vector.    *)
LEMMA LaneIs ==
    ASSUME NEW block \in Seq(Byte), NEW from \in 0 .. Len(block), NEW lanes \in Nat \ {0},
           NEW i \in Loads(block, from, lanes), NEW k \in 0 .. lanes - 1
    PROVE  /\ i \in Nat /\ i + k + 1 \in from + 1 .. Behind(block, from, lanes)
           /\ \E j \in Nat : i = from + lanes * j
  <1> DEFINE n == Len(block) - from
             q == n \div lanes
             r == n % lanes
             j == (i - from) \div lanes
  <1>1. n \in Nat /\ Len(block) = from + n /\ from \in Nat /\ lanes \in Nat
    OBVIOUS
  <1>2. q \in Nat /\ lanes * q \in Nat /\ r \in 0 .. lanes - 1 /\ n = lanes * q + r
    BY <1>1, Divided, Multiple
  <1>3. Behind(block, from, lanes) = from + lanes * q
    BY DEF Behind
  <1>4. i \in from .. Len(block) - lanes /\ (i - from) % lanes = 0
    BY DEF Loads
  <1>5. i - from \in Nat /\ i \in Nat
    BY <1>1, <1>4
  <1>6. j \in Nat /\ i - from = lanes * j
    <2>1. j \in Nat /\ i - from = lanes * j + ((i - from) % lanes) /\ lanes * j \in Nat
      BY <1>5, Divided, Multiple
    <2> HIDE DEF j
    <2> QED
      BY <1>4, <2>1
  <1> HIDE DEF n, q, r, j
  <1>7. lanes * (j + 1) = lanes * j + lanes /\ lanes * j \in Nat /\ j + 1 \in Nat
    BY <1>6, Multiple
  <1>8. i = from + lanes * j /\ lanes * (j + 1) <= lanes * q + r
    BY <1>1, <1>2, <1>4, <1>5, <1>6, <1>7
  <1>9. j + 1 <= q
    <2>1. r \in Nat /\ r < lanes
      BY <1>1, <1>2
    <2> QED
      BY <1>2, <1>7, <1>8, <2>1, FewerRows
  <1>10. lanes * (j + 1) <= lanes * q
    BY <1>2, <1>7, <1>9, MoreRows
  <1>11. i + k + 1 \in from + 1 .. from + lanes * q
    <2> DEFINE a == lanes * j
               b == lanes * q
    <2>1. a \in Nat /\ b \in Nat /\ a + lanes <= b /\ i = from + a
      BY <1>2, <1>7, <1>8, <1>10
    <2> HIDE DEF a, b
    <2>2. i + k + 1 \in from + 1 .. from + b
      BY <1>1, <2>1
    <2> QED
      BY <2>2 DEF b
  <1> QED
    BY <1>3, <1>5, <1>6, <1>8, <1>11

(* The vectors do not overlap.                                              *)
LEMMA LoadsApart ==
    ASSUME NEW block \in Seq(Byte), NEW from \in 0 .. Len(block), NEW lanes \in Nat \ {0},
           NEW i \in Loads(block, from, lanes), NEW h \in Loads(block, from, lanes), i < h
    PROVE  i + lanes <= h /\ i \in Nat /\ h \in Nat
  <1>0. 0 \in 0 .. lanes - 1 /\ lanes \in Nat
    OBVIOUS
  <1>1. PICK j \in Nat : i = from + lanes * j
    BY <1>0, LaneIs
  <1>2. PICK g \in Nat : h = from + lanes * g
    BY <1>0, LaneIs
  <1>3. i \in Nat /\ h \in Nat
    BY <1>0, LaneIs
  <1>4. ~(g <= j)
    <2>1. ASSUME g <= j PROVE FALSE
      <3>1. lanes * g \in Nat /\ lanes * j \in Nat /\ lanes * g <= lanes * j
        BY <2>1, MoreRows
      <3> QED
        BY <1>1, <1>2, <3>1
    <2> QED
      BY <2>1
  <1>5. j + 1 \in Nat /\ j + 1 <= g
    BY <1>4
  <1>6. /\ lanes * (j + 1) \in Nat /\ lanes * g \in Nat /\ lanes * (j + 1) <= lanes * g
        /\ lanes * (j + 1) = lanes * j + lanes /\ lanes * j \in Nat
    BY <1>5, MoreRows, Multiple
  <1>7. from + lanes * j + lanes <= from + lanes * g
    <2> DEFINE a == lanes * j
               b == lanes * g
    <2>1. a \in Nat /\ b \in Nat /\ a + lanes <= b /\ from \in Nat
      BY <1>6
    <2> HIDE DEF a, b
    <2>2. from + a + lanes <= from + b
      BY <1>0, <2>1
    <2> QED
      BY <2>2 DEF a, b
  <1> QED
    BY <1>1, <1>2, <1>3, <1>7

(* The bits of the masks stand for the newlines before the end of the loop. *)
LEMMA CountInLanesIs ==
    ASSUME NEW block \in Seq(Byte), NEW from \in 0 .. Len(block), NEW lanes \in Nat \ {0}
    PROVE  CountInLanes(block, from, lanes) =
               Cardinality(NewlinesIn(block, from, Behind(block, from, lanes)))
  <1> DEFINE loads == Loads(block, from, lanes)
             behind == Behind(block, from, lanes)
             bits == UNION {{i} \X Mask(block, i, lanes) : i \in loads}
             nls == NewlinesIn(block, from, behind)
             at == [b \in bits |-> b[1] + b[2] + 1]
  <1>1. behind \in Nat /\ from \in Nat /\ lanes \in Nat
    BY BehindIs
  <1>2. IsFiniteSet(nls) /\ \A p : p \in nls <=> p \in from + 1 .. behind /\ block[p] = Nl
    BY <1>1, NewlinesAre
  <1>3. \A b \in bits : \E i \in loads, k \in 0 .. lanes - 1 :
            b = <<i, k>> /\ block[i + k + 1] = Nl
    BY DEF Mask
  <1>4. \A i \in loads, k \in 0 .. lanes - 1 :
            block[i + k + 1] = Nl => <<i, k>> \in bits
    BY DEF Mask
  <1>5. \A i \in loads, k \in 0 .. lanes - 1 :
            i \in Nat /\ k \in Nat /\ i + k + 1 \in from + 1 .. behind
    BY LaneIs
  <1>6. \A p \in from + 1 .. behind : \E i \in loads, k \in 0 .. lanes - 1 : p = i + k + 1
    BY LaneOf
  <1>7. \A i, h \in loads : i < h => i + lanes <= h
    BY LoadsApart
  <1> HIDE DEF loads, behind, bits, nls
  <1>8. \A b \in bits : at[b] \in nls
    <2> SUFFICES ASSUME NEW b \in bits PROVE at[b] \in nls
      OBVIOUS
    <2>1. PICK i \in loads, k \in 0 .. lanes - 1 : b = <<i, k>> /\ block[i + k + 1] = Nl
      BY <1>3
    <2>2. at[b] = i + k + 1
      BY <2>1
    <2> QED
      BY <1>2, <1>5, <2>1, <2>2
  <1>9. \A a, b \in bits : at[a] = at[b] => a = b
    <2> SUFFICES ASSUME NEW a \in bits, NEW b \in bits, at[a] = at[b] PROVE a = b
      OBVIOUS
    <2>1. PICK i \in loads, k \in 0 .. lanes - 1 : a = <<i, k>> /\ block[i + k + 1] = Nl
      BY <1>3
    <2>2. PICK h \in loads, l \in 0 .. lanes - 1 : b = <<h, l>> /\ block[h + l + 1] = Nl
      BY <1>3
    <2>3. i + k + 1 = h + l + 1
      BY <2>1, <2>2
    <2>4. i \in Nat /\ h \in Nat /\ (i < h => i + lanes <= h) /\ (h < i => h + lanes <= i)
      BY <1>5, <1>7, <1>1, <2>1, <2>2
    <2>5. i = h /\ k = l
      BY <1>1, <2>3, <2>4
    <2> QED
      BY <2>1, <2>2, <2>5
  <1>10. \A p \in nls : \E b \in bits : at[b] = p
    <2> SUFFICES ASSUME NEW p \in nls PROVE \E b \in bits : at[b] = p
      OBVIOUS
    <2>1. PICK i \in loads, k \in 0 .. lanes - 1 : p = i + k + 1
      BY <1>2, <1>6
    <2>2. <<i, k>> \in bits
      BY <1>2, <1>4, <2>1
    <2> QED
      BY <2>1, <2>2
  <1>11. at \in Bijection(bits, nls)
    <2>1. at \in [bits -> nls]
      BY <1>8
    <2> HIDE DEF at
    <2>2. at \in Injection(bits, nls) /\ at \in Surjection(bits, nls)
      BY <1>9, <1>10, <2>1 DEF Injection, Surjection, IsInjective
    <2> QED
      BY <2>2 DEF Bijection
  <1>12. ExistsBijection(nls, bits)
    BY <1>11, Fun_ExistsBijSymmetric DEF ExistsBijection
  <1>13. Cardinality(nls) = Cardinality(bits)
    BY <1>2, <1>12, FS_Bijection
  <1> QED
    BY <1>13 DEF CountInLanes, bits, nls, loads, behind

(* Whichever of the three counts is used, and however wide its lanes are, it *)
(* counts the newlines of the block (platform.cpp:363-459).                  *)
THEOREM CountNlIsExact ==
    ASSUME NEW block \in Seq(Byte)
    PROVE  CountNl(block) = Cardinality(NewlinesIn(block, 0, Len(block)))
  <1>1. Wide \in Nat \ {0} /\ Narrow \in Nat \ {0} /\ Level \in {0, 1, 2}
    BY NlScanAssumption
  <1>2. ASSUME NEW from \in 0 .. Len(block)
        PROVE  CountNlSse2(block, from) = Cardinality(NewlinesIn(block, from, Len(block)))
    <2>1. Behind(block, from, Narrow) \in from .. Len(block) /\ from \in Nat /\ Len(block) \in Nat
      BY <1>1, BehindIs
    <2>2. Cardinality(NewlinesIn(block, from, Len(block))) =
            Cardinality(NewlinesIn(block, from, Behind(block, from, Narrow)))
            + Cardinality(NewlinesIn(block, Behind(block, from, Narrow), Len(block)))
      <3> DEFINE m == Behind(block, from, Narrow)
      <3>1. m \in Nat /\ from \in Nat /\ Len(block) \in Nat /\ from <= m /\ m <= Len(block)
        BY <2>1
      <3> HIDE DEF m
      <3>2. Cardinality(NewlinesIn(block, from, Len(block))) =
              Cardinality(NewlinesIn(block, from, m)) + Cardinality(NewlinesIn(block, m, Len(block)))
        BY <3>1, NewlinesAdd
      <3> QED
        BY <3>2 DEF m
    <2>3. CountInLanes(block, from, Narrow) =
            Cardinality(NewlinesIn(block, from, Behind(block, from, Narrow)))
      BY <1>1, CountInLanesIs
    <2> QED
      BY <2>2, <2>3 DEF CountNlSse2, CountNlScalar
  <1>3. CountNlAvx2(block) = Cardinality(NewlinesIn(block, 0, Len(block)))
    <2>1. Behind(block, 0, Wide) \in 0 .. Len(block) /\ 0 \in 0 .. Len(block) /\ Len(block) \in Nat
      <3>1. 0 \in 0 .. Len(block) /\ Len(block) \in Nat
        OBVIOUS
      <3> QED
        BY <1>1, <3>1, BehindIs
    <2>2. Cardinality(NewlinesIn(block, 0, Len(block))) =
            Cardinality(NewlinesIn(block, 0, Behind(block, 0, Wide)))
            + Cardinality(NewlinesIn(block, Behind(block, 0, Wide), Len(block)))
      <3> DEFINE m == Behind(block, 0, Wide)
      <3>1. m \in Nat /\ 0 \in Nat /\ Len(block) \in Nat /\ 0 <= m /\ m <= Len(block)
        BY <2>1
      <3> HIDE DEF m
      <3>2. Cardinality(NewlinesIn(block, 0, Len(block))) =
              Cardinality(NewlinesIn(block, 0, m)) + Cardinality(NewlinesIn(block, m, Len(block)))
        BY <3>1, NewlinesAdd
      <3> QED
        BY <3>2 DEF m
    <2>3. CountInLanes(block, 0, Wide) = Cardinality(NewlinesIn(block, 0, Behind(block, 0, Wide)))
      BY <1>1, <2>1, CountInLanesIs
    <2>4. CountNlSse2(block, Behind(block, 0, Wide)) =
            Cardinality(NewlinesIn(block, Behind(block, 0, Wide), Len(block)))
      BY <1>2, <2>1
    <2> QED
      BY <2>2, <2>3, <2>4 DEF CountNlAvx2
  <1>4. 0 \in 0 .. Len(block)
    OBVIOUS
  <1>5. CASE Level = 2
    BY <1>3, <1>5 DEF CountNl
  <1>6. CASE Level = 1
    <2>1. CountNl(block) = CountNlSse2(block, 0)
      BY <1>6 DEF CountNl
    <2> QED
      BY <1>2, <1>4, <2>1
  <1>7. CASE Level = 0
    <2>1. CountNl(block) = CountNlScalar(block, 0)
      BY <1>7 DEF CountNl
    <2> QED
      BY <2>1 DEF CountNlScalar
  <1> QED
    BY <1>1, <1>5, <1>6, <1>7

(* The least member of a set is its minimum.                                 *)
LEMMA LeastOf ==
    ASSUME NEW S \in SUBSET Int, IsFiniteSet(S), NEW m \in S, \A e \in S : m <= e
    PROVE  Min(S) = m
  <1>1. Min(S) \in S /\ \A e \in S : Min(S) <= e
    BY LeastIs
  <1>2. Min(S) <= m /\ m <= Min(S) /\ m \in Int /\ Min(S) \in Int
    BY <1>1
  <1> QED
    BY <1>2

(* The first lane hit of the first vector hit is the first newline before   *)
(* the end of the loop.                                                     *)
LEMMA FindInLanesIs ==
    ASSUME NEW block \in Seq(Byte), NEW from \in 0 .. Len(block), NEW lanes \in Nat \ {0}
    PROVE  LET nls == NewlinesIn(block, from, Behind(block, from, lanes))
           IN  FindInLanes(block, from, lanes) = IF nls = {} THEN {} ELSE {Min(nls)}
  <1> DEFINE loads == Loads(block, from, lanes)
             behind == Behind(block, from, lanes)
             mask(i) == Mask(block, i, lanes)
             hits == {i \in loads : mask(i) # {}}
             nls == NewlinesIn(block, from, behind)
  <1>1. behind \in Nat /\ from \in Nat /\ lanes \in Nat
    BY BehindIs
  <1>2. /\ nls \in SUBSET Int /\ IsFiniteSet(nls)
        /\ \A p : p \in nls <=> p \in from + 1 .. behind /\ block[p] = Nl
    BY <1>1, NewlinesAre
  <1>3. \A i \in loads, k \in 0 .. lanes - 1 : k \in mask(i) <=> block[i + k + 1] = Nl
    BY DEF Mask
  <1>4. \A i \in loads : mask(i) \in SUBSET (0 .. lanes - 1) /\ mask(i) \in SUBSET Int
                         /\ IsFiniteSet(mask(i))
    <2> SUFFICES ASSUME NEW i \in loads
                 PROVE  mask(i) \in SUBSET (0 .. lanes - 1) /\ mask(i) \in SUBSET Int
                        /\ IsFiniteSet(mask(i))
      OBVIOUS
    <2>1. mask(i) \in SUBSET (0 .. lanes - 1)
      BY DEF Mask
    <2>2. IsFiniteSet(0 .. lanes - 1) /\ (0 .. lanes - 1) \in SUBSET Int
      BY <1>1, FS_Interval
    <2> HIDE DEF mask
    <2> QED
      BY <2>1, <2>2, FS_Subset
  <1>5. \A i \in loads, k \in 0 .. lanes - 1 :
            i \in Nat /\ k \in Nat /\ i + k + 1 \in from + 1 .. behind
    BY LaneIs
  <1>6. \A p \in from + 1 .. behind : \E i \in loads, k \in 0 .. lanes - 1 : p = i + k + 1
    BY LaneOf
  <1>7. \A i, h \in loads : i < h => i + lanes <= h
    BY LoadsApart
  <1>8. loads \in SUBSET (from .. Len(block) - lanes)
    BY DEF Loads
  <1>9. hits \in SUBSET Int /\ IsFiniteSet(hits)
    <2>1. hits \in SUBSET (from .. Len(block) - lanes)
      BY <1>8
    <2>2. IsFiniteSet(from .. Len(block) - lanes) /\ (from .. Len(block) - lanes) \in SUBSET Int
      BY <1>1, FS_Interval
    <2> HIDE DEF hits
    <2> QED
      BY <2>1, <2>2, FS_Subset
  <1>10. FindInLanes(block, from, lanes) =
            IF hits = {} THEN {} ELSE {Min(hits) + Min(mask(Min(hits))) + 1}
    BY DEF FindInLanes
  <1>11. \A i : i \in hits <=> i \in loads /\ mask(i) # {}
    OBVIOUS
  <1> HIDE DEF loads, behind, mask, hits, nls
  <1>12. \A p \in nls : \E i \in hits, k \in 0 .. lanes - 1 : k \in mask(i) /\ p = i + k + 1
    <2> SUFFICES ASSUME NEW p \in nls
                 PROVE  \E i \in hits, k \in 0 .. lanes - 1 : k \in mask(i) /\ p = i + k + 1
      OBVIOUS
    <2>1. PICK i \in loads, k \in 0 .. lanes - 1 : p = i + k + 1
      BY <1>2, <1>6
    <2>2. k \in mask(i)
      BY <1>2, <1>3, <2>1
    <2> QED
      BY <1>11, <2>1, <2>2
  <1>13. CASE hits = {}
    BY <1>10, <1>12, <1>13 DEF nls, behind
  <1>14. CASE hits # {}
    <2> DEFINE h == Min(hits)
               k == Min(mask(h))
    <2>1. h \in hits /\ \A i \in hits : h <= i
      BY <1>9, <1>14, LeastIs
    <2>2. h \in loads /\ mask(h) # {}
      BY <1>11, <2>1
    <2>3. k \in mask(h) /\ \A l \in mask(h) : k <= l
      BY <1>4, <2>2, LeastIs
    <2>4. k \in 0 .. lanes - 1
      BY <1>4, <2>2, <2>3
    <2>5. h + k + 1 \in nls
      BY <1>2, <1>3, <1>5, <2>2, <2>3, <2>4
    <2>6. FindInLanes(block, from, lanes) = {h + k + 1}
      BY <1>10, <1>14
    <2> HIDE DEF h, k
    <2>7. \A p \in nls : h + k + 1 <= p
      <3> SUFFICES ASSUME NEW p \in nls PROVE h + k + 1 <= p
        OBVIOUS
      <3>1. PICK i \in hits, l \in 0 .. lanes - 1 : l \in mask(i) /\ p = i + l + 1
        BY <1>12
      <3>2. i \in loads /\ h <= i /\ i \in Nat /\ h \in Nat
        BY <1>5, <1>11, <2>1, <2>2, <2>4, <3>1
      <3>3. CASE h = i
        <4>1. k <= l
          BY <2>3, <3>1, <3>3
        <4> QED
          BY <1>1, <2>4, <3>1, <3>2, <3>3, <4>1
      <3>4. CASE h < i
        <4>1. h + lanes <= i
          BY <1>7, <2>2, <3>2, <3>4
        <4> QED
          BY <1>1, <2>4, <3>1, <3>2, <4>1
      <3> QED
        BY <3>2, <3>3, <3>4
    <2>8. Min(nls) = h + k + 1
      BY <1>2, <2>5, <2>7, LeastOf
    <2>9. nls # {}
      BY <2>5
    <2> QED
      BY <2>6, <2>8, <2>9 DEF nls, behind
  <1> QED
    BY <1>13, <1>14

(* The search goes on behind a part that has no newline.                    *)
LEMMA SearchGoesOn ==
    ASSUME NEW f, NEW lo \in Nat, NEW mid \in Nat, NEW hi \in Nat, lo <= mid, mid <= hi
    PROVE  /\ NewlinesIn(f, lo, mid) # {} =>
                 /\ NewlinesIn(f, lo, hi) # {}
                 /\ Min(NewlinesIn(f, lo, hi)) = Min(NewlinesIn(f, lo, mid))
           /\ NewlinesIn(f, lo, mid) = {} => NewlinesIn(f, lo, hi) = NewlinesIn(f, mid, hi)
  <1> DEFINE S == NewlinesIn(f, lo, hi)
             T == NewlinesIn(f, lo, mid)
             U == NewlinesIn(f, mid, hi)
  <1>1. S = T \cup U
    BY NewlinesSplit
  <1>2. /\ S \in SUBSET Int /\ IsFiniteSet(S)
        /\ T \in SUBSET Int /\ IsFiniteSet(T)
        /\ T \in SUBSET (lo + 1 .. mid)
        /\ U \in SUBSET (mid + 1 .. hi)
    BY NewlinesAre
  <1> HIDE DEF S, T, U
  <1>3. ASSUME T # {} PROVE S # {} /\ Min(S) = Min(T)
    <2>1. Min(T) \in T /\ \A e \in T : Min(T) <= e
      BY <1>2, <1>3, LeastIs
    <2>2. \A e \in U : Min(T) <= e
      <3> SUFFICES ASSUME NEW e \in U PROVE Min(T) <= e
        OBVIOUS
      <3>1. Min(T) \in lo + 1 .. mid /\ e \in mid + 1 .. hi
        BY <1>2, <2>1
      <3> QED
        BY <3>1
    <2>3. Min(T) \in S /\ \A e \in S : Min(T) <= e
      BY <1>1, <2>1, <2>2
    <2> QED
      BY <1>2, <2>3, LeastOf
  <1>4. ASSUME T = {} PROVE S = U
    BY <1>1, <1>4
  <1> QED
    BY <1>3, <1>4 DEF S, T, U

(* Whichever of the three searches is used, and however wide its lanes are,  *)
(* it finds the first newline of the block (platform.cpp:227-361).           *)
THEOREM FindNlIsExact ==
    ASSUME NEW block \in Seq(Byte)
    PROVE  FindNl(block) =
               IF NewlinesIn(block, 0, Len(block)) = {} THEN {}
               ELSE {Min(NewlinesIn(block, 0, Len(block)))}
  <1>1. Wide \in Nat \ {0} /\ Narrow \in Nat \ {0} /\ Level \in {0, 1, 2}
    BY NlScanAssumption
  <1>2. ASSUME NEW from \in 0 .. Len(block)
        PROVE  FindNlSse2(block, from) = FindNlScalar(block, from)
    <2> DEFINE m == Behind(block, from, Narrow)
               T == NewlinesIn(block, from, m)
               S == NewlinesIn(block, from, Len(block))
               U == NewlinesIn(block, m, Len(block))
    <2>1. m \in Nat /\ from \in Nat /\ Len(block) \in Nat /\ from <= m /\ m <= Len(block)
      BY <1>1, BehindIs
    <2>2. FindInLanes(block, from, Narrow) = IF T = {} THEN {} ELSE {Min(T)}
      BY <1>1, FindInLanesIs
    <2>3. /\ FindNlScalar(block, from) = IF S = {} THEN {} ELSE {Min(S)}
          /\ FindNlScalar(block, m) = IF U = {} THEN {} ELSE {Min(U)}
      BY DEF FindNlScalar
    <2>4. FindNlSse2(block, from) =
            IF FindInLanes(block, from, Narrow) # {} THEN FindInLanes(block, from, Narrow)
            ELSE FindNlScalar(block, m)
      BY DEF FindNlSse2
    <2> HIDE DEF m
    <2>5. /\ T # {} => S # {} /\ Min(S) = Min(T)
          /\ T = {} => S = U
      BY <2>1, SearchGoesOn
    <2> HIDE DEF S, T, U
    <2> QED
      BY <2>2, <2>3, <2>4, <2>5
  <1>3. FindNlAvx2(block) = FindNlScalar(block, 0)
    <2> DEFINE m == Behind(block, 0, Wide)
               T == NewlinesIn(block, 0, m)
               S == NewlinesIn(block, 0, Len(block))
               U == NewlinesIn(block, m, Len(block))
    <2>0. 0 \in 0 .. Len(block) /\ Len(block) \in Nat /\ 0 \in Nat
      OBVIOUS
    <2>1. m \in Nat /\ 0 <= m /\ m <= Len(block) /\ m \in 0 .. Len(block)
      BY <1>1, <2>0, BehindIs
    <2>2. FindInLanes(block, 0, Wide) = IF T = {} THEN {} ELSE {Min(T)}
      BY <1>1, <2>0, FindInLanesIs
    <2>3. /\ FindNlScalar(block, 0) = IF S = {} THEN {} ELSE {Min(S)}
          /\ FindNlScalar(block, m) = IF U = {} THEN {} ELSE {Min(U)}
      BY DEF FindNlScalar
    <2>4. FindNlAvx2(block) =
            IF FindInLanes(block, 0, Wide) # {} THEN FindInLanes(block, 0, Wide)
            ELSE FindNlSse2(block, m)
      BY DEF FindNlAvx2
    <2> HIDE DEF m
    <2>5. /\ T # {} => S # {} /\ Min(S) = Min(T)
          /\ T = {} => S = U
      BY <2>0, <2>1, SearchGoesOn
    <2>6. FindNlSse2(block, m) = FindNlScalar(block, m)
      BY <1>2, <2>1
    <2> HIDE DEF S, T, U
    <2> QED
      BY <2>2, <2>3, <2>4, <2>5, <2>6
  <1>4. 0 \in 0 .. Len(block)
    OBVIOUS
  <1>5. FindNl(block) = FindNlScalar(block, 0)
    <2>1. CASE Level = 2
      BY <1>3, <2>1 DEF FindNl
    <2>2. CASE Level = 1
      <3>1. FindNl(block) = FindNlSse2(block, 0)
        BY <2>2 DEF FindNl
      <3> QED
        BY <1>2, <1>4, <3>1
    <2>3. CASE Level = 0
      BY <2>3 DEF FindNl
    <2> QED
      BY <1>1, <2>1, <2>2, <2>3
  <1> QED
    BY <1>5 DEF FindNlScalar

(* ------------------------------- one line -------------------------------- *)

\* The beginning of a line, the bytes o+1..t of f, with the block t+1..e
\* behind it.
Begins(f, o, t, e) ==
    /\ f \in Seq(Byte) /\ o \in Nat /\ t \in Nat /\ e \in Nat
    /\ o <= t /\ t <= e /\ e <= Len(f)
    /\ NewlinesIn(f, o, t) = {}

\* The first newline of the block c is its byte p.
FirstNl(c, p) == p \in NewlinesIn(c, 0, Len(c)) /\ NewlinesIn(c, 0, p - 1) = {}

CutOut(f, o, t, e, p) ==
    /\ p \in 1 .. e - t /\ f[t + p] = Nl
    /\ NewlinesBefore(f, t + p) = NewlinesBefore(f, o) + 1
    /\ SubSeq(f, o + 1, t) \o SubSeq(SubSeq(f, t + 1, e), 1, p - 1) = LineAt(f, o)
    /\ SubSeq(SubSeq(f, t + 1, e), p + 1, e - t) = SubSeq(f, t + p + 1, e)

(* The block is searched for the end of the line whose beginning has been   *)
(* kept: the line is cut out as it is.                                       *)
LEMMA LineCutOut ==
    ASSUME NEW f, NEW o, NEW t, NEW e, NEW p,
           Begins(f, o, t, e), FirstNl(SubSeq(f, t + 1, e), p)
    PROVE  CutOut(f, o, t, e, p)
  <1> DEFINE c == SubSeq(f, t + 1, e)
             m == t + p
  <1>0. /\ f \in Seq(Byte) /\ o \in Nat /\ t \in Nat /\ e \in Nat
        /\ o <= t /\ t <= e /\ e <= Len(f) /\ NewlinesIn(f, o, t) = {}
    BY DEF Begins
  <1>1. /\ Len(c) = e - t /\ \A i \in 1 .. e - t : c[i] = f[t + i]
        /\ c \in Seq(Byte)
    BY <1>0, PartIs
  <1>2. p \in 1 .. e - t /\ c[p] = Nl
    <2>1. e - t \in Nat /\ p \in NewlinesIn(c, 0, e - t)
      BY <1>0, <1>1 DEF FirstNl
    <2> HIDE DEF c
    <2> QED
      BY <2>1, FirstNewlines
  <1>3. /\ m \in Nat \ {0} /\ m - 1 \in Nat /\ p - 1 \in Nat /\ t <= m - 1 /\ o <= m - 1 /\ o < m
        /\ m <= e /\ m <= Len(f) /\ m - 1 = t + (p - 1) /\ p - 1 <= e - t /\ p \in Nat
    BY <1>0, <1>2
  <1>4. f[m] = Nl
    BY <1>1, <1>2
  <1>5. \A i \in Int : i \in NewlinesIn(c, 0, p - 1) <=> i + t \in NewlinesIn(f, t + 0, t + (p - 1))
    <2>1. 0 \in Nat
      OBVIOUS
    <2> QED
      BY <1>0, <1>3, <2>1, NewlinesOfPart
  <1>6. NewlinesIn(f, t, m - 1) = {}
    <2>1. NewlinesIn(f, t, m - 1) \in SUBSET Int
      BY <1>0, <1>3, NewlinesAre
    <2>2. t + 0 = t /\ NewlinesIn(c, 0, p - 1) = {}
      BY <1>0 DEF FirstNl
    <2> HIDE DEF c, m
    <2>3. \A i \in Int : i + t \notin NewlinesIn(f, t, m - 1)
      BY <1>3, <1>5, <2>2
    <2> SUFFICES ASSUME NEW i \in NewlinesIn(f, t, m - 1) PROVE FALSE
      OBVIOUS
    <2>4. i \in Int /\ i - t \in Int /\ (i - t) + t = i
      BY <1>0, <2>1
    <2> QED
      BY <2>3, <2>4
  <1>7. NewlinesIn(f, o, m - 1) = {}
    BY <1>0, <1>3, <1>6, NoneInBoth
  <1> HIDE DEF c, m
  <1>8. NewlinesBefore(f, m) = NewlinesBefore(f, o) + 1
    <2>1. NewlinesBefore(f, m - 1) = NewlinesBefore(f, o)
      BY <1>0, <1>3, <1>7, CountGrows
    <2>2. NewlinesBefore(f, m) = NewlinesBefore(f, m - 1) + 1
      BY <1>3, <1>4, OneByteMore
    <2> QED
      BY <2>1, <2>2
  <1>9. SubSeq(f, o + 1, t) \o SubSeq(c, 1, p - 1) = LineAt(f, o)
    <2>1. LineAt(f, o) = SubSeq(f, o + 1, m - 1)
      BY <1>0, <1>3, <1>4, <1>7, LineToNewline
    <2>2. SubSeq(c, 0 + 1, p - 1) = SubSeq(f, t + 0 + 1, t + (p - 1))
      <3>1. 0 \in Nat /\ 0 <= p - 1
        BY <1>3
      <3> QED
        BY <1>0, <1>3, <3>1, PartOfPart DEF c
    <2>3. 0 + 1 = 1 /\ t + 0 + 1 = t + 1
      BY <1>0
    <2>4. SubSeq(c, 1, p - 1) = SubSeq(f, t + 1, m - 1)
      BY <1>3, <2>2, <2>3
    <2>5. SubSeq(f, o + 1, t) \o SubSeq(f, t + 1, m - 1) = SubSeq(f, o + 1, m - 1)
      <3>1. m - 1 <= Len(f)
        BY <1>3
      <3> QED
        BY <1>0, <1>3, <3>1, PartsJoin
    <2> QED
      BY <2>1, <2>4, <2>5
  <1>10. SubSeq(c, p + 1, e - t) = SubSeq(f, m + 1, e)
    <2>1. e - t \in Nat /\ e - t <= e - t /\ t + (e - t) = e /\ p <= e - t
      BY <1>0, <1>2
    <2>2. SubSeq(c, p + 1, e - t) = SubSeq(f, t + p + 1, t + (e - t))
      BY <1>0, <1>3, <2>1, PartOfPart DEF c
    <2> QED
      BY <2>1, <2>2 DEF m
  <1> QED
    BY <1>2, <1>4, <1>8, <1>9, <1>10 DEF c, m, CutOut

GoesOn(f, o, t, e, c) ==
    /\ SubSeq(f, o + 1, t) \o c = SubSeq(f, o + 1, e)
    /\ NewlinesIn(f, o, e) = {}

(* No newline in the block: the line goes on behind it.                     *)
LEMMA LineGoesOn ==
    ASSUME NEW f, NEW o, NEW t, NEW e, NEW c, Begins(f, o, t, e),
           c = SubSeq(f, t + 1, e), NewlinesIn(c, 0, Len(c)) = {}
    PROVE  GoesOn(f, o, t, e, c)
  <1>0. /\ f \in Seq(Byte) /\ o \in Nat /\ t \in Nat /\ e \in Nat
        /\ o <= t /\ t <= e /\ e <= Len(f) /\ NewlinesIn(f, o, t) = {}
    BY DEF Begins
  <1>1. 0 \in Nat /\ e - t \in Nat /\ e - t <= e - t /\ t + 0 = t /\ t + (e - t) = e
    BY <1>0
  <1>2. \A i \in Int : i \in NewlinesIn(c, 0, e - t) <=> i + t \in NewlinesIn(f, t + 0, t + (e - t))
    BY <1>0, <1>1, NewlinesOfPart
  <1>3. NewlinesIn(f, t, e) = {}
    <2>0. Len(c) = e - t
      BY <1>0, PartIs
    <2>1. NewlinesIn(f, t, e) \in SUBSET Int
      BY <1>0, NewlinesAre
    <2>2. \A i \in Int : i + t \notin NewlinesIn(f, t, e)
      BY <1>1, <1>2, <2>0
    <2> SUFFICES ASSUME NEW i \in NewlinesIn(f, t, e) PROVE FALSE
      OBVIOUS
    <2>3. i \in Int /\ i - t \in Int /\ (i - t) + t = i
      BY <1>0, <2>1
    <2> QED
      BY <2>2, <2>3
  <1>4. NewlinesIn(f, o, e) = {}
    BY <1>0, <1>3, NoneInBoth
  <1>5. SubSeq(f, o + 1, t) \o SubSeq(f, t + 1, e) = SubSeq(f, o + 1, e)
    BY <1>0, PartsJoin
  <1> QED
    BY <1>4, <1>5 DEF GoesOn

(* ------------------------- the streaming reader -------------------------- *)

(* What is known of a call.                                                  *)
LEMMA CallIs ==
    ASSUME CallTypes
    PROVE  /\ call.api \in Apis /\ call.lines \in Seq(Nat) /\ call.n \in Nat
           /\ Block \in Nat \ {0} /\ Len(file) \in Nat /\ Len(seen) \in Nat
  <1>1. call \in Calls /\ file \in Seq(Byte) /\ seen \in Seq(Seq(Byte))
    BY DEF CallTypes
  <1>2. call.api \in Apis /\ call.lines \in Seq(Nat) /\ call.n \in Nat
    BY <1>1, CallsAssumption DEF CallsAssumption
  <1>3. Len(file) \in Nat
    BY <1>1
  <1>4. Len(seen) \in Nat
    BY <1>1
  <1> QED
    BY <1>2, <1>3, <1>4, BlockAssumption

(* The last line readLines asks for, behind which it stops.                  *)
LEMMA LastLineIs ==
    ASSUME NEW c \in Calls, c.api = "readLines", ~Rejected(c), ~NothingAsked(c)
    PROVE  /\ LastLine(c) \in Nat /\ LastLine(c) \in ToSet(c.lines)
           /\ \A i \in DOMAIN c.lines : c.lines[i] \in 1 .. LastLine(c)
  <1> DEFINE S == ToSet(c.lines)
  <1>1. c.lines \in Seq(Nat)
    BY CallsAssumption DEF CallsAssumption
  <1>2. c.lines # <<>> /\ 0 \notin S
    BY DEF Rejected, NothingAsked
  <1>3. S = {c.lines[i] : i \in DOMAIN c.lines} /\ DOMAIN c.lines = 1 .. Len(c.lines)
        /\ Len(c.lines) \in Nat
    BY <1>1 DEF ToSet
  <1>4. IsFiniteSet(S)
    <2>1. IsFiniteSet(1 .. Len(c.lines))
      BY <1>3, FS_Interval
    <2>2. c.lines \in Surjection(1 .. Len(c.lines), S)
      BY <1>1, <1>3 DEF Surjection
    <2> QED
      BY <2>1, <2>2, FS_Surjection
  <1>5. S \in SUBSET Int /\ S \in SUBSET Nat
    BY <1>1, <1>3
  <1>6. S # {}
    <2>1. 1 \in DOMAIN c.lines
      BY <1>1, <1>2
    <2> QED
      BY <1>3, <2>1
  <1>7. \A i \in DOMAIN c.lines : c.lines[i] \in S
    BY <1>3
  <1> HIDE DEF S
  <1>8. Max(S) \in S /\ \A e \in S : e <= Max(S)
    BY <1>4, <1>5, <1>6, GreatestIs
  <1>9. \A i \in DOMAIN c.lines : c.lines[i] \in 1 .. Max(S)
    <2>1. Max(S) \in Nat
      BY <1>5, <1>8
    <2>2. \A e \in S : e \in Nat /\ e # 0 /\ e <= Max(S)
      BY <1>2, <1>5, <1>8
    <2>3. \A e \in S : e \in 1 .. Max(S)
      BY <2>1, <2>2
    <2> QED
      BY <1>7, <2>3
  <1> QED
    BY <1>5, <1>8, <1>9 DEF LastLine, S

(* Where the reader is, in one place.                                       *)
LEMMA ReaderAt ==
    ASSUME CallTypes, ReaderInv, call.api \in ReaderApis, pc # "done"
    PROVE  /\ Taken \in Nat /\ LineStart \in Nat /\ offset \in Nat
           /\ LineStart <= Taken /\ Taken <= offset /\ offset <= Len(file)
           /\ offset - Taken = Len(chunk) /\ Taken - LineStart = Len(Begun)
           /\ chunk \in Seq(Byte) /\ Begun \in Seq(Byte) /\ file \in Seq(Byte)
           /\ chunk = SubSeq(file, Taken + 1, offset)
           /\ Begun = SubSeq(file, LineStart + 1, Taken)
           /\ NewlinesIn(file, LineStart, Taken) = {}
           /\ Begins(file, LineStart, Taken, offset)
  <1>1. ReaderTypes /\ BytesInv
    BY DEF ReaderInv
  <1>2. chunk \in Seq(Byte) /\ Begun \in Seq(Byte) /\ Len(chunk) \in Nat /\ Len(Begun) \in Nat
    BY <1>1 DEF ReaderTypes, Begun
  <1>3. offset \in 0 .. Len(file) /\ file \in Seq(Byte) /\ Len(file) \in Nat
    BY DEF CallTypes
  <1>4. /\ Taken = offset - Len(chunk) /\ LineStart = Taken - Len(Begun)
    BY DEF Taken, LineStart
  <1>5. /\ LineStart \in Nat
        /\ chunk = SubSeq(file, Taken + 1, offset)
        /\ Begun = SubSeq(file, LineStart + 1, Taken)
        /\ NewlinesIn(file, LineStart, Taken) = {}
    BY <1>1 DEF BytesInv
  <1>6. offset \in Nat /\ offset <= Len(file)
    BY <1>3
  <1>7. Taken \in Int /\ Taken <= offset /\ LineStart <= Taken
        /\ offset - Taken = Len(chunk) /\ Taken - LineStart = Len(Begun)
    BY <1>2, <1>4, <1>6
  <1>8. Taken \in Nat
    BY <1>5, <1>7
  <1>9. Begins(file, LineStart, Taken, offset)
    BY <1>3, <1>5, <1>6, <1>7, <1>8 DEF Begins
  <1> QED
    BY <1>2, <1>3, <1>5, <1>6, <1>7, <1>8, <1>9

(* A line is given to a caller that wanted one.                             *)
LEMMA OneMoreLine ==
    ASSUME CallTypes, NotTooMany, WantsMore, pc \notin {"open", "done"}, call' = call,
           NEW l, seen' = Append(seen, l), call.api \in ReaderApis
    PROVE  NotTooMany'
  <1>1. Len(seen) \in Nat /\ Len(seen') = Len(seen) + 1 /\ call.n \in Nat
    BY CallIs DEF CallTypes
  <1>2. CASE call.api \in {"readLine", "head"}
    <2>1. Len(seen) < call.n
      BY <1>2 DEF WantsMore
    <2> QED
      BY <1>1, <1>2, <2>1 DEF NotTooMany
  <1>3. CASE call.api = "readLines"
    <2>1. Len(seen) < LastLine(call) /\ Len(seen) <= LastLine(call)
      BY <1>3 DEF WantsMore, NotTooMany
    <2>2. LastLine(call) \in Nat
      <3>1. call \in Calls /\ ~Rejected(call) /\ ~NothingAsked(call)
        BY DEF CallTypes, Answered
      <3> QED
        BY <1>3, <3>1, LastLineIs
    <2> QED
      BY <1>1, <1>3, <2>1, <2>2 DEF NotTooMany
  <1>4. CASE call.api = "forEachLine"
    <2>1. call.n = 0 \/ Len(seen) # call.n
      BY <1>4 DEF WantsMore
    <2>2. call.n = 0 \/ Len(seen) <= call.n
      BY <1>4 DEF NotTooMany
    <2>3. call.n = 0 \/ Len(seen) + 1 <= call.n
      BY <1>1, <2>1, <2>2
    <2> QED
      BY <1>1, <1>4, <2>3 DEF NotTooMany
  <1>5. CASE call.api = "readAllLines"
    BY <1>5 DEF NotTooMany
  <1> QED
    BY <1>2, <1>3, <1>4, <1>5 DEF ReaderApis

(* A sequence with one more member.                                          *)
LEMMA OneMore ==
    ASSUME NEW S, NEW s \in Seq(S), NEW l \in S
    PROVE  /\ Append(s, l) \in Seq(S) /\ Len(Append(s, l)) = Len(s) + 1 /\ Len(s) \in Nat
           /\ Append(s, l)[Len(s) + 1] = l
           /\ \A i \in 1 .. Len(s) : Append(s, l)[i] = s[i]
           /\ \A i \in DOMAIN Append(s, l) : i \in 1 .. Len(s) \/ i = Len(s) + 1
           /\ DOMAIN s = 1 .. Len(s)
  <1>1. Append(s, l) \in Seq(S) /\ Len(Append(s, l)) = Len(s) + 1 /\ Len(s) \in Nat
    OBVIOUS
  <1>2. \A i \in 1 .. Len(s) : Append(s, l)[i] = s[i]
    OBVIOUS
  <1>3. Append(s, l)[Len(s) + 1] = l /\ DOMAIN s = 1 .. Len(s)
    OBVIOUS
  <1>4. DOMAIN Append(s, l) = 1 .. Len(s) + 1
    OBVIOUS
  <1>5. \A i \in DOMAIN Append(s, l) : i \in 1 .. Len(s) \/ i = Len(s) + 1
    BY <1>1, <1>4
  <1> QED
    BY <1>1, <1>2, <1>3, <1>5

(* A newline in the block ends a line, which is handed out.                  *)
LEMMA FoundNlKeeps ==
    ASSUME CallTypes, ReaderInv, call.api \in ReaderApis, FoundNl
    PROVE  CallTypes' /\ ReaderInv'
  <1> DEFINE f == file
             o == LineStart
             t == Taken
             e == offset
             c == SubSeq(f, t + 1, e)
             b == SubSeq(f, o + 1, t)
  <1>1. PICK p \in NewlinesIn(chunk, 0, Len(chunk)) :
            /\ NewlinesIn(chunk, 0, p - 1) = {}
            /\ chunk' = SubSeq(chunk, p + 1, Len(chunk))
            /\ overflow' = IF overflow = <<>> THEN <<>>
                           ELSE overflow \o SubSeq(chunk, 1, p - 1)
            /\ tailReturned' = (overflow # <<>>)
            /\ seen' = Append(seen, overflow \o SubSeq(chunk, 1, p - 1))
    BY DEF FoundNl, Give
  <1>2. /\ pc = "scan" /\ pc' = "caller"
        /\ file' = file /\ call' = call /\ answer' = answer /\ failed' = failed
        /\ offset' = offset /\ eof' = eof /\ error' = error
    BY DEF FoundNl, Give
  <1>3. ReaderTypes /\ BytesInv /\ (BetweenLines \/ BehindTheLast) /\ LoopInv
    BY <1>2 DEF ReaderInv
  <1>4. ~tailReturned /\ Begun = overflow /\ WantsMore /\ NotTooMany
    BY <1>2, <1>3 DEF LoopInv, Begun
  <1>5. /\ t \in Nat /\ o \in Nat /\ e \in Nat /\ o <= t /\ t <= e /\ e <= Len(f)
        /\ e - t = Len(chunk) /\ t - o = Len(overflow) /\ f \in Seq(Byte)
        /\ chunk \in Seq(Byte) /\ overflow \in Seq(Byte)
        /\ chunk = c /\ overflow = b /\ NewlinesIn(f, o, t) = {}
        /\ Begins(f, o, t, e)
    BY <1>2, <1>4, ReaderAt
  <1>6. e \in 0 .. Len(f) /\ Len(f) \in Nat /\ answer = Running /\ ~Answered /\ call \in Calls
        /\ seen \in Seq(Seq(Byte)) /\ failed \in BOOLEAN
    BY <1>2 DEF CallTypes
  <1> HIDE DEF f, o, t, e
  <1>7. CutOut(f, o, t, e, p)
    <2>1. FirstNl(SubSeq(f, t + 1, e), p)
      BY <1>1, <1>5 DEF FirstNl
    <2> QED
      BY <1>5, <2>1, LineCutOut
  <1> HIDE DEF c, b
  <1>8. /\ p \in 1 .. e - t /\ f[t + p] = Nl
        /\ NewlinesBefore(f, t + p) = NewlinesBefore(f, o) + 1
        /\ b \o SubSeq(c, 1, p - 1) = LineAt(f, o)
        /\ SubSeq(c, p + 1, e - t) = SubSeq(f, t + p + 1, e)
    BY <1>7 DEF b, c, CutOut
  <1> DEFINE l == overflow \o SubSeq(chunk, 1, p - 1)
  <1>9. l = LineAt(f, o)
    BY <1>5, <1>8
  <1>10. chunk # <<>>
    <2>1. Len(chunk) # 0
      BY <1>5, <1>8
    <2> QED
      BY <2>1
  <1>11. BetweenLines
    BY <1>3, <1>10 DEF BehindTheLast
  <1>12. /\ o = 0 \/ f[o] = Nl
         /\ Len(seen) = NewlinesBefore(f, o)
         /\ \A i \in DOMAIN seen : IsLine(i, seen[i])
    BY <1>11 DEF BetweenLines, f, o
  <1>13. o < Len(f)
    BY <1>5, <1>8
  <1>14. /\ NewlinesBefore(f, o) + 1 \in 1 .. Len(Lines(f))
         /\ Lines(f)[NewlinesBefore(f, o) + 1] = LineAt(f, o)
    BY <1>5, <1>12, <1>13, LineOf
  <1>15. Len(seen) + 1 \in 1 .. Len(Lines(f)) /\ l = Lines(f)[Len(seen) + 1]
    BY <1>9, <1>12, <1>14
  <1>16. l \in Seq(Byte)
    <2>1. Lines(f) \in Seq(Seq(Byte))
      BY <1>5, LinesAre
    <2>2. Lines(f)[Len(seen) + 1] \in Seq(Byte)
      BY <1>15, <2>1, ElementOfSeq
    <2> QED
      BY <1>15, <2>2
  <1> HIDE DEF l
  <1>17. /\ seen' = Append(seen, l) /\ seen' \in Seq(Seq(Byte)) /\ Len(seen') = Len(seen) + 1
         /\ \A i \in DOMAIN seen' : \/ i \in DOMAIN seen /\ seen'[i] = seen[i]
                                    \/ i = Len(seen) + 1 /\ seen'[i] = l
    <2>1. seen' = Append(seen, l)
      BY <1>1 DEF l
    <2> QED
      BY <1>6, <1>16, <2>1, OneMore
  <1>18. /\ chunk' = SubSeq(f, t + p + 1, e) /\ t + p \in Nat /\ t + p <= e /\ p \in Nat
         /\ chunk' \in Seq(Byte) /\ Len(chunk') = e - (t + p)
    <2>1. chunk' = SubSeq(f, t + p + 1, e)
      BY <1>1, <1>5, <1>8
    <2>2. t + p \in Nat /\ t + p <= e /\ p \in Nat
      BY <1>5, <1>8
    <2> DEFINE m == t + p
    <2>3. m \in Nat /\ m <= e /\ f \in Seq(Byte) /\ e \in Nat /\ e <= Len(f)
      BY <1>5, <2>2
    <2> HIDE DEF m
    <2>4. SubSeq(f, m + 1, e) \in Seq(Byte) /\ Len(SubSeq(f, m + 1, e)) = e - m
      BY <2>3, PartIs
    <2> QED
      BY <2>1, <2>2, <2>4 DEF m
  <1>19. Begun' = <<>> /\ Len(Begun') = 0
    BY <1>1 DEF Begun
  <1>20. Taken' = t + p /\ LineStart' = t + p
    <2>1. Taken' = e - Len(chunk')
      BY <1>2 DEF Taken, e
    <2>2. Taken' = t + p
      BY <1>5, <1>18, <2>1
    <2>3. LineStart' = Taken' - Len(Begun')
      BY DEF LineStart
    <2> QED
      BY <1>18, <1>19, <2>2, <2>3
  <1>21. CallTypes'
    BY <1>2, <1>6, <1>17 DEF CallTypes, Answered, Rejected, NothingAsked, f, e
  <1>22. ReaderTypes'
    <2>1. overflow' \in Seq(Byte)
      <3>1. l \in Seq(Byte) /\ overflow' = IF overflow = <<>> THEN <<>> ELSE l
        BY <1>1, <1>16 DEF l
      <3> QED
        BY <3>1
    <2> QED
      BY <1>1, <1>2, <1>3, <1>18, <2>1 DEF ReaderTypes
  <1>23. BytesInv'
    <2>1. NewlinesIn(f, t + p, t + p) = {} /\ SubSeq(f, t + p + 1, t + p) = <<>>
      <3> DEFINE m == t + p
      <3>1. m \in Nat
        BY <1>18
      <3> HIDE DEF m
      <3>2. NewlinesIn(f, m, m) = {} /\ SubSeq(f, m + 1, m) = <<>>
        BY <1>5, <3>1 DEF NewlinesIn
      <3> QED
        BY <3>2 DEF m
    <2>2. /\ eof => error \/ offset = Len(file)
          /\ error => eof
          /\ failed <=> error
      BY <1>3 DEF BytesInv
    <2>3. /\ LineStart' \in Nat
          /\ chunk' = SubSeq(file', Taken' + 1, offset')
          /\ Begun' = SubSeq(file', LineStart' + 1, Taken')
          /\ NewlinesIn(file', LineStart', Taken') = {}
      BY <1>2, <1>18, <1>19, <1>20, <2>1 DEF f, e
    <2> QED
      BY <1>2, <2>2, <2>3 DEF BytesInv
  <1>24. BetweenLines'
    <2>1. \A i \in DOMAIN seen' : i <= Len(Lines(f)) /\ seen'[i] = Lines(f)[i]
      BY <1>12, <1>15, <1>17 DEF IsLine, f
    <2>2. Len(seen') = NewlinesBefore(f, t + p)
      BY <1>8, <1>12, <1>17
    <2> QED
      BY <1>2, <1>8, <1>20, <2>1, <2>2 DEF BetweenLines, IsLine, f
  <1>25. LoopInv'
    <2>1. NotTooMany'
      BY <1>2, <1>4, <1>17, OneMoreLine
    <2> QED
      BY <1>2, <2>1 DEF LoopInv
  <1> QED
    BY <1>21, <1>22, <1>23, <1>24, <1>25 DEF ReaderInv

(* What a read(2) returns.                                                  *)
LEMMA GotIs ==
    ASSUME CallTypes, NEW bytes \in Got(Block)
    PROVE  \E k \in Nat \ {0} :
              /\ offset + k <= Len(file) /\ bytes = SubSeq(file, offset + 1, offset + k)
              /\ Len(bytes) = k /\ bytes \in Seq(Byte) /\ bytes # <<>>
  <1>1. offset \in Nat /\ Len(file) \in Nat /\ offset <= Len(file) /\ file \in Seq(Byte)
        /\ Block \in Nat
    BY BlockAssumption DEF CallTypes
  <1>2. PICK k \in 1 .. Min({Block, Len(file) - offset}) :
            bytes = SubSeq(file, offset + 1, offset + k)
    BY DEF Got
  <1> DEFINE r == Len(file) - offset
  <1>3. r \in Int
    BY <1>1
  <1>4. Min({Block, r}) = IF Block <= r THEN Block ELSE r
    BY <1>1, <1>3, LesserIs
  <1>5. k \in Nat \ {0} /\ offset + k <= Len(file)
    BY <1>1, <1>2, <1>4
  <1> DEFINE e == offset + k
  <1>6. e \in Nat /\ offset <= e /\ e <= Len(file) /\ e - offset = k
    BY <1>1, <1>5
  <1> HIDE DEF e
  <1>7. /\ SubSeq(file, offset + 1, e) \in Seq(Byte) /\ Len(SubSeq(file, offset + 1, e)) = e - offset
    BY <1>1, <1>6, PartIs
  <1>8. bytes \in Seq(Byte) /\ Len(bytes) = k
    BY <1>2, <1>6, <1>7 DEF e
  <1>9. bytes # <<>>
    BY <1>5, <1>8
  <1> QED
    BY <1>2, <1>5, <1>8, <1>9

(* Where a line starts and what is taken of it depends on the block and its  *)
(* position.                                                                 *)
LEMMA SamePlace ==
    ASSUME chunk' = chunk, offset' = offset, Begun' = Begun
    PROVE  Taken' = Taken /\ LineStart' = LineStart
  BY DEF Taken, LineStart

(* At first no line is begun.                                                *)
LEMMA OpenKeeps ==
    ASSUME CallTypes, ReaderInv, call.api \in ReaderApis, Open
    PROVE  CallTypes' /\ ReaderInv'
  <1>1. /\ pc = "open" /\ ~Answered /\ pc' = "caller"
        /\ file' = file /\ call' = call /\ offset' = offset /\ seen' = seen /\ answer' = answer
        /\ failed' = failed /\ chunk' = chunk /\ overflow' = overflow /\ eof' = eof
        /\ error' = error /\ tailReturned' = tailReturned
    BY DEF Open, readerVars
  <1>2. ReaderTypes /\ BytesInv /\ (BetweenLines \/ BehindTheLast) /\ LoopInv
    BY <1>1 DEF ReaderInv
  <1>3. CallTypes'
    BY <1>1 DEF CallTypes, Answered, Rejected, NothingAsked
  <1>4. Begun' = Begun
    BY <1>1 DEF Begun
  <1>5. Taken' = Taken /\ LineStart' = LineStart
    BY <1>1, <1>4, SamePlace
  <1>6. ReaderTypes' /\ BytesInv'
    <2>1. ReaderTypes'
      BY <1>1, <1>2 DEF ReaderTypes
    <2>2. BytesInv'
      BY <1>1, <1>2, <1>4, <1>5 DEF BytesInv
    <2> QED
      BY <2>1, <2>2
  <1>7. BetweenLines => BetweenLines'
    BY <1>1, <1>5 DEF BetweenLines, IsLine
  <1>8. BehindTheLast => BehindTheLast'
    BY <1>1, <1>4 DEF BehindTheLast, IsLine
  <1>9. LoopInv'
    <2>1. call.api = "readLines" => Len(seen) <= LastLine(call)
      <3>1. seen = <<>>
        BY <1>1 DEF CallTypes
      <3>2. ASSUME call.api = "readLines" PROVE LastLine(call) \in Nat
        <4>1. call \in Calls /\ ~Rejected(call) /\ ~NothingAsked(call)
          BY <1>1 DEF CallTypes, Answered
        <4> QED
          BY <3>2, <4>1, LastLineIs
      <3>3. Len(seen) = 0
        BY <3>1
      <3> QED
        BY <3>2, <3>3
    <2>2. NotTooMany'
      BY <1>1, <1>2, <2>1 DEF LoopInv, NotTooMany
    <2> QED
      BY <1>1, <2>2 DEF LoopInv
  <1> QED
    BY <1>2, <1>3, <1>6, <1>7, <1>8, <1>9 DEF ReaderInv

(* The next line begins behind the last.                                     *)
LEMMA NextKeeps ==
    ASSUME CallTypes, ReaderInv, call.api \in ReaderApis, Next_
    PROVE  CallTypes' /\ ReaderInv'
  <1>1. /\ pc = "caller" /\ WantsMore /\ pc' = "scan" /\ tailReturned' = FALSE
        /\ overflow' = IF tailReturned THEN <<>> ELSE overflow
        /\ file' = file /\ call' = call /\ offset' = offset /\ seen' = seen /\ answer' = answer
        /\ failed' = failed /\ chunk' = chunk /\ eof' = eof /\ error' = error
    BY DEF Next_
  <1>2. ReaderTypes /\ BytesInv /\ (BetweenLines \/ BehindTheLast) /\ LoopInv
    BY <1>1 DEF ReaderInv
  <1>3. CallTypes'
    BY <1>1 DEF CallTypes, Answered, Rejected, NothingAsked
  <1>4. Begun' = Begun
    BY <1>1 DEF Begun
  <1>5. Taken' = Taken /\ LineStart' = LineStart
    BY <1>1, <1>4, SamePlace
  <1>6. ReaderTypes' /\ BytesInv'
    <2>1. ReaderTypes'
      <3>1. overflow' \in Seq(Byte)
        <4>1. overflow' = <<>> \/ overflow' = overflow
          BY <1>1
        <4>2. <<>> \in Seq(Byte) /\ overflow \in Seq(Byte)
          BY <1>2 DEF ReaderTypes
        <4> QED
          BY <4>1, <4>2
      <3> QED
        BY <1>1, <1>2, <3>1 DEF ReaderTypes
    <2>2. BytesInv'
      BY <1>1, <1>2, <1>4, <1>5 DEF BytesInv
    <2> QED
      BY <2>1, <2>2
  <1>7. BetweenLines => BetweenLines'
    BY <1>1, <1>5 DEF BetweenLines, IsLine
  <1>8. BehindTheLast => BehindTheLast'
    BY <1>1, <1>4 DEF BehindTheLast, IsLine
  <1>9. LoopInv'
    <2>1. NotTooMany'
      BY <1>1, <1>2 DEF LoopInv, NotTooMany
    <2>2. WantsMore'
      BY <1>1 DEF WantsMore
    <2> QED
      BY <1>1, <2>1, <2>2 DEF LoopInv
  <1> QED
    BY <1>2, <1>3, <1>6, <1>7, <1>8, <1>9 DEF ReaderInv

(* What is left of a block without a newline is kept.                        *)
LEMMA KeepKeeps ==
    ASSUME CallTypes, ReaderInv, call.api \in ReaderApis, Keep
    PROVE  CallTypes' /\ ReaderInv'
  <1>1. /\ pc = "scan" /\ pc' = pc /\ chunk # <<>> /\ NewlinesIn(chunk, 0, Len(chunk)) = {}
        /\ overflow' = overflow \o chunk /\ chunk' = <<>>
        /\ file' = file /\ call' = call /\ offset' = offset /\ seen' = seen /\ answer' = answer
        /\ failed' = failed /\ tailReturned' = tailReturned /\ eof' = eof /\ error' = error
    BY DEF Keep
  <1>2. ReaderTypes /\ BytesInv /\ BetweenLines /\ LoopInv
    BY <1>1 DEF ReaderInv, BehindTheLast
  <1>3. ~tailReturned /\ Begun = overflow
    BY <1>1, <1>2 DEF LoopInv, Begun
  <1>4. CallTypes'
    BY <1>1 DEF CallTypes, Answered, Rejected, NothingAsked
  <1>5. /\ Taken \in Nat /\ LineStart \in Nat /\ offset \in Nat
        /\ LineStart <= Taken /\ Taken <= offset /\ offset <= Len(file)
        /\ chunk = SubSeq(file, Taken + 1, offset) /\ file \in Seq(Byte)
        /\ chunk \in Seq(Byte) /\ overflow \in Seq(Byte)
        /\ overflow = SubSeq(file, LineStart + 1, Taken)
        /\ Begins(file, LineStart, Taken, offset)
    BY <1>1, <1>3, ReaderAt
  <1>6. /\ SubSeq(file, LineStart + 1, Taken) \o chunk = SubSeq(file, LineStart + 1, offset)
        /\ NewlinesIn(file, LineStart, offset) = {}
    <2>1. GoesOn(file, LineStart, Taken, offset, chunk)
      BY <1>1, <1>5, LineGoesOn
    <2> QED
      BY <2>1 DEF GoesOn
  <1>7. Begun' = SubSeq(file, LineStart + 1, offset) /\ Begun' = overflow'
    BY <1>1, <1>3, <1>5, <1>6 DEF Begun
  <1>8. Len(Begun') = offset - LineStart /\ Begun' \in Seq(Byte)
    <2>1. LineStart <= offset
      BY <1>5
    <2> QED
      BY <1>5, <1>7, <2>1, PartIs
  <1>9. Taken' = offset /\ LineStart' = LineStart
    <2>1. Taken' = offset
      BY <1>1, <1>5 DEF Taken
    <2>2. LineStart' = Taken' - Len(Begun')
      BY DEF LineStart
    <2> QED
      BY <1>5, <1>8, <2>1, <2>2
  <1>10. ReaderTypes'
    BY <1>1, <1>2, <1>7, <1>8 DEF ReaderTypes
  <1>11. BytesInv'
    <2>1. chunk' = SubSeq(file', Taken' + 1, offset')
      BY <1>1, <1>5, <1>9
    <2> QED
      BY <1>1, <1>2, <1>5, <1>6, <1>7, <1>9, <2>1 DEF BytesInv
  <1>12. BetweenLines'
    BY <1>1, <1>2, <1>9 DEF BetweenLines, IsLine
  <1>13. LoopInv'
    BY <1>1, <1>2 DEF LoopInv, NotTooMany, WantsMore
  <1> QED
    BY <1>4, <1>10, <1>11, <1>12, <1>13 DEF ReaderInv

(* The next block follows what was kept.                                     *)
LEMMA ReadKeeps ==
    ASSUME CallTypes, ReaderInv, call.api \in ReaderApis, Read
    PROVE  CallTypes' /\ ReaderInv'
  <1>1. /\ pc = "scan" /\ pc' = pc /\ chunk = <<>> /\ ~eof
        /\ chunk' \in Got(Block) /\ offset' = offset + Len(chunk') /\ overflow' = overflow
        /\ file' = file /\ call' = call /\ seen' = seen /\ answer' = answer
        /\ failed' = failed /\ tailReturned' = tailReturned /\ eof' = eof /\ error' = error
    BY DEF Read
  <1>2. ReaderTypes /\ BytesInv /\ BetweenLines /\ LoopInv
    BY <1>1 DEF ReaderInv, BehindTheLast
  <1>3. PICK k \in Nat \ {0} :
            /\ offset + k <= Len(file) /\ chunk' = SubSeq(file, offset + 1, offset + k)
            /\ Len(chunk') = k /\ chunk' \in Seq(Byte) /\ chunk' # <<>>
    BY <1>1, GotIs
  <1>4. Taken = offset /\ offset \in Nat /\ Len(file) \in Nat /\ LineStart = Taken - Len(Begun)
    <2>1. offset \in Nat /\ Len(file) \in Nat
      BY DEF CallTypes
    <2>2. Taken = offset - Len(chunk) /\ Len(chunk) = 0
      BY <1>1 DEF Taken
    <2> QED
      BY <2>1, <2>2 DEF LineStart
  <1>5. Begun' = Begun
    BY <1>1 DEF Begun
  <1>6. Taken' = offset /\ LineStart' = LineStart
    <2>1. Taken' = (offset + k) - k
      BY <1>1, <1>3 DEF Taken
    <2>2. Taken' = offset
      BY <1>3, <1>4, <2>1
    <2> QED
      BY <1>4, <1>5, <2>2 DEF LineStart
  <1>7. CallTypes'
    <2>1. offset + k \in 0 .. Len(file)
      BY <1>3, <1>4
    <2> QED
      BY <1>1, <1>3, <2>1 DEF CallTypes, Answered, Rejected, NothingAsked
  <1>8. ReaderTypes'
    BY <1>1, <1>2, <1>3 DEF ReaderTypes
  <1>9. BytesInv'
    BY <1>1, <1>2, <1>3, <1>4, <1>5, <1>6 DEF BytesInv
  <1>10. BetweenLines'
    BY <1>1, <1>2, <1>6 DEF BetweenLines, IsLine
  <1>11. LoopInv'
    BY <1>1, <1>2 DEF LoopInv, NotTooMany, WantsMore
  <1> QED
    BY <1>7, <1>8, <1>9, <1>10, <1>11 DEF ReaderInv

(* At the end of the file the bytes kept are its last line, if there are     *)
(* any.                                                                      *)
LEMMA ReadEndKeeps ==
    ASSUME CallTypes, ReaderInv, call.api \in ReaderApis, ReadEnd
    PROVE  CallTypes' /\ ReaderInv'
  <1>1. /\ pc = "scan" /\ pc' = pc /\ chunk = <<>> /\ ~eof /\ offset = Len(file) /\ eof' = TRUE
        /\ file' = file /\ call' = call /\ offset' = offset /\ seen' = seen /\ answer' = answer
        /\ failed' = failed /\ chunk' = chunk /\ overflow' = overflow
        /\ error' = error /\ tailReturned' = tailReturned
    BY DEF ReadEnd
  <1>2. ReaderTypes /\ BytesInv /\ BetweenLines /\ LoopInv
    BY <1>1 DEF ReaderInv, BehindTheLast
  <1>3. CallTypes'
    BY <1>1 DEF CallTypes, Answered, Rejected, NothingAsked
  <1>4. Begun' = Begun
    BY <1>1 DEF Begun
  <1>5. Taken' = Taken /\ LineStart' = LineStart
    BY <1>1, <1>4, SamePlace
  <1>6. ReaderTypes' /\ BytesInv'
    <2>1. ReaderTypes'
      BY <1>1, <1>2 DEF ReaderTypes
    <2>2. BytesInv'
      BY <1>1, <1>2, <1>4, <1>5 DEF BytesInv
    <2> QED
      BY <2>1, <2>2
  <1>7. BetweenLines'
    BY <1>1, <1>2, <1>5 DEF BetweenLines, IsLine
  <1>8. LoopInv'
    BY <1>1, <1>2 DEF LoopInv, NotTooMany, WantsMore
  <1> QED
    BY <1>3, <1>6, <1>7, <1>8 DEF ReaderInv

(* After a failed read they are handed out as a line that is cut.            *)
LEMMA ReadErrorKeeps ==
    ASSUME CallTypes, ReaderInv, call.api \in ReaderApis, ReadError
    PROVE  CallTypes' /\ ReaderInv'
  <1>1. /\ pc = "scan" /\ pc' = pc /\ chunk = <<>> /\ ~eof
        /\ eof' = TRUE /\ error' = TRUE /\ failed' = TRUE
        /\ file' = file /\ call' = call /\ offset' = offset /\ seen' = seen /\ answer' = answer
        /\ chunk' = chunk /\ overflow' = overflow /\ tailReturned' = tailReturned
    BY DEF ReadError
  <1>2. ReaderTypes /\ BytesInv /\ BetweenLines /\ LoopInv
    BY <1>1 DEF ReaderInv, BehindTheLast
  <1>3. CallTypes'
    BY <1>1 DEF CallTypes, Answered, Rejected, NothingAsked
  <1>4. Begun' = Begun
    BY <1>1 DEF Begun
  <1>5. Taken' = Taken /\ LineStart' = LineStart
    BY <1>1, <1>4, SamePlace
  <1>6. ReaderTypes' /\ BytesInv'
    <2>1. ReaderTypes'
      BY <1>1, <1>2 DEF ReaderTypes
    <2>2. BytesInv'
      BY <1>1, <1>2, <1>4, <1>5 DEF BytesInv
    <2> QED
      BY <2>1, <2>2
  <1>7. BetweenLines'
    BY <1>1, <1>2, <1>5 DEF BetweenLines, IsLine
  <1>8. LoopInv'
    BY <1>1, <1>2 DEF LoopInv, NotTooMany, WantsMore
  <1> QED
    BY <1>3, <1>6, <1>7, <1>8 DEF ReaderInv

(* The beginning of a line is a prefix of it, and all of it at the end.      *)
LEMMA BeginningIs ==
    ASSUME NEW f \in Seq(Byte), NEW o \in Nat, NEW e \in Nat, o <= e, e <= Len(f),
           NewlinesIn(f, o, e) = {}
    PROVE  /\ IsPrefix(SubSeq(f, o + 1, e), LineAt(f, o))
           /\ e = Len(f) => SubSeq(f, o + 1, e) = LineAt(f, o)
  <1>0. Len(f) \in Nat /\ o <= Len(f)
    OBVIOUS
  <1>1. PICK m \in o .. Len(f) : /\ LineAt(f, o) = SubSeq(f, o + 1, m)
                                 /\ NewlinesIn(f, o, m) = {}
                                 /\ m = Len(f) \/ f[m + 1] = Nl
    BY <1>0, LineEnds
  <1>2. e <= m
    <2> SUFFICES ASSUME m < e PROVE FALSE
      BY <1>0, <1>1
    <2>1. m + 1 \in o + 1 .. e /\ m # Len(f)
      BY <1>0, <1>1
    <2>2. m + 1 \in NewlinesIn(f, o, e)
      BY <1>1, <2>1, NewlinesAre
    <2> QED
      BY <2>2
  <1>3. m \in Nat /\ o <= m /\ m <= Len(f)
    BY <1>1
  <1> DEFINE l == SubSeq(f, o + 1, e)
             all == SubSeq(f, o + 1, m)
             n == e - o
  <1>4. n \in Nat /\ 0 \in Nat /\ 0 <= n /\ n <= m - o /\ n <= e - o /\ o + n = e /\ o + 0 + 1 = o + 1
        /\ 0 + 1 = 1
    BY <1>0, <1>2, <1>3
  <1>5. Len(l) = n /\ Len(all) = m - o
    BY <1>0, <1>3, PartIs
  <1> HIDE DEF n
  <1>6. SubSeq(l, 0 + 1, n) = SubSeq(f, o + 0 + 1, o + n)
    BY <1>4, PartOfPart
  <1>7. SubSeq(all, 0 + 1, n) = SubSeq(f, o + 0 + 1, o + n)
    BY <1>3, <1>4, PartOfPart
  <1> HIDE DEF l, all
  <1>8. SubSeq(l, 1, n) = SubSeq(all, 1, n)
    BY <1>4, <1>6, <1>7
  <1>9. Len(l) <= Len(all)
    BY <1>4, <1>5
  <1>10. IsPrefix(l, all)
    BY <1>5, <1>8, <1>9 DEF IsPrefix
  <1>11. ASSUME e = Len(f) PROVE SubSeq(f, o + 1, e) = LineAt(f, o)
    BY <1>0, <1>11, LineToEnd
  <1> QED
    BY <1>1, <1>10, <1>11 DEF l, all

(* At the end there is no further line.                                      *)
LEMMA AtEofKeeps ==
    ASSUME CallTypes, ReaderInv, call.api \in ReaderApis, AtEof
    PROVE  CallTypes' /\ ReaderInv'
  <1>1. /\ pc = "scan" /\ chunk = <<>> /\ eof
        /\ IF overflow # <<>>
           THEN seen' = Append(seen, overflow) /\ pc' = "caller" /\ tailReturned' = TRUE
           ELSE pc' = "false" /\ seen' = seen /\ tailReturned' = tailReturned
        /\ file' = file /\ call' = call /\ offset' = offset /\ answer' = answer
        /\ failed' = failed /\ chunk' = chunk /\ overflow' = overflow
        /\ error' = error /\ eof' = eof
    BY DEF AtEof, Give
  <1>2. ReaderTypes /\ BytesInv /\ (BetweenLines \/ BehindTheLast) /\ LoopInv
    BY <1>1 DEF ReaderInv
  <1>3. ~tailReturned /\ Begun = overflow /\ WantsMore /\ NotTooMany
    BY <1>1, <1>2 DEF LoopInv, Begun
  <1>4. CASE overflow = <<>>
    <2>1. pc' = "false" /\ seen' = seen /\ tailReturned' = tailReturned
      BY <1>1, <1>4
    <2>2. CallTypes'
      BY <1>1, <2>1 DEF CallTypes, Answered, Rejected, NothingAsked
    <2>3. Begun' = Begun
      BY <1>1, <2>1 DEF Begun
    <2>4. Taken' = Taken /\ LineStart' = LineStart
      BY <1>1, <2>3, SamePlace
    <2>5. ReaderTypes'
      BY <1>1, <1>2, <2>1 DEF ReaderTypes
    <2>6. BytesInv'
      BY <1>1, <1>2, <2>1, <2>3, <2>4 DEF BytesInv
    <2>7. BetweenLines => BetweenLines'
      BY <1>1, <2>1, <2>4 DEF BetweenLines, IsLine
    <2>8. BehindTheLast => BehindTheLast'
      BY <1>1, <2>1, <2>3 DEF BehindTheLast, IsLine
    <2>9. LoopInv'
      BY <1>1, <1>2, <1>3, <1>4, <2>1 DEF LoopInv, NotTooMany, WantsMore
    <2> QED
      BY <1>2, <2>2, <2>5, <2>6, <2>7, <2>8, <2>9 DEF ReaderInv
  <1>5. CASE overflow # <<>>
    <2> DEFINE f == file
               o == LineStart
               e == offset
    <2>1. seen' = Append(seen, overflow) /\ pc' = "caller" /\ tailReturned' = TRUE
      BY <1>1, <1>5
    <2>2. BetweenLines
      BY <1>2, <1>3, <1>5 DEF BehindTheLast
    <2>3. Taken = e
      <3>1. Len(chunk) = 0 /\ Taken = offset - Len(chunk) /\ offset \in Nat
        BY <1>1 DEF Taken, CallTypes
      <3> QED
        BY <3>1
    <2>4. /\ o \in Nat /\ e \in Nat /\ o <= e /\ e <= Len(f) /\ f \in Seq(Byte)
          /\ e - o = Len(overflow) /\ overflow \in Seq(Byte)
          /\ overflow = SubSeq(f, o + 1, e) /\ NewlinesIn(f, o, e) = {}
      BY <1>1, <1>3, <2>3, ReaderAt
    <2>5. /\ o = 0 \/ f[o] = Nl
          /\ Len(seen) = NewlinesBefore(f, o)
          /\ \A i \in DOMAIN seen : IsLine(i, seen[i])
      BY <2>2 DEF BetweenLines
    <2>6. eof => error \/ e = Len(f)
      BY <1>2 DEF BytesInv
    <2>7. seen \in Seq(Seq(Byte))
      BY DEF CallTypes
    <2> HIDE DEF f, o, e
    <2>8. o < e /\ o < Len(f)
      <3>1. Len(overflow) # 0 /\ Len(overflow) \in Nat
        BY <1>5, <2>4
      <3> QED
        BY <2>4, <3>1
    <2>9. /\ NewlinesBefore(f, o) + 1 \in 1 .. Len(Lines(f))
          /\ Lines(f)[NewlinesBefore(f, o) + 1] = LineAt(f, o)
      BY <2>4, <2>5, <2>8, LineOf
    <2>10. /\ IsPrefix(overflow, LineAt(f, o)) /\ (e = Len(f) => overflow = LineAt(f, o))
      BY <2>4, BeginningIs
    <2>11. /\ Len(seen) + 1 <= Len(Lines(f)) /\ Lines(f)[Len(seen) + 1] = LineAt(f, o)
      BY <2>5, <2>9
    <2>12. f[e] # Nl /\ e > 0
      <3>1. e \in o + 1 .. e /\ e > 0
        BY <2>4, <2>8
      <3>2. e \notin NewlinesIn(f, o, e)
        BY <2>4
      <3>3. e \in NewlinesIn(f, o, e) <=> e \in o + 1 .. e /\ f[e] = Nl
        BY DEF NewlinesIn
      <3> QED
        BY <3>1, <3>2, <3>3
    <2>13. NewlinesBefore(f, e) = NewlinesBefore(f, o)
      BY <2>4, CountGrows
    <2>14. /\ seen' \in Seq(Seq(Byte)) /\ Len(seen') = Len(seen) + 1
           /\ \A i \in DOMAIN seen' : \/ i \in DOMAIN seen /\ seen'[i] = seen[i]
                                      \/ i = Len(seen) + 1 /\ seen'[i] = overflow
      <3>1. overflow \in Seq(Byte)
        BY <2>4
      <3> QED
        BY <2>1, <2>7, <3>1, OneMore
    <2>15. CallTypes'
      BY <1>1, <2>1, <2>14 DEF CallTypes, Answered, Rejected, NothingAsked
    <2>16. ReaderTypes'
      BY <1>1, <1>2, <2>1 DEF ReaderTypes
    <2>17. Begun' = <<>> /\ chunk' = <<>>
      BY <1>1, <2>1 DEF Begun
    <2>18. Taken' = e /\ LineStart' = e
      <3>1. Len(Begun') = 0 /\ Len(chunk') = 0
        BY <2>17
      <3>2. Taken' = e - Len(chunk') /\ LineStart' = Taken' - Len(Begun')
        BY <1>1 DEF Taken, LineStart, e
      <3> QED
        BY <2>4, <3>1, <3>2
    <2>19. BytesInv'
      <3>1. NewlinesIn(f, e, e) = {} /\ SubSeq(f, e + 1, e) = <<>>
        BY <2>4 DEF NewlinesIn
      <3>2. /\ eof => error \/ offset = Len(file)
            /\ error => eof
            /\ failed <=> error
        BY <1>2 DEF BytesInv
      <3>3. /\ LineStart' \in Nat
            /\ chunk' = SubSeq(file', Taken' + 1, offset')
            /\ Begun' = SubSeq(file', LineStart' + 1, Taken')
            /\ NewlinesIn(file', LineStart', Taken') = {}
        BY <1>1, <2>4, <2>17, <2>18, <3>1 DEF f, e
      <3> QED
        BY <1>1, <3>2, <3>3 DEF BytesInv
    <2>20. BehindTheLast'
      <3>1. ASSUME NEW i \in DOMAIN seen'
            PROVE  \/ i <= Len(Lines(f)) /\ seen'[i] = Lines(f)[i]
                   \/ /\ error /\ i = Len(seen')
                      /\ i <= Len(Lines(f)) /\ IsPrefix(seen'[i], Lines(f)[i])
        <4>1. CASE i \in DOMAIN seen /\ seen'[i] = seen[i]
          <5>1. IsLine(i, seen[i])
            BY <2>5, <4>1
          <5> QED
            BY <4>1, <5>1 DEF IsLine, f
        <4>2. CASE i = Len(seen) + 1 /\ seen'[i] = overflow
          <5>1. CASE error
            BY <2>10, <2>11, <2>14, <4>2, <5>1
          <5>2. CASE ~error
            <6>1. overflow = LineAt(f, o)
              BY <1>1, <2>6, <2>10, <5>2
            <6> QED
              BY <2>11, <4>2, <6>1
          <5> QED
            BY <5>1, <5>2
        <4> QED
          BY <2>14, <4>1, <4>2
      <3>2. Len(seen') = NewlinesBefore(f, e) + 1
        BY <2>5, <2>13, <2>14
      <3> QED
        BY <1>1, <2>12, <2>17, <3>1, <3>2 DEF BehindTheLast, IsLine, f, e
    <2>21. LoopInv'
      <3>1. NotTooMany'
        BY <1>1, <1>3, <2>1, OneMoreLine
      <3> QED
        BY <2>1, <3>1 DEF LoopInv
    <2> QED
      BY <2>15, <2>16, <2>19, <2>20, <2>21 DEF ReaderInv
  <1> QED
    BY <1>4, <1>5

(* ------------------------------ the answers ------------------------------ *)

\* The answer a is what the call was promised, as far as it must be.
Kept(a) ==
    /\ a.is = "ok" /\ (ChecksError \/ ~failed) /\ ~LosesALine => a = Promised(call, file)
    /\ a = Refused => failed \/ Promised(call, file) = Refused

(* An answer that is exact or has a cause may be given.                      *)
LEMMA FinishKeeps ==
    ASSUME NEW a, Kept(a), answer' = a, call' = call, file' = file, failed' = failed
    PROVE  AnswerIsExact' /\ RefusedForCause'
  BY DEF Kept, AnswerIsExact, RefusedForCause, Succeeded, ChecksError, LosesALine

(* While the call runs nothing has been answered.                           *)
LEMMA RunningKeeps ==
    ASSUME answer' = Running
    PROVE  AnswerIsExact' /\ RefusedForCause'
  BY DEF AnswerIsExact, RefusedForCause, Succeeded, Running, Refused

(* What has been handed out is the beginning of the file's lines, all of    *)
(* them once next has returned false; after a read error the last may be cut.*)
LEMMA SeenIs ==
    ASSUME CallTypes, ReaderInv, call.api \in ReaderApis, pc # "done"
    PROVE  /\ OnlyTheLastIsCut
           /\ ~error => /\ \A i \in 1 .. Len(seen) : seen[i] = Lines(file)[i]
                        /\ Len(seen) <= Len(Lines(file))
                        /\ pc = "false" => Len(seen) = Len(Lines(file))
  <1> DEFINE f == file
             all == Lines(file)
  <1>1. ReaderTypes /\ BytesInv /\ (BetweenLines \/ BehindTheLast) /\ LoopInv
    BY DEF ReaderInv
  <1>2. OnlyTheLastIsCut
    BY <1>1 DEF OnlyTheLastIsCut, BetweenLines, BehindTheLast
  <1>3. f \in Seq(Byte) /\ Len(f) \in Nat /\ offset \in Nat /\ seen \in Seq(Seq(Byte))
    BY DEF CallTypes
  <1>4. Len(seen) \in Nat /\ DOMAIN seen = 1 .. Len(seen)
    BY <1>3
  <1>5. Len(all) \in Nat
    BY <1>3, LinesAre
  <1>6. ASSUME ~error PROVE \A i \in 1 .. Len(seen) : i <= Len(all) /\ seen[i] = all[i]
    BY <1>1, <1>4, <1>6 DEF BetweenLines, BehindTheLast, IsLine
  <1>7. ASSUME ~error PROVE Len(seen) <= Len(all)
    <2>1. CASE Len(seen) = 0
      BY <1>5, <2>1
    <2>2. CASE Len(seen) # 0
      <3>1. Len(seen) \in 1 .. Len(seen)
        BY <1>4, <2>2
      <3> QED
        BY <1>6, <1>7, <3>1
    <2> QED
      BY <2>1, <2>2
  <1>8. ASSUME ~error, pc = "false" PROVE Len(seen) = Len(all)
    <2>1. eof /\ chunk = <<>> /\ overflow = <<>> /\ offset = Len(f)
      BY <1>1, <1>8 DEF LoopInv, BytesInv
    <2>2. Begun = <<>> /\ LineStart = Len(f)
      <3>1. Begun = <<>> /\ Len(Begun) = 0 /\ Len(chunk) = 0
        BY <2>1 DEF Begun
      <3> QED
        BY <1>3, <2>1, <3>1 DEF Taken, LineStart
    <2> HIDE DEF f
    <2>3. /\ Len(f) = 0 => Len(Lines(f)) = 0
          /\ Len(f) > 0 => Len(Lines(f)) = IF f[Len(f)] = Nl THEN NewlinesBefore(f, Len(f))
                                           ELSE NewlinesBefore(f, Len(f)) + 1
      BY <1>3, LineCountIs
    <2>4. NewlinesBefore(f, 0) = 0
      BY NoneBeforeTheFirst
    <2>5. CASE BetweenLines
      <3>1. (Len(f) = 0 \/ f[Len(f)] = Nl) /\ Len(seen) = NewlinesBefore(f, Len(f))
        BY <2>2, <2>5 DEF BetweenLines, f
      <3>2. CASE Len(f) = 0
        BY <2>3, <2>4, <3>1, <3>2 DEF f
      <3>3. CASE Len(f) # 0
        <4>1. Len(f) > 0 /\ f[Len(f)] = Nl
          BY <1>3, <3>1, <3>3
        <4> QED
          BY <2>3, <3>1, <4>1 DEF f
      <3> QED
        BY <3>2, <3>3
    <2>6. CASE BehindTheLast
      <3>1. Len(f) > 0 /\ f[Len(f)] # Nl /\ Len(seen) = NewlinesBefore(f, Len(f)) + 1
        BY <2>1, <2>6 DEF BehindTheLast, f
      <3> QED
        BY <2>3, <3>1 DEF f
    <2> QED
      BY <1>1, <2>5, <2>6
  <1> QED
    BY <1>2, <1>6, <1>7, <1>8

(* So may that of any call of the reader.                                    *)
LEMMA AnswerKeeps ==
    ASSUME CallTypes, NEW api \in ReaderApis, NEW a, Answer(api, a), OnlyTheLastIsCut, Kept(a)
    PROVE  /\ CallTypes' /\ ReaderInv' /\ OnlyTheLastIsCut'
           /\ AnswerIsExact' /\ RefusedForCause'
  <1>1. /\ pc' = "done" /\ answer' = a /\ file' = file /\ call' = call /\ offset' = offset
        /\ seen' = seen /\ failed' = failed /\ error' = error
    BY DEF Answer, Finish, readerVars
  <1>2. CallTypes'
    BY <1>1 DEF CallTypes, Answered, Rejected, NothingAsked
  <1>3. ReaderInv'
    BY <1>1 DEF ReaderInv
  <1>4. OnlyTheLastIsCut'
    BY <1>1 DEF OnlyTheLastIsCut, IsLine
  <1>5. AnswerIsExact' /\ RefusedForCause'
    BY <1>1, FinishKeeps
  <1> QED
    BY <1>2, <1>3, <1>4, <1>5

(* The lesser of two lengths.                                                *)
LEMMA LesserLength ==
    ASSUME NEW k \in Nat, NEW m \in Nat, NEW n \in Nat, k <= m, k <= n, k = n \/ k = m
    PROVE  Min({n, m}) = k
  <1>1. Min({n, m}) = IF n <= m THEN n ELSE m
    BY LesserIs
  <1>2. (n <= m => n = k) /\ (~(n <= m) => m = k)
    OBVIOUS
  <1> QED
    BY <1>1, <1>2

(* The n first lines, or all of them if there are fewer.                    *)
LEMMA FirstOnes ==
    ASSUME NEW S, NEW all \in Seq(S), NEW s \in Seq(S), NEW n \in Nat,
           Len(s) <= Len(all), \A i \in 1 .. Len(s) : s[i] = all[i],
           Len(s) <= n, Len(s) = n \/ Len(s) = Len(all)
    PROVE  s = SubSeq(all, 1, Min({n, Len(all)}))
  <1>1. Len(s) \in Nat /\ Len(all) \in Nat /\ 0 \in Nat /\ 0 <= Len(s) /\ Len(s) = Len(s) - 0 /\ 0 + 1 = 1
        /\ n \in Int /\ Len(all) \in Int
    OBVIOUS
  <1>2. Min({n, Len(all)}) = Len(s)
    <2> DEFINE k == Len(s)
               m == Len(all)
    <2>1. k \in Nat /\ m \in Nat /\ k <= m /\ k <= n /\ (k = n \/ k = m)
      BY <1>1
    <2> HIDE DEF k, m
    <2>2. Min({n, m}) = k
      BY <2>1, LesserLength
    <2> QED
      BY <2>2 DEF k, m
  <1>3. \A i \in 1 .. Len(s) - 0 : s[i] = all[0 + i]
    <2> DEFINE k == Len(s)
    <2>1. k \in Nat
      OBVIOUS
    <2> HIDE DEF k
    <2>2. \A i \in 1 .. k - 0 : i \in 1 .. k /\ 0 + i = i
      BY <2>1
    <2> QED
      BY <2>2 DEF k
  <1>4. s = SubSeq(all, 0 + 1, Len(s))
    BY <1>1, <1>3, PartOnly
  <1> QED
    BY <1>1, <1>2, <1>4

(* readLine answers with the line asked for, or refuses one that is not      *)
(* there;                                                                    *)
LEMMA AnswerReadLineKeeps ==
    ASSUME CallTypes, ReaderInv, call.api \in ReaderApis, AnswerReadLine
    PROVE  /\ CallTypes' /\ ReaderInv' /\ OnlyTheLastIsCut'
           /\ AnswerIsExact' /\ RefusedForCause'
  <1> DEFINE all == Lines(file)
             a == IF Len(seen) = call.n THEN Ok(<<seen[call.n]>>) ELSE Refused
  <1>1. /\ call.api = "readLine" /\ Answer("readLine", a)
        /\ pc = "false" \/ (pc = "caller" /\ ~WantsMore)
    BY DEF AnswerReadLine, Answer
  <1>2. LoopInv /\ (failed <=> error) /\ OnlyTheLastIsCut
        /\ (~error => /\ \A i \in 1 .. Len(seen) : seen[i] = all[i]
                      /\ Len(seen) <= Len(all)
                      /\ pc = "false" => Len(seen) = Len(all))
    BY <1>1, SeenIs DEF ReaderInv, BytesInv
  <1>3. call.n \in Nat /\ Len(seen) \in Nat /\ file \in Seq(Byte)
    BY CallIs DEF CallTypes
  <1>4. Len(all) \in Nat /\ DOMAIN all = 1 .. Len(all)
    BY <1>3, LinesAre
  <1>5. call.n # 0
    BY <1>1 DEF CallTypes, Answered, Rejected
  <1>6. Len(seen) <= call.n /\ (pc = "false" => Len(seen) < call.n)
        /\ (pc = "caller" => Len(seen) >= call.n)
    BY <1>1, <1>2, <1>3 DEF LoopInv, NotTooMany, WantsMore
  <1>7. Promised(call, file) = IF call.n \in DOMAIN all THEN Ok(<<all[call.n]>>) ELSE Refused
    BY <1>1 DEF Promised
  <1>8. Kept(a)
    <2>1. CASE Len(seen) = call.n
      <3>1. ASSUME ~error PROVE a = Promised(call, file)
        <4>1. call.n \in 1 .. Len(seen) /\ call.n \in DOMAIN all
          BY <1>2, <1>3, <1>4, <1>5, <2>1, <3>1
        <4>2. seen[call.n] = all[call.n]
          BY <1>2, <3>1, <4>1
        <4> QED
          BY <1>7, <2>1, <4>1, <4>2
      <3>2. a # Refused
        BY <2>1 DEF Ok, Refused
      <3> QED
        BY <1>1, <1>2, <3>1, <3>2 DEF Kept, ChecksError
    <2>2. CASE Len(seen) # call.n
      <3>1. a = Refused /\ a.is # "ok" /\ pc = "false"
        BY <1>1, <1>3, <1>6, <2>2 DEF Refused
      <3>2. ASSUME ~error PROVE Promised(call, file) = Refused
        <4>1. call.n \notin DOMAIN all
          BY <1>2, <1>3, <1>4, <1>6, <3>1, <3>2
        <4> QED
          BY <1>7, <4>1
      <3> QED
        BY <1>2, <3>1, <3>2 DEF Kept
    <2> QED
      BY <2>1, <2>2
  <1> HIDE DEF a
  <1> QED
    BY <1>1, <1>2, <1>8, AnswerKeeps DEF ReaderApis

(* readLines with all it is asked for, or refuses;                           *)
LEMMA AnswerReadLinesKeeps ==
    ASSUME CallTypes, ReaderInv, call.api \in ReaderApis, AnswerReadLines
    PROVE  /\ CallTypes' /\ ReaderInv' /\ OnlyTheLastIsCut'
           /\ AnswerIsExact' /\ RefusedForCause'
  <1> DEFINE all == Lines(file)
             last == LastLine(call)
             v == [i \in DOMAIN call.lines |-> seen[call.lines[i]]]
             p == [i \in DOMAIN call.lines |-> all[call.lines[i]]]
             a == IF error \/ Len(seen) < last THEN Refused ELSE Ok(v)
  <1>1. /\ call.api = "readLines" /\ Answer("readLines", a)
        /\ pc = "false" \/ (pc = "caller" /\ ~WantsMore)
    BY DEF AnswerReadLines, Answer
  <1>2. LoopInv /\ (failed <=> error) /\ OnlyTheLastIsCut
        /\ (~error => /\ \A i \in 1 .. Len(seen) : seen[i] = all[i]
                      /\ Len(seen) <= Len(all)
                      /\ pc = "false" => Len(seen) = Len(all))
    BY <1>1, SeenIs DEF ReaderInv, BytesInv
  <1>3. Len(seen) \in Nat /\ file \in Seq(Byte)
    BY CallIs DEF CallTypes
  <1>4. Len(all) \in Nat /\ DOMAIN all = 1 .. Len(all)
    BY <1>3, LinesAre
  <1>5. /\ last \in Nat /\ last \in ToSet(call.lines)
        /\ \A i \in DOMAIN call.lines : call.lines[i] \in 1 .. last
    <2>1. call \in Calls /\ ~Rejected(call) /\ ~NothingAsked(call)
      BY <1>1 DEF CallTypes, Answered
    <2> QED
      BY <1>1, <2>1, LastLineIs
  <1>6. pc = "caller" => Len(seen) >= last
    BY <1>1, <1>3, <1>5 DEF WantsMore
  <1>7. Promised(call, file) = IF ToSet(call.lines) \subseteq DOMAIN all THEN Ok(p) ELSE Refused
    BY <1>1 DEF Promised
  <1> HIDE DEF last
  <1>8. Kept(a)
    <2>1. CASE error
      <3>1. a = Refused /\ a.is # "ok"
        BY <2>1 DEF Refused
      <3> QED
        BY <1>2, <2>1, <3>1 DEF Kept
    <2>2. CASE ~error /\ Len(seen) < last
      <3>1. a = Refused /\ a.is # "ok"
        BY <2>2 DEF Refused
      <3>2. last \notin DOMAIN all
        <4>1. Len(seen) = Len(all)
          BY <1>1, <1>2, <1>3, <1>5, <1>6, <2>2
        <4> QED
          BY <1>4, <1>5, <2>2, <4>1
      <3>3. Promised(call, file) = Refused
        BY <1>5, <1>7, <3>2
      <3> QED
        BY <3>1, <3>3 DEF Kept
    <2>3. CASE ~error /\ ~(Len(seen) < last)
      <3>1. a = Ok(v) /\ a # Refused
        BY <2>3 DEF Ok, Refused
      <3>2. \A k \in 1 .. last : k \in 1 .. Len(seen) /\ k \in DOMAIN all
        BY <1>2, <1>3, <1>4, <1>5, <2>3
      <3>3. ToSet(call.lines) \subseteq DOMAIN all
        <4>1. ToSet(call.lines) = {call.lines[i] : i \in DOMAIN call.lines}
          BY DEF ToSet
        <4> QED
          BY <1>5, <3>2, <4>1
      <3>4. \A i \in DOMAIN call.lines : seen[call.lines[i]] = all[call.lines[i]]
        BY <1>2, <1>5, <2>3, <3>2
      <3>5. v = p
        BY <3>4
      <3> QED
        BY <1>7, <3>1, <3>3, <3>5 DEF Kept
    <2> QED
      BY <2>1, <2>2, <2>3
  <1> HIDE DEF a
  <1> QED
    BY <1>1, <1>2, <1>8, AnswerKeeps DEF ReaderApis

(* readAllLines with all lines;                                              *)
LEMMA AnswerReadAllLinesKeeps ==
    ASSUME CallTypes, ReaderInv, call.api \in ReaderApis, AnswerReadAllLines
    PROVE  /\ CallTypes' /\ ReaderInv' /\ OnlyTheLastIsCut'
           /\ AnswerIsExact' /\ RefusedForCause'
  <1> DEFINE all == Lines(file)
             a == IF error THEN Refused ELSE Ok(seen)
  <1>1. /\ call.api = "readAllLines" /\ Answer("readAllLines", a) /\ pc = "false"
    BY DEF AnswerReadAllLines, Answer, WantsMore
  <1>2. (failed <=> error) /\ OnlyTheLastIsCut
        /\ (~error => /\ \A i \in 1 .. Len(seen) : seen[i] = all[i]
                      /\ Len(seen) <= Len(all)
                      /\ pc = "false" => Len(seen) = Len(all))
    BY <1>1, SeenIs DEF ReaderInv, BytesInv
  <1>3. seen \in Seq(Seq(Byte)) /\ all \in Seq(Seq(Byte))
    BY LinesAre DEF CallTypes
  <1>4. Promised(call, file) = Ok(all)
    BY <1>1 DEF Promised
  <1> HIDE DEF all
  <1>5. Kept(a)
    <2>1. CASE error
      <3>1. a = Refused /\ a.is # "ok"
        BY <2>1 DEF Refused
      <3> QED
        BY <1>2, <2>1, <3>1 DEF Kept
    <2>2. CASE ~error
      <3>1. a = Ok(seen) /\ a # Refused
        BY <2>2 DEF Ok, Refused
      <3>2. Len(seen) = Len(all) /\ \A i \in 1 .. Len(seen) : seen[i] = all[i]
        BY <1>1, <1>2, <2>2
      <3>3. seen = all
        BY <1>3, <3>2, SeqEqual
      <3> QED
        BY <1>4, <3>1, <3>3 DEF Kept
    <2> QED
      BY <2>1, <2>2
  <1> HIDE DEF a
  <1> QED
    BY <1>1, <1>2, <1>5, AnswerKeeps DEF ReaderApis

(* head, and forEachLine with a handler that stops.                          *)
LEMMA FirstLinesSeen ==
    ASSUME CallTypes, ReaderInv, ~error,
           call.api \in {"head", "forEachLine"}, call.api = "forEachLine" => call.n # 0,
           pc = "false" \/ (pc = "caller" /\ ~WantsMore)
    PROVE  seen = SubSeq(Lines(file), 1, Min({call.n, Len(Lines(file))}))
  <1> DEFINE all == Lines(file)
             n == call.n
  <1>1. call.api \in ReaderApis
    BY DEF ReaderApis
  <1>2. LoopInv
    BY <1>1 DEF ReaderInv
  <1>3. seen \in Seq(Seq(Byte)) /\ all \in Seq(Seq(Byte))
    BY LinesAre DEF CallTypes
  <1>4. n \in Nat /\ Len(seen) \in Nat
    BY CallIs
  <1>5. Len(seen) <= n
    <2>1. call.api = "head" => Len(seen) <= n
      BY <1>2 DEF LoopInv, NotTooMany
    <2>2. call.api = "forEachLine" => Len(seen) <= n
      BY <1>2 DEF LoopInv, NotTooMany
    <2> QED
      BY <2>1, <2>2
  <1>6. ASSUME ~WantsMore PROVE Len(seen) = n
    <2>1. CASE call.api = "head"
      <3>1. ~(Len(seen) < n)
        BY <1>6, <2>1 DEF WantsMore
      <3> QED
        BY <1>4, <1>5, <3>1
    <2>2. CASE call.api = "forEachLine"
      BY <1>6, <2>2 DEF WantsMore
    <2> QED
      BY <2>1, <2>2
  <1> HIDE DEF all, n
  <1>7. Len(seen) = n \/ Len(seen) = Len(all)
    <2>1. CASE pc = "false"
      <3>1. Len(seen) = Len(Lines(file))
        BY <1>1, <2>1, SeenIs
      <3> QED
        BY <3>1 DEF all
    <2>2. CASE ~WantsMore
      BY <1>6, <2>2
    <2> QED
      BY <2>1, <2>2
  <1>8. \A i \in 1 .. Len(seen) : seen[i] = all[i]
    <2>1. \A i \in 1 .. Len(seen) : seen[i] = Lines(file)[i]
      BY <1>1, SeenIs
    <2> QED
      BY <2>1 DEF all
  <1>9. Len(seen) <= Len(all)
    <2>1. Len(seen) <= Len(Lines(file))
      BY <1>1, SeenIs
    <2> QED
      BY <2>1 DEF all
  <1>10. seen = SubSeq(all, 1, Min({n, Len(all)}))
    BY <1>3, <1>4, <1>5, <1>7, <1>8, <1>9, FirstOnes
  <1> QED
    BY <1>10 DEF all, n

(* head with the first n, or all if there are fewer;                         *)
LEMMA AnswerHeadKeeps ==
    ASSUME CallTypes, ReaderInv, call.api \in ReaderApis, AnswerHead
    PROVE  /\ CallTypes' /\ ReaderInv' /\ OnlyTheLastIsCut'
           /\ AnswerIsExact' /\ RefusedForCause'
  <1> DEFINE a == IF error THEN Refused ELSE Ok(seen)
  <1>1. /\ call.api = "head" /\ Answer("head", a)
        /\ pc = "false" \/ (pc = "caller" /\ ~WantsMore)
    BY DEF AnswerHead, Answer
  <1>2. (failed <=> error) /\ OnlyTheLastIsCut
    BY <1>1, SeenIs DEF ReaderInv, BytesInv
  <1>3. Promised(call, file) = Ok(SubSeq(Lines(file), 1, Min({call.n, Len(Lines(file))})))
    BY <1>1 DEF Promised
  <1>4. Kept(a)
    <2>1. CASE error
      <3>1. a = Refused /\ a.is # "ok"
        BY <2>1 DEF Refused
      <3> QED
        BY <1>2, <2>1, <3>1 DEF Kept
    <2>2. CASE ~error
      <3>1. a = Ok(seen) /\ a # Refused
        BY <2>2 DEF Ok, Refused
      <3>2. seen = SubSeq(Lines(file), 1, Min({call.n, Len(Lines(file))}))
        BY <1>1, <2>2, FirstLinesSeen
      <3> QED
        BY <1>3, <3>1, <3>2 DEF Kept
    <2> QED
      BY <2>1, <2>2
  <1> HIDE DEF a
  <1> QED
    BY <1>1, <1>2, <1>4, AnswerKeeps DEF ReaderApis

(* forEachLine with those that were handed out until it was told to stop.    *)
LEMMA AnswerForEachLineKeeps ==
    ASSUME CallTypes, ReaderInv, call.api \in ReaderApis, AnswerForEachLine
    PROVE  /\ CallTypes' /\ ReaderInv' /\ OnlyTheLastIsCut'
           /\ AnswerIsExact' /\ RefusedForCause'
  <1> DEFINE all == Lines(file)
             a == IF pc = "false" /\ error THEN Refused ELSE Ok(seen)
  <1>1. /\ call.api = "forEachLine" /\ Answer("forEachLine", a)
        /\ pc = "false" \/ (pc = "caller" /\ ~WantsMore)
    BY DEF AnswerForEachLine, Answer
  <1>2. (failed <=> error) /\ OnlyTheLastIsCut
        /\ (~error => /\ \A i \in 1 .. Len(seen) : seen[i] = all[i]
                      /\ Len(seen) <= Len(all)
                      /\ pc = "false" => Len(seen) = Len(all))
    BY <1>1, SeenIs DEF ReaderInv, BytesInv
  <1>3. seen \in Seq(Seq(Byte)) /\ all \in Seq(Seq(Byte))
    BY LinesAre DEF CallTypes
  <1>4. ASSUME ~error PROVE Promised(call, file) = Ok(seen)
    <2>1. CASE call.n = 0
      <3>1. Promised(call, file) = Ok(all)
        BY <1>1, <2>1 DEF Promised
      <3>2. pc = "false"
        BY <1>1, <2>1 DEF WantsMore
      <3> HIDE DEF all
      <3>3. Len(seen) = Len(all) /\ \A i \in 1 .. Len(seen) : seen[i] = all[i]
        BY <1>2, <1>4, <3>2
      <3>4. seen = all
        BY <1>3, <3>3, SeqEqual
      <3> QED
        BY <3>1, <3>4
    <2>2. CASE call.n # 0
      <3>1. Promised(call, file) = Ok(SubSeq(all, 1, Min({call.n, Len(all)})))
        BY <1>1, <2>2 DEF Promised
      <3>2. seen = SubSeq(all, 1, Min({call.n, Len(all)}))
        BY <1>1, <1>4, <2>2, FirstLinesSeen
      <3> QED
        BY <3>1, <3>2
    <2> QED
      BY <2>1, <2>2
  <1>5. Kept(a)
    <2>1. CASE pc = "false" /\ error
      <3>1. a = Refused /\ a.is # "ok"
        BY <2>1 DEF Refused
      <3> QED
        BY <1>2, <2>1, <3>1 DEF Kept
    <2>2. CASE ~(pc = "false" /\ error)
      <3>1. a = Ok(seen) /\ a # Refused
        BY <2>2 DEF Ok, Refused
      <3> QED
        BY <1>1, <1>2, <1>4, <3>1 DEF Kept, ChecksError
    <2> QED
      BY <2>1, <2>2
  <1> HIDE DEF a
  <1> QED
    BY <1>1, <1>2, <1>5, AnswerKeeps DEF ReaderApis

(* -------------------- before the file, and in no file --------------------- *)

(* After a failure a refusal is right.                                       *)
LEMMA RefusedKeeps ==
    ASSUME answer' = Refused, failed' = TRUE
    PROVE  AnswerIsExact' /\ RefusedForCause'
  BY DEF AnswerIsExact, RefusedForCause, Succeeded, Refused

(* What is answered without a look at the file is what it would have been.  *)
LEMMA AskedForNothing ==
    ASSUME CallTypes, Answered
    PROVE  Kept(IF Rejected(call) THEN Refused ELSE Ok(<<>>))
  <1> DEFINE all == Lines(file)
             a == IF Rejected(call) THEN Refused ELSE Ok(<<>>)
  <1>1. file \in Seq(Byte) /\ call.lines \in Seq(Nat) /\ call.n \in Nat
    BY CallIs DEF CallTypes
  <1>2. Len(all) \in Nat /\ DOMAIN all = 1 .. Len(all) /\ all \in Seq(Seq(Byte))
    BY <1>1, LinesAre
  <1>3. Ok(<<>>) # Refused /\ Refused.is # "ok"
    BY DEF Ok, Refused
  <1>4. CASE Rejected(call)
    <2>1. a = Refused
      BY <1>4
    <2>2. CASE call.api = "readLine" /\ call.n = 0
      <3>1. Promised(call, file) = IF call.n \in DOMAIN all THEN Ok(<<all[call.n]>>) ELSE Refused
        BY <2>2 DEF Promised
      <3>2. call.n \notin DOMAIN all
        BY <1>2, <2>2
      <3>3. Promised(call, file) = Refused
        BY <3>1, <3>2
      <3> QED
        BY <1>3, <2>1, <3>3 DEF Kept
    <2>3. CASE call.api = "readLines" /\ 0 \in ToSet(call.lines)
      <3> DEFINE p == [i \in DOMAIN call.lines |-> all[call.lines[i]]]
      <3>1. Promised(call, file) = IF ToSet(call.lines) \subseteq DOMAIN all THEN Ok(p) ELSE Refused
        BY <2>3 DEF Promised
      <3>2. 0 \notin DOMAIN all
        BY <1>2
      <3>3. Promised(call, file) = Refused
        BY <2>3, <3>1, <3>2
      <3> QED
        BY <1>3, <2>1, <3>3 DEF Kept
    <2> QED
      BY <1>4, <2>2, <2>3 DEF Rejected
  <1>5. CASE ~Rejected(call)
    <2>1. a = Ok(<<>>)
      BY <1>5
    <2>2. Promised(call, file) = Ok(<<>>)
      <3>1. CASE call.api = "head" /\ call.n = 0
        <4>1. Promised(call, file) = Ok(SubSeq(all, 1, Min({call.n, Len(all)})))
          BY <3>1 DEF Promised
        <4>2. Min({call.n, Len(all)}) = 0
          <5>1. 0 \in Nat /\ 0 <= Len(all)
            BY <1>2
          <5>2. Min({0, Len(all)}) = 0
            BY <1>2, <5>1, LesserLength
          <5> QED
            BY <3>1, <5>2
        <4> HIDE DEF all
        <4>3. SubSeq(all, 1, 0) = <<>>
          BY <1>2
        <4> QED
          BY <4>1, <4>2, <4>3
      <3>2. CASE call.api = "tail" /\ call.n = 0
        <4> HIDE DEF all
        <4>1. Promised(call, file) = Ok(SubSeq(all, Max({1, Len(all) - 0 + 1}), Len(all)))
          BY <3>2 DEF Promised, all
        <4>2. Max({1, Len(all) - 0 + 1}) = Len(all) + 1
          <5> DEFINE k == Len(all) - 0 + 1
          <5>1. k \in Int /\ 1 \in Int /\ k >= 1 /\ k = Len(all) + 1
            BY <1>2
          <5> HIDE DEF k
          <5>2. Max({1, k}) = IF 1 >= k THEN 1 ELSE k
            BY <5>1, GreaterIs
          <5>3. Max({1, k}) = k
            BY <5>1, <5>2
          <5> QED
            BY <5>1, <5>3 DEF k
        <4>3. SubSeq(all, Len(all) + 1, Len(all)) = <<>>
          BY <1>2
        <4> QED
          BY <4>1, <4>2, <4>3
      <3>3. CASE call.api = "readLines" /\ call.lines = <<>>
        <4> DEFINE p == [i \in DOMAIN call.lines |-> all[call.lines[i]]]
        <4>1. Promised(call, file) = IF ToSet(call.lines) \subseteq DOMAIN all THEN Ok(p) ELSE Refused
          BY <3>3 DEF Promised
        <4>2. DOMAIN call.lines = {}
          BY <3>3
        <4>3. ToSet(call.lines) = {}
          BY <4>2 DEF ToSet
        <4>4. p = <<>>
          BY <4>2
        <4> QED
          BY <4>1, <4>3, <4>4
      <3> QED
        BY <1>5, <3>1, <3>2, <3>3 DEF Answered, NothingAsked
    <2> QED
      BY <1>3, <2>1, <2>2 DEF Kept
  <1> QED
    BY <1>4, <1>5

(* Some requests are answered without opening the file.                      *)
LEMMA AnswerAtOnceKeeps ==
    ASSUME CallTypes, AnswerAtOnce
    PROVE  /\ CallTypes' /\ ReaderInv' /\ CountInv' /\ TailInv' /\ OnlyTheLastIsCut'
           /\ AnswerIsExact' /\ RefusedForCause'
  <1>1. /\ pc = "open" /\ Answered /\ pc' = "done"
        /\ answer' = (IF Rejected(call) THEN Refused ELSE Ok(<<>>))
        /\ file' = file /\ call' = call /\ offset' = offset /\ seen' = seen /\ failed' = failed
    BY DEF AnswerAtOnce, Finish
  <1>2. CallTypes'
    BY <1>1 DEF CallTypes, Answered, Rejected, NothingAsked
  <1>3. ReaderInv' /\ CountInv' /\ TailInv'
    BY <1>1 DEF ReaderInv, CountInv, TailInv
  <1>4. OnlyTheLastIsCut'
    <2>1. seen' = <<>> /\ DOMAIN seen' = {}
      BY <1>1 DEF CallTypes
    <2> QED
      BY <2>1 DEF OnlyTheLastIsCut
  <1>5. AnswerIsExact' /\ RefusedForCause'
    BY <1>1, AskedForNothing, FinishKeeps
  <1> QED
    BY <1>2, <1>3, <1>4, <1>5

(* A file that cannot be opened is refused.                                  *)
LEMMA OpenFailsKeeps ==
    ASSUME CallTypes, OpenFails
    PROVE  /\ CallTypes' /\ ReaderInv' /\ CountInv' /\ TailInv' /\ OnlyTheLastIsCut'
           /\ AnswerIsExact' /\ RefusedForCause'
  <1>1. /\ pc = "open" /\ pc' = "done" /\ answer' = Refused /\ failed' = TRUE
        /\ file' = file /\ call' = call /\ offset' = offset /\ seen' = seen
    BY DEF OpenFails, Finish
  <1>2. CallTypes'
    BY <1>1 DEF CallTypes, Answered, Rejected, NothingAsked
  <1>3. ReaderInv' /\ CountInv' /\ TailInv'
    BY <1>1 DEF ReaderInv, CountInv, TailInv
  <1>4. OnlyTheLastIsCut'
    <2>1. seen' = <<>> /\ DOMAIN seen' = {}
      BY <1>1 DEF CallTypes
    <2> QED
      BY <2>1 DEF OnlyTheLastIsCut
  <1>5. AnswerIsExact' /\ RefusedForCause'
    BY <1>1, RefusedKeeps
  <1> QED
    BY <1>2, <1>3, <1>4, <1>5

(* ------------------------- the newline counter --------------------------- *)

(* lineCount has counted nothing at first,                                   *)
LEMMA CountOpenKeeps ==
    ASSUME CallTypes, CountInv, call.api = "lineCount", CountOpen
    PROVE  CallTypes' /\ CountInv' /\ AnswerIsExact' /\ RefusedForCause'
  <1>1. /\ pc = "open" /\ ~Answered /\ pc' = "count" /\ answer' = answer
        /\ file' = file /\ call' = call /\ offset' = offset /\ seen' = seen /\ failed' = failed
        /\ count' = count /\ lastByte' = lastByte
    BY DEF CountOpen, countVars
  <1>2. CallTypes'
    BY <1>1 DEF CallTypes, Answered, Rejected, NothingAsked
  <1>3. CountInv'
    BY <1>1 DEF CountInv
  <1>4. AnswerIsExact' /\ RefusedForCause'
    <2>1. answer' = Running
      BY <1>1 DEF CallTypes
    <2> QED
      BY <2>1, RunningKeeps
  <1> QED
    BY <1>2, <1>3, <1>4

(* A block is counted exactly (CountNlIsExact), and what has been counted    *)
(* grows by what the file has there.                                         *)
LEMMA CountBlockKeeps ==
    ASSUME CallTypes, CountInv, call.api = "lineCount", CountBlock
    PROVE  CallTypes' /\ CountInv' /\ AnswerIsExact' /\ RefusedForCause'
  <1>1. PICK block \in Got(Block) : /\ count' = count + CountNl(block)
                                    /\ lastByte' = block[Len(block)]
                                    /\ offset' = offset + Len(block)
    BY DEF CountBlock
  <1>2. /\ pc = "count" /\ pc' = pc /\ answer' = answer
        /\ file' = file /\ call' = call /\ seen' = seen /\ failed' = failed
    BY DEF CountBlock
  <1>3. PICK k \in Nat \ {0} :
            /\ offset + k <= Len(file) /\ block = SubSeq(file, offset + 1, offset + k)
            /\ Len(block) = k /\ block \in Seq(Byte)
    BY GotIs
  <1> DEFINE e == offset + k
  <1>4. offset \in Nat /\ Len(file) \in Nat /\ file \in Seq(Byte)
    BY DEF CallTypes
  <1>5. /\ e \in Nat /\ offset <= e /\ e <= Len(file) /\ e - offset = k /\ offset + 0 = offset
        /\ 0 \in Nat /\ e \in 0 .. Len(file) /\ k <= e - offset /\ k \in Nat /\ e > 0 /\ k \in 1 .. e - offset
    BY <1>3, <1>4
  <1>6. offset' = e /\ block = SubSeq(file, offset + 1, e) /\ offset + k = e
    BY <1>1, <1>3
  <1> HIDE DEF e
  <1>7. /\ block[k] = file[offset + k]
        /\ Cardinality(NewlinesIn(block, 0, k)) = Cardinality(NewlinesIn(file, offset + 0, offset + k))
    BY <1>4, <1>5, <1>6, NewlinesOfPart
  <1>8. CountNl(block) = Cardinality(NewlinesIn(file, offset, e))
    <2>1. CountNl(block) = Cardinality(NewlinesIn(block, 0, Len(block)))
      BY <1>3, CountNlIsExact
    <2> QED
      BY <1>3, <1>5, <1>6, <1>7, <2>1
  <1>9. NewlinesBefore(file, e) = NewlinesBefore(file, offset) + Cardinality(NewlinesIn(file, offset, e))
    BY <1>4, <1>5, CountGrows
  <1>10. CallTypes'
    <2>1. offset' \in 0 .. Len(file)
      BY <1>5, <1>6
    <2> QED
      BY <1>2, <2>1 DEF CallTypes, Answered, Rejected, NothingAsked
  <1>11. CountInv'
    <2>1. count = NewlinesBefore(file, offset)
      BY <1>2 DEF CountInv
    <2>2. count' = NewlinesBefore(file, e)
      BY <1>1, <1>8, <1>9, <2>1
    <2>3. lastByte' = file[e]
      BY <1>1, <1>3, <1>6, <1>7
    <2> QED
      BY <1>2, <1>6, <2>2, <2>3 DEF CountInv
  <1>12. AnswerIsExact' /\ RefusedForCause'
    <2>1. answer' = Running
      BY <1>2 DEF CallTypes
    <2> QED
      BY <2>1, RunningKeeps
  <1> QED
    BY <1>10, <1>11, <1>12

(* refuses after a failed read,                                              *)
LEMMA CountReadFailsKeeps ==
    ASSUME CallTypes, CountInv, call.api = "lineCount", CountReadFails
    PROVE  CallTypes' /\ CountInv' /\ AnswerIsExact' /\ RefusedForCause'
  <1>1. /\ pc = "count" /\ pc' = "done" /\ answer' = Refused /\ failed' = TRUE
        /\ file' = file /\ call' = call /\ offset' = offset /\ seen' = seen
    BY DEF CountReadFails, Finish
  <1>2. CallTypes'
    BY <1>1 DEF CallTypes, Answered, Rejected, NothingAsked
  <1>3. CountInv'
    BY <1>1 DEF CountInv
  <1> QED
    BY <1>1, <1>2, <1>3, RefusedKeeps

(* and at the end has counted all lines.                                     *)
LEMMA CountEndKeeps ==
    ASSUME CallTypes, CountInv, call.api = "lineCount", CountEnd
    PROVE  CallTypes' /\ CountInv' /\ AnswerIsExact' /\ RefusedForCause'
  <1> DEFINE n == IF offset > 0 /\ lastByte # Nl THEN count + 1 ELSE count
  <1>1. /\ pc = "count" /\ pc' = "done" /\ answer' = Ok(n) /\ failed' = failed
        /\ offset = Len(file)
        /\ file' = file /\ call' = call /\ offset' = offset /\ seen' = seen
    BY DEF CountEnd, Finish
  <1>2. CallTypes'
    BY <1>1 DEF CallTypes, Answered, Rejected, NothingAsked
  <1>3. CountInv'
    BY <1>1 DEF CountInv
  <1>4. count = NewlinesBefore(file, offset) /\ (offset > 0 => lastByte = file[offset])
    BY <1>1 DEF CountInv
  <1>5. file \in Seq(Byte) /\ Len(file) \in Nat
    BY DEF CallTypes
  <1>6. n = Len(Lines(file))
    <2>1. /\ Len(file) = 0 => Len(Lines(file)) = 0
          /\ Len(file) > 0 => Len(Lines(file)) = IF file[Len(file)] = Nl THEN NewlinesBefore(file, Len(file))
                                                 ELSE NewlinesBefore(file, Len(file)) + 1
      BY <1>5, LineCountIs
    <2>2. CASE Len(file) = 0
      <3>1. n = count /\ count = 0
        <4>1. NewlinesBefore(file, 0) = 0
          BY NoneBeforeTheFirst
        <4> QED
          BY <1>1, <1>4, <2>2, <4>1
      <3> QED
        BY <2>1, <2>2, <3>1
    <2>3. CASE Len(file) # 0
      <3>1. Len(file) > 0 /\ offset > 0
        BY <1>1, <1>5, <2>3
      <3>2. lastByte = file[Len(file)] /\ count = NewlinesBefore(file, Len(file))
        BY <1>1, <1>4, <3>1
      <3> QED
        BY <2>1, <3>1, <3>2
    <2> QED
      BY <2>2, <2>3
  <1> HIDE DEF n
  <1>7. Kept(Ok(n))
    <2>1. Promised(call, file) = Ok(n)
      BY <1>6 DEF Promised
    <2>2. Ok(n) # Refused
      BY DEF Ok, Refused
    <2> QED
      BY <2>1, <2>2 DEF Kept
  <1>8. AnswerIsExact' /\ RefusedForCause'
    BY <1>1, <1>7, FinishKeeps
  <1> QED
    BY <1>2, <1>3, <1>8

(* --------------------------- the backward scan --------------------------- *)

(* A sequence backwards.                                                     *)
LEMMA ReverseIs ==
    ASSUME NEW S, NEW s \in Seq(S)
    PROVE  /\ Reverse(s) \in Seq(S) /\ Len(Reverse(s)) = Len(s) /\ Len(s) \in Nat
           /\ \A i \in 1 .. Len(s) : Reverse(s)[i] = s[Len(s) - i + 1] /\ Len(s) - i + 1 \in 1 .. Len(s)
  <1>1. Len(s) \in Nat
    OBVIOUS
  <1>2. \A i \in 1 .. Len(s) : Len(s) - i + 1 \in 1 .. Len(s)
    BY <1>1
  <1>3. Reverse(s) = [i \in 1 .. Len(s) |-> s[(Len(s) - i) + 1]]
    BY DEF Reverse
  <1>4. \A i \in 1 .. Len(s) : s[Len(s) - i + 1] \in S
    BY <1>2, ElementOfSeq
  <1> QED
    BY <1>1, <1>2, <1>3, <1>4

(* The first n members of a sequence, or all.                                *)
LEMMA TakeIs ==
    ASSUME NEW S, NEW s \in Seq(S), NEW n \in Nat
    PROVE  /\ TakeAtMost(n, s) \in Seq(S) /\ Len(TakeAtMost(n, s)) \in Nat
           /\ Len(TakeAtMost(n, s)) <= n /\ Len(TakeAtMost(n, s)) <= Len(s)
           /\ Len(TakeAtMost(n, s)) = n \/ Len(TakeAtMost(n, s)) = Len(s)
           /\ \A i \in 1 .. Len(TakeAtMost(n, s)) : TakeAtMost(n, s)[i] = s[i] /\ i \in 1 .. Len(s)
  <1> DEFINE m == Min({n, Len(s)})
  <1>1. Len(s) \in Nat
    OBVIOUS
  <1>2. m = IF n <= Len(s) THEN n ELSE Len(s)
    BY <1>1, LesserIs
  <1>3. m \in Nat /\ m <= n /\ m <= Len(s) /\ (m = n \/ m = Len(s))
    BY <1>1, <1>2
  <1>4. TakeAtMost(n, s) = SubSeq(s, 1, m)
    BY DEF TakeAtMost
  <1> HIDE DEF m
  <1>5. /\ SubSeq(s, 1, m) \in Seq(S) /\ Len(SubSeq(s, 1, m)) = m
        /\ \A i \in 1 .. m : SubSeq(s, 1, m)[i] = s[i] /\ i \in 1 .. Len(s)
    BY <1>1, <1>3
  <1> QED
    BY <1>3, <1>4, <1>5

\* s: the newlines among the bytes lo+1..hi of f from the last to the first,
\* without the d last of them.
FromTheEnd(f, lo, hi, d, s) ==
    /\ s \in Seq(Nat) /\ Len(s) \in Nat
    /\ Len(s) + d = NewlinesBefore(f, hi) - NewlinesBefore(f, lo)
    /\ \A i \in 1 .. Len(s) :
          /\ s[i] \in lo + 1 .. hi /\ f[s[i]] = Nl
          /\ NewlinesBefore(f, s[i]) = NewlinesBefore(f, hi) + 1 - d - i

(* A newline's number in the file, by its number in a part.                  *)
LEMMA NewlineRank ==
    ASSUME NEW f, NEW lo \in Nat, NEW hi \in Nat, lo <= hi,
           NEW e \in NewlinesIn(f, lo, hi)
    PROVE  NewlinesBefore(f, e) =
               NewlinesBefore(f, lo) + Cardinality(Below(NewlinesIn(f, lo, hi), e)) + 1
  <1> DEFINE S == NewlinesIn(f, lo, hi)
             m == e - 1
  <1>1. e \in lo + 1 .. hi /\ f[e] = Nl
    BY DEF NewlinesIn
  <1>2. e \in Nat \ {0} /\ m \in Nat /\ lo <= m
    BY <1>1
  <1>3. Below(S, e) = NewlinesIn(f, lo, m)
    <2>1. \A p : p \in Below(S, e) <=> p \in lo + 1 .. hi /\ f[p] = Nl /\ p < e
      BY DEF Below, NewlinesIn
    <2>2. \A p : p \in NewlinesIn(f, lo, m) <=> p \in lo + 1 .. m /\ f[p] = Nl
      BY DEF NewlinesIn
    <2>3. \A p : (p \in lo + 1 .. hi /\ p < e) <=> p \in lo + 1 .. m
      BY <1>1, <1>2
    <2> HIDE DEF S, m
    <2> QED
      BY <2>1, <2>2, <2>3
  <1>4. NewlinesBefore(f, e) = NewlinesBefore(f, m) + 1
    BY <1>1, <1>2, OneByteMore
  <1>5. NewlinesBefore(f, m) = NewlinesBefore(f, lo) + Cardinality(NewlinesIn(f, lo, m))
    BY <1>2, CountGrows
  <1> HIDE DEF S, m
  <1>6. NewlinesBefore(f, lo) \in Nat /\ Cardinality(NewlinesIn(f, lo, m)) \in Nat
    BY <1>2, CountGrows, NewlinesAre
  <1> QED
    BY <1>3, <1>4, <1>5, <1>6 DEF S

(* The newlines of a block backwards are consecutive ones of the file.       *)
LEMMA BackwardsIs ==
    ASSUME NEW f \in Seq(Byte), NEW lo \in Nat, NEW hi \in Nat, lo <= hi
    PROVE  FromTheEnd(f, lo, hi, 0, Reverse(InOrder(NewlinesIn(f, lo, hi))))
  <1> DEFINE S == NewlinesIn(f, lo, hi)
             u == InOrder(S)
             s == Reverse(u)
             n == Cardinality(S)
             nlo == NewlinesBefore(f, lo)
             nhi == NewlinesBefore(f, hi)
  <1>1. S \in SUBSET Int /\ S \in SUBSET (lo + 1 .. hi) /\ IsFiniteSet(S) /\ n \in Nat
        /\ \A p : p \in S <=> p \in lo + 1 .. hi /\ f[p] = Nl
    BY NewlinesAre
  <1>2. nlo \in Nat /\ nhi \in Nat /\ nhi = nlo + n
    BY CountGrows
  <1>3. \A e \in S : NewlinesBefore(f, e) = nlo + Cardinality(Below(S, e)) + 1
    BY NewlineRank
  <1> HIDE DEF S
  <1>4. /\ u \in Seq(S) /\ Len(u) = n
        /\ \A i \in 1 .. n : u[i] \in S /\ Cardinality(Below(S, u[i])) = i - 1
    BY <1>1, InOrderIs
  <1> HIDE DEF u
  <1>5. /\ s \in Seq(S) /\ Len(s) = n
        /\ \A i \in 1 .. n : s[i] = u[n - i + 1] /\ n - i + 1 \in 1 .. n
    <2> HIDE DEF n
    <2>1. /\ s \in Seq(S) /\ Len(s) = Len(u)
          /\ \A i \in 1 .. Len(u) : s[i] = u[Len(u) - i + 1] /\ Len(u) - i + 1 \in 1 .. Len(u)
      BY <1>4, ReverseIs
    <2>2. Len(u) = n
      BY <1>4
    <2> QED
      BY <2>1, <2>2
  <1> HIDE DEF s, n, nlo, nhi
  <1>6. s \in Seq(Nat)
    <2>1. \A e \in S : e \in Nat
      BY <1>1
    <2> QED
      BY <1>5, <2>1
  <1>7. ASSUME NEW i \in 1 .. n
        PROVE  s[i] \in S /\ NewlinesBefore(f, s[i]) = nhi + 1 - 0 - i
    <2>1. s[i] \in S /\ Cardinality(Below(S, s[i])) = (n - i + 1) - 1
      BY <1>4, <1>5
    <2>2. NewlinesBefore(f, s[i]) = nlo + Cardinality(Below(S, s[i])) + 1
      BY <1>3, <2>1
    <2>3. nlo + ((n - i + 1) - 1) + 1 = nhi + 1 - 0 - i
      BY <1>1, <1>2
    <2> QED
      BY <2>1, <2>2, <2>3
  <1>8. \A i \in 1 .. n : s[i] \in lo + 1 .. hi /\ f[s[i]] = Nl /\ NewlinesBefore(f, s[i]) = nhi + 1 - 0 - i
    BY <1>1, <1>7
  <1>9. Len(s) + 0 = nhi - nlo /\ Len(s) \in Nat
    BY <1>1, <1>2, <1>5
  <1>10. FromTheEnd(f, lo, hi, 0, s)
    BY <1>5, <1>6, <1>8, <1>9 DEF FromTheEnd, nhi, nlo
  <1> QED
    BY <1>10 DEF s, u, S

(* Without the first of them they begin one later.                           *)
LEMMA OneLess ==
    ASSUME NEW f, NEW lo, NEW hi \in Nat, NEW s, FromTheEnd(f, lo, hi, 0, s), s # <<>>
    PROVE  FromTheEnd(f, lo, hi, 1, Tail(s))
  <1> DEFINE r == Tail(s)
             nhi == NewlinesBefore(f, hi)
             nlo == NewlinesBefore(f, lo)
  <1>1. s \in Seq(Nat) /\ Len(s) + 0 = nhi - nlo /\ Len(s) \in Nat
    BY DEF FromTheEnd
  <1>2. \A i \in 1 .. Len(s) : /\ s[i] \in lo + 1 .. hi /\ f[s[i]] = Nl
                               /\ NewlinesBefore(f, s[i]) = nhi + 1 - 0 - i
    BY DEF FromTheEnd
  <1>3. /\ r \in Seq(Nat) /\ Len(r) = Len(s) - 1
        /\ \A i \in 1 .. Len(r) : r[i] = s[i + 1] /\ i + 1 \in 1 .. Len(s)
    BY <1>1
  <1>4. nhi \in Nat
    BY FirstNewlines DEF NewlinesBefore
  <1>5. Len(s) # 0
    BY <1>1
  <1> HIDE DEF r, nhi, nlo
  <1>6. Len(r) \in Nat /\ Len(r) + 1 = nhi - nlo
    <2>1. Len(r) \in Nat /\ Len(r) + 1 = Len(s)
      BY <1>1, <1>3, <1>5
    <2>2. Len(s) + 0 = Len(s)
      BY <1>1
    <2> QED
      BY <1>1, <2>1, <2>2
  <1>7. ASSUME NEW i \in 1 .. Len(r)
        PROVE  r[i] \in lo + 1 .. hi /\ f[r[i]] = Nl /\ NewlinesBefore(f, r[i]) = nhi + 1 - 1 - i
    <2>1. r[i] = s[i + 1] /\ i + 1 \in 1 .. Len(s)
      BY <1>3
    <2>2. nhi + 1 - 0 - (i + 1) = nhi + 1 - 1 - i
      BY <1>4, <1>6
    <2> QED
      BY <1>2, <2>1, <2>2
  <1> QED
    BY <1>3, <1>6, <1>7 DEF FromTheEnd, r, nhi, nlo

(* The starts a block adds, with the newline at the end of the file taken    *)
(* out.                                                                      *)
LEMMA NewStartsAre ==
    ASSUME file \in Seq(Byte), NEW lo \in Nat, NEW hi \in Nat, lo <= hi, NEW skip \in BOOLEAN
    PROVE  \/ FromTheEnd(file, lo, hi, 0, NewStarts(lo, hi, skip))
              /\ (~skip \/ NewlinesIn(file, lo, hi) = {})
           \/ FromTheEnd(file, lo, hi, 1, NewStarts(lo, hi, skip)) /\ skip
  <1> DEFINE nls == Reverse(InOrder(NewlinesIn(file, lo, hi)))
  <1>1. FromTheEnd(file, lo, hi, 0, nls)
    BY BackwardsIs
  <1>2. NewStarts(lo, hi, skip) = IF skip /\ nls # <<>> THEN Tail(nls) ELSE nls
    BY DEF NewStarts
  <1>3. nls = <<>> => NewlinesIn(file, lo, hi) = {}
    <2> DEFINE S == NewlinesIn(file, lo, hi)
    <2>1. S \in SUBSET Int /\ IsFiniteSet(S)
      BY NewlinesAre
    <2> HIDE DEF S
    <2>2. InOrder(S) \in Seq(S) /\ Len(InOrder(S)) = Cardinality(S)
      BY <2>1, InOrderIs
    <2>3. Len(Reverse(InOrder(S))) = Cardinality(S)
      BY <2>2, ReverseIs
    <2>4. Reverse(InOrder(S)) = <<>> => Cardinality(S) = 0
      BY <2>3
    <2>5. Cardinality(S) = 0 => S = {}
      BY <2>1, FS_EmptySet
    <2> QED
      BY <2>4, <2>5 DEF S
  <1> HIDE DEF nls
  <1>4. CASE skip /\ nls # <<>>
    BY <1>1, <1>2, <1>4, OneLess
  <1>5. CASE ~(skip /\ nls # <<>>)
    BY <1>1, <1>2, <1>3, <1>5
  <1> QED
    BY <1>4, <1>5

AreStarts(f, s, p) == \A i \in DOMAIN s : s[i] \in StartsOf(f) /\ s[i] > p
Falling(s) == \A i, j \in DOMAIN s : i < j => s[i] > s[j]
Numbered(f, s) == \A i \in DOMAIN s : NewlinesBefore(f, s[i]) = Len(Lines(f)) - i

(* Two sequences together.                                                   *)
LEMMA JoinedIs ==
    ASSUME NEW S, NEW s \in Seq(S), NEW r \in Seq(S)
    PROVE  /\ s \o r \in Seq(S) /\ Len(s \o r) = Len(s) + Len(r) /\ Len(s) \in Nat /\ Len(r) \in Nat
           /\ DOMAIN (s \o r) = 1 .. Len(s) + Len(r)
           /\ \A i \in 1 .. Len(s) : (s \o r)[i] = s[i]
           /\ \A i \in 1 .. Len(r) : (s \o r)[Len(s) + i] = r[i]
           /\ \A i \in 1 .. Len(s) + Len(r) :
                 i \in 1 .. Len(s) \/ (i - Len(s) \in 1 .. Len(r) /\ i = Len(s) + (i - Len(s)))
  <1>1. /\ s \o r \in Seq(S) /\ Len(s \o r) = Len(s) + Len(r) /\ Len(s) \in Nat /\ Len(r) \in Nat
    OBVIOUS
  <1>2. \A i \in 1 .. Len(s) : (s \o r)[i] = s[i]
    OBVIOUS
  <1>3. \A i \in 1 .. Len(r) : (s \o r)[Len(s) + i] = r[i]
    OBVIOUS
  <1>4. DOMAIN (s \o r) = 1 .. Len(s) + Len(r)
    BY <1>1
  <1>5. \A i \in 1 .. Len(s) + Len(r) :
            i \in 1 .. Len(s) \/ (i - Len(s) \in 1 .. Len(r) /\ i = Len(s) + (i - Len(s)))
    BY <1>1
  <1> QED
    BY <1>1, <1>2, <1>3, <1>4, <1>5

(* A block adds starts of lines that are before those found.                *)
LEMMA BlockAddsStarts ==
    ASSUME NEW f \in Seq(Byte), NEW lo \in Nat, NEW hi \in Nat, lo <= hi, hi <= Len(f),
           NEW d \in {0, 1}, hi = Len(f) /\ f[hi] = Nl => d = 1,
           NEW s \in Seq(Nat), AreStarts(f, s, hi), Falling(s),
           NEW new, FromTheEnd(f, lo, hi, d, new)
    PROVE  AreStarts(f, s \o new, lo) /\ Falling(s \o new)
  <1> DEFINE cat == s \o new
             nhi == NewlinesBefore(f, hi)
             n == Len(s)
             m == Len(new)
  <1>1. new \in Seq(Nat)
        /\ \A i \in 1 .. m : /\ new[i] \in lo + 1 .. hi /\ f[new[i]] = Nl
                             /\ NewlinesBefore(f, new[i]) = nhi + 1 - d - i
    BY DEF FromTheEnd
  <1>2. /\ n \in Nat /\ m \in Nat /\ DOMAIN cat = 1 .. n + m
        /\ \A i \in 1 .. n : cat[i] = s[i]
        /\ \A i \in 1 .. m : cat[n + i] = new[i]
        /\ \A i \in 1 .. n + m : i \in 1 .. n \/ (i - n \in 1 .. m /\ i = n + (i - n))
    BY <1>1, JoinedIs
  <1>3. nhi \in Nat
    BY FirstNewlines DEF NewlinesBefore
  <1>4. DOMAIN s = 1 .. n
    OBVIOUS
  <1>5. \A i \in 1 .. n : s[i] \in StartsOf(f) /\ s[i] > hi
    BY <1>4 DEF AreStarts
  <1> HIDE DEF nhi, n, m, cat
  <1>6. ASSUME NEW i \in 1 .. m
        PROVE  new[i] \in StartsOf(f) /\ new[i] \in Nat /\ new[i] > lo /\ new[i] <= hi
    <2>1. new[i] \in lo + 1 .. hi /\ f[new[i]] = Nl /\ NewlinesBefore(f, new[i]) = nhi + 1 - d - i
      BY <1>1
    <2>2. new[i] \in Nat /\ new[i] > lo /\ new[i] <= hi
      BY <2>1
    <2>3. new[i] # Len(f)
      <3> SUFFICES ASSUME new[i] = Len(f) PROVE FALSE
        OBVIOUS
      <3>1. hi = Len(f) /\ f[hi] = Nl
        BY <2>1, <2>2
      <3>2. d = 1 /\ nhi = nhi + 1 - d - i
        BY <2>1, <3>1 DEF nhi
      <3> QED
        BY <1>2, <1>3, <3>2
    <2>4. new[i] \in 0 .. Len(f) - 1
      BY <2>2, <2>3
    <2>5. new[i] \in StartsOf(f)
      BY <2>1, <2>4, StartsAre
    <2> QED
      BY <2>2, <2>5
  <1>7. AreStarts(f, cat, lo)
    <2> SUFFICES ASSUME NEW i \in 1 .. n + m PROVE cat[i] \in StartsOf(f) /\ cat[i] > lo
      BY <1>2 DEF AreStarts
    <2>1. CASE i \in 1 .. n
      <3>1. cat[i] = s[i] /\ s[i] \in StartsOf(f) /\ s[i] > hi
        BY <1>2, <1>5, <2>1
      <3>2. s[i] \in Int
        BY <3>1, StartsAre
      <3> QED
        BY <3>1, <3>2
    <2>2. CASE i - n \in 1 .. m /\ i = n + (i - n)
      <3>1. cat[i] = new[i - n]
        BY <1>2, <2>2
      <3> QED
        BY <1>6, <2>2, <3>1
    <2> QED
      BY <1>2, <2>1, <2>2
  <1>8. ASSUME NEW i \in 1 .. m, NEW j \in 1 .. m, i < j PROVE new[i] > new[j]
    <2> SUFFICES ASSUME new[i] <= new[j] PROVE FALSE
      BY <1>6
    <2>1. NewlinesBefore(f, new[i]) <= NewlinesBefore(f, new[j])
      BY <1>6, CountGrows
    <2>2. nhi + 1 - d - i <= nhi + 1 - d - j
      BY <1>1, <2>1
    <2> QED
      BY <1>2, <1>3, <1>8, <2>2
  <1>9. Falling(cat)
    <2> SUFFICES ASSUME NEW i \in 1 .. n + m, NEW j \in 1 .. n + m, i < j PROVE cat[i] > cat[j]
      BY <1>2 DEF Falling
    <2>1. CASE j \in 1 .. n
      <3>1. i \in 1 .. n
        BY <1>2, <2>1
      <3>2. s[i] > s[j]
        BY <1>4, <2>1, <3>1 DEF Falling
      <3> QED
        BY <1>2, <2>1, <3>1, <3>2
    <2>2. CASE j - n \in 1 .. m /\ j = n + (j - n)
      <3>1. cat[j] = new[j - n] /\ new[j - n] <= hi /\ new[j - n] \in Nat
        BY <1>2, <1>6, <2>2
      <3>2. CASE i \in 1 .. n
        <4>1. cat[i] = s[i] /\ s[i] \in StartsOf(f) /\ s[i] > hi
          BY <1>2, <1>5, <3>2
        <4>2. s[i] \in Int
          BY <4>1, StartsAre
        <4> QED
          BY <3>1, <4>1, <4>2
      <3>3. CASE i - n \in 1 .. m /\ i = n + (i - n)
        <4>1. cat[i] = new[i - n]
          BY <1>2, <3>3
        <4>2. i - n < j - n
          BY <1>2
        <4>3. new[i - n] > new[j - n]
          BY <1>8, <2>2, <3>3, <4>2
        <4> QED
          BY <3>1, <4>1, <4>3
      <3> QED
        BY <1>2, <3>2, <3>3
    <2> QED
      BY <1>2, <2>1, <2>2
  <1> QED
    BY <1>7, <1>9 DEF cat

(* If no line has been lost so far the block adds the next ones, all of them.*)
LEMMA BlockAddsAll ==
    ASSUME NEW f \in Seq(Byte), NEW lo \in Nat, NEW hi \in Nat, NEW d \in {0, 1},
           NEW s \in Seq(Nat), Numbered(f, s),
           Len(s) + NewlinesBefore(f, hi) + 1 - d = Len(Lines(f)),
           NEW new, FromTheEnd(f, lo, hi, d, new)
    PROVE  /\ Numbered(f, s \o new)
           /\ Len(s \o new) = Len(Lines(f)) - 1 - NewlinesBefore(f, lo)
  <1> DEFINE cat == s \o new
             nhi == NewlinesBefore(f, hi)
             nlo == NewlinesBefore(f, lo)
             n == Len(s)
             m == Len(new)
             total == Len(Lines(f))
  <1>1. new \in Seq(Nat) /\ m + d = nhi - nlo
        /\ \A i \in 1 .. m : NewlinesBefore(f, new[i]) = nhi + 1 - d - i
    BY DEF FromTheEnd
  <1>2. /\ n \in Nat /\ m \in Nat /\ DOMAIN cat = 1 .. n + m /\ Len(cat) = n + m
        /\ \A i \in 1 .. n : cat[i] = s[i]
        /\ \A i \in 1 .. m : cat[n + i] = new[i]
        /\ \A i \in 1 .. n + m : i \in 1 .. n \/ (i - n \in 1 .. m /\ i = n + (i - n))
    BY <1>1, JoinedIs
  <1>3. nhi \in Nat /\ nlo \in Nat
    BY FirstNewlines DEF NewlinesBefore
  <1>4. DOMAIN s = 1 .. n
    OBVIOUS
  <1>5. \A i \in 1 .. n : NewlinesBefore(f, s[i]) = total - i
    BY <1>4 DEF Numbered
  <1>6. total = n + nhi + 1 - d
    OBVIOUS
  <1> HIDE DEF nhi, nlo, n, m, cat, total
  <1>7. Numbered(f, cat)
    <2> SUFFICES ASSUME NEW i \in 1 .. n + m PROVE NewlinesBefore(f, cat[i]) = total - i
      BY <1>2 DEF Numbered, total
    <2>1. CASE i \in 1 .. n
      BY <1>2, <1>5, <2>1
    <2>2. CASE i - n \in 1 .. m /\ i = n + (i - n)
      <3>1. cat[i] = new[i - n]
        BY <1>2, <2>2
      <3>2. NewlinesBefore(f, cat[i]) = nhi + 1 - d - (i - n)
        BY <1>1, <2>2, <3>1
      <3>3. nhi + 1 - d - (i - n) = total - i
        BY <1>2, <1>3, <1>6
      <3> QED
        BY <3>2, <3>3
    <2> QED
      BY <1>2, <2>1, <2>2
  <1>8. Len(cat) = total - 1 - nlo
    BY <1>1, <1>2, <1>3, <1>6
  <1> QED
    BY <1>7, <1>8 DEF cat, total, nlo

(* What holds of starts holds of the first n of them.                        *)
LEMMA TakeKeeps ==
    ASSUME NEW f, NEW s \in Seq(Nat), NEW n \in Nat, NEW p
    PROVE  /\ AreStarts(f, s, p) => AreStarts(f, TakeAtMost(n, s), p)
           /\ Falling(s) => Falling(TakeAtMost(n, s))
           /\ Numbered(f, s) => Numbered(f, TakeAtMost(n, s))
  <1> DEFINE r == TakeAtMost(n, s)
  <1>1. r \in Seq(Nat) /\ \A i \in 1 .. Len(r) : r[i] = s[i] /\ i \in 1 .. Len(s)
    BY TakeIs
  <1> HIDE DEF r
  <1>2. DOMAIN r = 1 .. Len(r) /\ DOMAIN s = 1 .. Len(s)
    BY <1>1
  <1>3. \A i \in DOMAIN r : r[i] = s[i] /\ i \in DOMAIN s
    BY <1>1, <1>2
  <1>4. AreStarts(f, s, p) => AreStarts(f, r, p)
    BY <1>3 DEF AreStarts
  <1>5. Falling(s) => Falling(r)
    BY <1>3 DEF Falling
  <1>6. Numbered(f, s) => Numbered(f, r)
    BY <1>3 DEF Numbered
  <1> QED
    BY <1>4, <1>5, <1>6 DEF r

(* The number of lines, by the newlines and the last byte.                   *)
LEMMA TotalIs ==
    ASSUME CallTypes, file # <<>>
    PROVE  /\ Len(file) \in Nat \ {0} /\ Total \in Nat \ {0} /\ Total = Len(Lines(file))
           /\ file[Len(file)] = Nl => Total = NewlinesBefore(file, Len(file))
           /\ file[Len(file)] # Nl => Total = NewlinesBefore(file, Len(file)) + 1
  <1>1. file \in Seq(Byte)
    BY DEF CallTypes
  <1>2. Len(file) \in Nat \ {0} /\ Len(file) > 0
    BY <1>1
  <1>3. /\ Len(Lines(file)) = IF file[Len(file)] = Nl THEN NewlinesBefore(file, Len(file))
                              ELSE NewlinesBefore(file, Len(file)) + 1
        /\ Len(Lines(file)) = NewlinesBefore(file, Len(file) - 1) + 1
    BY <1>1, <1>2, LineCountIs
  <1>4. NewlinesBefore(file, Len(file) - 1) \in Nat
    <2>1. Len(file) - 1 \in Nat
      BY <1>2
    <2> QED
      BY <2>1, FirstNewlines DEF NewlinesBefore
  <1>5. Len(Lines(file)) \in Nat \ {0}
    BY <1>3, <1>4
  <1> QED
    BY <1>2, <1>3, <1>5 DEF Total

(* tail begins at the end of the file;                                       *)
LEMMA TailOpenKeeps ==
    ASSUME CallTypes, TailInv, call.api = "tail", TailOpen
    PROVE  CallTypes' /\ TailInv' /\ AnswerIsExact' /\ RefusedForCause'
  <1>1. /\ pc = "open" /\ ~Answered /\ pos' = Len(file)
        /\ IF file = <<>> THEN pc' = "done" /\ answer' = Ok(<<>>) ELSE pc' = "blocks" /\ answer' = answer
        /\ file' = file /\ call' = call /\ offset' = offset /\ seen' = seen /\ failed' = failed
        /\ lineStarts' = lineStarts /\ endsWithNl' = endsWithNl /\ line' = line
    BY DEF TailOpen, Finish
  <1>2. CASE file = <<>>
    <2>1. pc' = "done" /\ answer' = Ok(<<>>)
      BY <1>1, <1>2
    <2>2. CallTypes'
      BY <1>1, <2>1 DEF CallTypes, Answered, Rejected, NothingAsked
    <2>3. TailInv'
      BY <2>1 DEF TailInv
    <2> DEFINE all == Lines(file)
    <2>4. all \in Seq(Seq(Byte)) /\ Len(all) = 0
      <3>1. file \in Seq(Byte) /\ Len(file) = 0
        BY <1>2 DEF CallTypes
      <3> QED
        BY <3>1, LinesAre, LineCountIs
    <2>5. Promised(call, file) = Ok(SubSeq(all, Max({1, Len(all) - call.n + 1}), Len(all)))
      BY DEF Promised
    <2> HIDE DEF all
    <2>6. SubSeq(all, Max({1, Len(all) - call.n + 1}), Len(all)) = <<>>
      <3> DEFINE k == Len(all) - call.n + 1
      <3>1. k \in Int /\ 1 \in Int
        BY <2>4, CallIs
      <3> HIDE DEF k
      <3>2. Max({1, k}) \in Int /\ Max({1, k}) >= 1
        <4>1. Max({1, k}) = IF 1 >= k THEN 1 ELSE k
          BY <3>1, GreaterIs
        <4> QED
          BY <3>1, <4>1
      <3>3. SubSeq(all, Max({1, k}), 0) = <<>>
        BY <2>4, <3>2
      <3> QED
        BY <2>4, <3>3 DEF k
    <2>7. Kept(Ok(<<>>))
      <3>1. Ok(<<>>) # Refused
        BY DEF Ok, Refused
      <3> QED
        BY <2>5, <2>6, <3>1 DEF Kept
    <2>8. AnswerIsExact' /\ RefusedForCause'
      BY <1>1, <2>1, <2>7, FinishKeeps
    <2> QED
      BY <2>2, <2>3, <2>8
  <1>3. CASE file # <<>>
    <2>1. pc' = "blocks" /\ answer' = answer
      BY <1>1, <1>3
    <2>2. CallTypes'
      BY <1>1, <2>1 DEF CallTypes, Answered, Rejected, NothingAsked
    <2>3. seen = <<>> /\ lineStarts = <<>> /\ TailTypes
      BY <1>1 DEF CallTypes, TailInv, TailTypes
    <2>4. Len(file) \in Nat /\ call.n \in Nat
      BY CallIs
    <2>5. TailTypes'
      <3>1. pos' \in 0 .. Len(file)
        BY <1>1, <2>4
      <3> QED
        BY <1>1, <1>3, <2>1, <2>3, <3>1 DEF TailTypes
    <2>6. BackwardsInv'
      <3>1. ~(pos' < Len(file')) /\ pos' = Len(file')
        BY <1>1, <2>4
      <3>2. Len(lineStarts') <= call'.n + 1 /\ DOMAIN lineStarts' = {} /\ lineStarts' = <<>>
        BY <1>1, <2>3, <2>4
      <3> QED
        BY <1>1, <2>3, <3>1, <3>2 DEF BackwardsInv
    <2>7. ForwardsInv' /\ LineInv'
      BY <2>1 DEF ForwardsInv, LineInv
    <2>8. AnswerIsExact' /\ RefusedForCause'
      <3>1. answer' = Running
        BY <1>1, <2>1 DEF CallTypes
      <3> QED
        BY <3>1, RunningKeeps
    <2> QED
      BY <2>2, <2>5, <2>6, <2>7, <2>8 DEF TailInv
  <1> QED
    BY <1>2, <1>3

(* it refuses if a call fails;                                               *)
LEMMA TailFailsKeeps ==
    ASSUME CallTypes, TailInv, call.api = "tail", TailFails
    PROVE  CallTypes' /\ TailInv' /\ AnswerIsExact' /\ RefusedForCause'
  <1>1. /\ pc # "open" /\ pc # "done" /\ pc' = "done" /\ answer' = Refused /\ failed' = TRUE
        /\ file' = file /\ call' = call /\ offset' = offset /\ seen' = seen
    BY DEF TailFails, Finish
  <1>2. CallTypes'
    BY <1>1 DEF CallTypes, Answered, Rejected, NothingAsked
  <1>3. TailInv'
    BY <1>1 DEF TailInv
  <1> QED
    BY <1>1, <1>2, <1>3, RefusedKeeps

(* a block adds its starts to those behind it;                               *)
LEMMA ScanBlockKeeps ==
    ASSUME CallTypes, TailInv, call.api = "tail", ScanBlock
    PROVE  CallTypes' /\ TailInv' /\ AnswerIsExact' /\ RefusedForCause'
  <1> DEFINE f == file
             q == pos'
             p == pos
             new == NewStarts(q, p, endsWithNl')
             cat == lineStarts \o new
             n == call.n
  <1>1. /\ pc = "blocks" /\ MoreBlocks /\ pc' = pc
        /\ q = p - Min({p, Block}) /\ offset' = p
        /\ endsWithNl' = (IF p = Len(f) THEN f[p] = Nl ELSE endsWithNl)
        /\ lineStarts' = TakeAtMost(n + 1, cat)
        /\ file' = file /\ call' = call /\ seen' = seen /\ answer' = answer /\ failed' = failed
        /\ line' = line
    BY DEF ScanBlock
  <1>2. TailTypes /\ BackwardsInv
    BY <1>1 DEF TailInv
  <1>3. /\ f \in Seq(Byte) /\ f # <<>> /\ p \in Nat /\ p <= Len(f) /\ lineStarts \in Seq(Nat)
        /\ n \in Nat /\ Len(f) \in Nat /\ Block \in Nat \ {0} /\ n + 1 \in Nat
    BY <1>1, <1>2, CallIs DEF TailTypes, CallTypes
  <1>4. p > 0 /\ Len(lineStarts) <= n
    BY <1>1 DEF MoreBlocks
  <1>5. /\ seen = <<>>
        /\ p = Len(f) => lineStarts = <<>>
        /\ p < Len(f) => endsWithNl = (f[Len(f)] = Nl)
        /\ AreStarts(f, lineStarts, p) /\ Falling(lineStarts)
        /\ ~LosesALine => /\ Numbered(f, lineStarts)
                          /\ \/ Len(lineStarts) = n + 1
                             \/ p = Len(f)
                             \/ Len(lineStarts) = Total - 1 - NewlinesBefore(f, p)
                          /\ 0 < p /\ p < Len(f) => ~endsWithNl
    BY <1>1, <1>2 DEF BackwardsInv, AreStarts, Falling, Numbered, Total
  <1>6. /\ q \in Nat /\ q < p /\ (q > 0 => Block < p)
    <2>1. Min({p, Block}) = IF p <= Block THEN p ELSE Block
      BY <1>3, LesserIs
    <2>2. CASE p <= Block
      <3>1. q = 0
        BY <1>1, <1>3, <2>1, <2>2
      <3> QED
        BY <1>3, <1>4, <3>1
    <2>3. CASE ~(p <= Block)
      <3>1. q = p - Block
        BY <1>1, <1>3, <2>1, <2>3
      <3> QED
        BY <1>3, <2>3, <3>1
    <2> QED
      BY <2>2, <2>3
  <1>7. endsWithNl' = (f[Len(f)] = Nl) /\ endsWithNl' \in BOOLEAN
    <2>1. CASE p = Len(f)
      BY <1>1, <2>1
    <2>2. CASE p # Len(f)
      <3>1. p < Len(f)
        BY <1>3, <2>2
      <3> QED
        BY <1>1, <1>5, <2>2, <3>1
    <2> QED
      BY <2>1, <2>2
  <1> HIDE DEF q, p, f, n
  <1>8. PICK d \in {0, 1} : /\ FromTheEnd(f, q, p, d, new)
                            /\ d = 0 => ~endsWithNl' \/ NewlinesIn(f, q, p) = {}
                            /\ d = 1 => endsWithNl'
    <2>1. q <= p
      BY <1>3, <1>6
    <2> HIDE DEF new
    <2>2. \/ FromTheEnd(f, q, p, 0, new) /\ (~endsWithNl' \/ NewlinesIn(f, q, p) = {})
          \/ FromTheEnd(f, q, p, 1, new) /\ endsWithNl'
      BY <1>3, <1>6, <1>7, <2>1, NewStartsAre DEF new, f
    <2>3. CASE FromTheEnd(f, q, p, 0, new) /\ (~endsWithNl' \/ NewlinesIn(f, q, p) = {})
      <3> WITNESS 0 \in {0, 1}
      <3> QED
        BY <2>3
    <2>4. CASE FromTheEnd(f, q, p, 1, new) /\ endsWithNl'
      <3> WITNESS 1 \in {0, 1}
      <3> QED
        BY <2>4
    <2> QED
      BY <2>2, <2>3, <2>4
  <1> HIDE DEF new
  <1>9. p = Len(f) /\ f[p] = Nl => d = 1
    <2> SUFFICES ASSUME p = Len(f), f[p] = Nl, d = 0 PROVE FALSE
      BY <1>8
    <2>1. p \in q + 1 .. p
      BY <1>3, <1>6
    <2>2. p \in NewlinesIn(f, q, p)
      BY <2>1 DEF NewlinesIn
    <2> QED
      BY <1>7, <1>8, <2>2
  <1>10. new \in Seq(Nat)
    BY <1>8 DEF FromTheEnd
  <1>11. AreStarts(f, cat, q) /\ Falling(cat)
    <2>1. q <= p
      BY <1>3, <1>6
    <2> QED
      BY <1>3, <1>5, <1>6, <1>8, <1>9, <2>1, BlockAddsStarts
  <1>12. cat \in Seq(Nat) /\ Len(cat) \in Nat
    BY <1>3, <1>10, JoinedIs
  <1>13. ASSUME ~LosesALine
         PROVE  /\ Numbered(f, cat) /\ Len(cat) = Total - 1 - NewlinesBefore(f, q)
                /\ q > 0 => ~endsWithNl'
    <2>1. /\ Total \in Nat /\ Total = Len(Lines(f))
          /\ f[Len(f)] = Nl => Total = NewlinesBefore(f, Len(f))
          /\ f[Len(f)] # Nl => Total = NewlinesBefore(f, Len(f)) + 1
      BY <1>3, TotalIs DEF f
    <2>2. q > 0 => ~endsWithNl'
      <3> SUFFICES ASSUME q > 0, f[Len(f)] = Nl PROVE FALSE
        BY <1>7
      <3>1. Len(f) > Block
        BY <1>3, <1>6
      <3> QED
        BY <1>13, <3>1 DEF LosesALine, f
    <2>3. NewlinesBefore(f, p) \in Nat
      BY <1>3, FirstNewlines DEF NewlinesBefore
    <2>4. Len(lineStarts) + NewlinesBefore(f, p) + 1 - d = Len(Lines(f))
      <3>1. CASE p = Len(f)
        <4>1. Len(lineStarts) = 0
          BY <1>5, <3>1
        <4>2. CASE f[p] = Nl
          <5>1. d = 1 /\ Total = NewlinesBefore(f, p)
            BY <1>9, <2>1, <3>1, <4>2
          <5> QED
            BY <2>1, <2>3, <4>1, <5>1
        <4>3. CASE f[p] # Nl
          <5>1. d = 0 /\ Total = NewlinesBefore(f, p) + 1
            BY <1>7, <1>8, <2>1, <3>1, <4>3
          <5> QED
            BY <2>1, <2>3, <4>1, <5>1
        <4> QED
          BY <4>2, <4>3
      <3>2. CASE p # Len(f)
        <4>1. Len(lineStarts) = Total - 1 - NewlinesBefore(f, p)
          <5>1. Len(lineStarts) # n + 1
            BY <1>3, <1>4
          <5> QED
            BY <1>5, <1>13, <3>2, <5>1
        <4>2. d = 0
          <5>1. p < Len(f)
            BY <1>3, <3>2
          <5>2. ~endsWithNl
            BY <1>4, <1>5, <1>13, <5>1
          <5>3. ~endsWithNl'
            BY <1>1, <3>2, <5>2 DEF p, f
          <5> QED
            BY <1>8, <5>3
        <4> QED
          BY <2>1, <2>3, <4>1, <4>2
      <3> QED
        BY <3>1, <3>2
    <2>5. Numbered(f, lineStarts)
      BY <1>5, <1>13
    <2>6. /\ Numbered(f, cat)
          /\ Len(cat) = Len(Lines(f)) - 1 - NewlinesBefore(f, q)
      BY <1>3, <1>6, <1>8, <2>4, <2>5, BlockAddsAll
    <2> QED
      BY <2>1, <2>2, <2>6
  <1> HIDE DEF cat
  <1> DEFINE r == TakeAtMost(n + 1, cat)
  <1>14. /\ r \in Seq(Nat) /\ Len(r) <= n + 1 /\ (Len(r) = n + 1 \/ Len(r) = Len(cat))
         /\ AreStarts(f, r, q) /\ Falling(r) /\ (Numbered(f, cat) => Numbered(f, r))
    BY <1>3, <1>11, <1>12, TakeIs, TakeKeeps
  <1>15. lineStarts' = r
    BY <1>1 DEF n
  <1> HIDE DEF r
  <1>16. CallTypes'
    <2>1. offset' \in 0 .. Len(f)
      BY <1>1, <1>3 DEF p
    <2> QED
      BY <1>1, <2>1 DEF CallTypes, Answered, Rejected, NothingAsked, f
  <1>17. TailTypes'
    <2>1. q \in 0 .. Len(f)
      BY <1>3, <1>6
    <2> QED
      BY <1>1, <1>2, <1>3, <1>14, <1>15, <2>1 DEF TailTypes, f, q
  <1>18. BackwardsInv'
    <2>1. q # Len(f) /\ q < Len(f)
      BY <1>3, <1>6
    <2>2. LosesALine' <=> LosesALine
      BY <1>1 DEF LosesALine
    <2>3. ASSUME ~LosesALine
          PROVE  /\ Numbered(f, r)
                 /\ Len(r) = n + 1 \/ q = Len(f) \/ Len(r) = Total - 1 - NewlinesBefore(f, q)
                 /\ 0 < q /\ q < Len(f) => ~endsWithNl'
      <3>1. /\ Numbered(f, cat) /\ Len(cat) = Total - 1 - NewlinesBefore(f, q)
            /\ q > 0 => ~endsWithNl'
        BY <1>13, <2>3
      <3>2. 0 < q => q > 0
        BY <1>6
      <3> QED
        BY <1>14, <3>1, <3>2
    <2>4. file' = f /\ seen' = <<>> /\ lineStarts' = r /\ pos' = q /\ call'.n = n
      BY <1>1, <1>5, <1>15 DEF f, q, n
    <2>5. Total' = Total
      BY <1>1 DEF Total
    <2>6. /\ \A i \in DOMAIN r : r[i] \in StartsOf(f) /\ r[i] > q
          /\ \A i, j \in DOMAIN r : i < j => r[i] > r[j]
      BY <1>14 DEF AreStarts, Falling
    <2>7. ~LosesALine => \A i \in DOMAIN r : NewlinesBefore(f, r[i]) = Total - i
      BY <2>3 DEF Numbered, Total, f
    <2> QED
      BY <1>7, <1>14, <2>1, <2>2, <2>3, <2>4, <2>5, <2>6, <2>7 DEF BackwardsInv
  <1>19. ForwardsInv' /\ LineInv'
    BY <1>1 DEF ForwardsInv, LineInv
  <1>20. AnswerIsExact' /\ RefusedForCause'
    <2>1. answer' = Running
      BY <1>1 DEF CallTypes
    <2> QED
      BY <2>1, RunningKeeps
  <1> QED
    BY <1>16, <1>17, <1>18, <1>19, <1>20 DEF TailInv

(* The starts in the order of the file: of the last lines, if none is lost.  *)
LEMMA TurnedAround ==
    ASSUME NEW f \in Seq(Byte), NEW s \in Seq(Nat), Falling(s),
           \A i \in DOMAIN s : s[i] \in StartsOf(f)
    PROVE  /\ Reverse(s) \in Seq(Nat) /\ Len(Reverse(s)) = Len(s)
           /\ \A i \in DOMAIN Reverse(s) : Reverse(s)[i] \in StartsOf(f)
           /\ \A i, j \in DOMAIN Reverse(s) : i < j => Reverse(s)[i] < Reverse(s)[j]
           /\ Numbered(f, s) =>
                 \A i \in DOMAIN Reverse(s) :
                    NewlinesBefore(f, Reverse(s)[i]) = Len(Lines(f)) - Len(s) + i - 1
  <1> DEFINE r == Reverse(s)
             n == Len(s)
  <1>1. /\ r \in Seq(Nat) /\ Len(r) = n /\ n \in Nat
        /\ \A i \in 1 .. n : r[i] = s[n - i + 1] /\ n - i + 1 \in 1 .. n
    BY ReverseIs
  <1>2. DOMAIN s = 1 .. n
    OBVIOUS
  <1>3. Len(Lines(f)) \in Nat
    BY LinesAre
  <1>4. \A i \in 1 .. n : s[i] \in Nat
    BY <1>2, ElementOfSeq
  <1> HIDE DEF r, n
  <1>5. DOMAIN r = 1 .. n
    BY <1>1
  <1>6. \A i \in DOMAIN r : r[i] \in StartsOf(f)
    BY <1>1, <1>2, <1>5
  <1>7. ASSUME NEW i \in 1 .. n, NEW j \in 1 .. n, i < j PROVE r[i] < r[j]
    <2>1. n - j + 1 < n - i + 1
      BY <1>1, <1>7
    <2>2. s[n - j + 1] > s[n - i + 1]
      BY <1>1, <1>2, <2>1 DEF Falling
    <2>3. r[i] = s[n - i + 1] /\ r[j] = s[n - j + 1] /\ r[i] \in Nat /\ r[j] \in Nat
      BY <1>1, <1>4
    <2> QED
      BY <2>2, <2>3
  <1>8. ASSUME Numbered(f, s), NEW i \in 1 .. n
        PROVE  NewlinesBefore(f, r[i]) = Len(Lines(f)) - n + i - 1
    <2>1. r[i] = s[n - i + 1] /\ n - i + 1 \in 1 .. n
      BY <1>1
    <2>2. NewlinesBefore(f, r[i]) = Len(Lines(f)) - (n - i + 1)
      BY <1>2, <1>8, <2>1 DEF Numbered
    <2>3. Len(Lines(f)) - (n - i + 1) = Len(Lines(f)) - n + i - 1
      BY <1>1, <1>3
    <2> QED
      BY <2>2, <2>3
  <1>9. \A i, j \in DOMAIN r : i < j => r[i] < r[j]
    BY <1>5, <1>7
  <1>10. Numbered(f, s) => \A i \in DOMAIN r : NewlinesBefore(f, r[i]) = Len(Lines(f)) - n + i - 1
    BY <1>5, <1>8
  <1> QED
    BY <1>1, <1>6, <1>9, <1>10 DEF r, n

(* the starts are put into the order of the file;                            *)
LEMMA OrderStartsKeeps ==
    ASSUME CallTypes, TailInv, call.api = "tail", OrderStarts
    PROVE  CallTypes' /\ TailInv' /\ AnswerIsExact' /\ RefusedForCause'
  <1> DEFINE f == file
             n == call.n
             p == pos
             s == lineStarts
             first == IF p = 0 /\ Len(s) <= n THEN <<0>> ELSE <<>>
             cat == s \o first
             r == TakeAtMost(n, cat)
  <1>1. /\ pc = "blocks" /\ ~MoreBlocks /\ pc' = "seek" /\ lineStarts' = Reverse(r)
        /\ file' = file /\ call' = call /\ offset' = offset /\ seen' = seen /\ answer' = answer
        /\ failed' = failed /\ pos' = pos /\ endsWithNl' = endsWithNl /\ line' = line
    BY DEF OrderStarts
  <1>2. TailTypes /\ BackwardsInv /\ ~Answered
    BY <1>1 DEF TailInv, CallTypes
  <1>3. /\ f \in Seq(Byte) /\ f # <<>> /\ p \in Nat /\ s \in Seq(Nat) /\ Len(s) \in Nat
        /\ n \in Nat /\ n # 0
    BY <1>1, <1>2, CallIs DEF TailTypes, CallTypes, Answered, NothingAsked
  <1>4. p = 0 \/ Len(s) > n
    BY <1>1, <1>3 DEF MoreBlocks
  <1>5. /\ seen = <<>> /\ Len(s) <= n + 1
        /\ AreStarts(f, s, p) /\ Falling(s)
        /\ ~LosesALine => /\ Numbered(f, s)
                          /\ \/ Len(s) = n + 1
                             \/ p = Len(f)
                             \/ Len(s) = Total - 1 - NewlinesBefore(f, p)
    BY <1>1, <1>2 DEF BackwardsInv, AreStarts, Falling, Numbered, Total
  <1>6. Len(f) \in Nat \ {0} /\ Total \in Nat \ {0} /\ Total = Len(Lines(f))
    BY <1>3, TotalIs
  <1> HIDE DEF f, n, p, s
  <1>7. /\ cat \in Seq(Nat) /\ Falling(cat) /\ \A i \in DOMAIN cat : cat[i] \in StartsOf(f)
        /\ Len(cat) # 0 /\ Len(cat) \in Nat
        /\ ~LosesALine => Numbered(f, cat) /\ ((Len(cat) >= n /\ Total >= n) \/ Len(cat) = Total)
    <2>1. CASE p = 0 /\ Len(s) <= n
      <3>1. first = <<0>> /\ first \in Seq(Nat) /\ Len(first) = 1 /\ first[1] = 0
        BY <2>1
      <3> HIDE DEF first
      <3>2. /\ cat \in Seq(Nat) /\ Len(cat) = Len(s) + 1
            /\ DOMAIN cat = 1 .. Len(s) + 1
            /\ \A i \in 1 .. Len(s) : cat[i] = s[i]
            /\ cat[Len(s) + 1] = 0
        <4>1. /\ cat \in Seq(Nat) /\ Len(cat) = Len(s) + Len(first)
              /\ DOMAIN cat = 1 .. Len(s) + Len(first)
              /\ \A i \in 1 .. Len(s) : cat[i] = s[i]
              /\ \A i \in 1 .. Len(first) : cat[Len(s) + i] = first[i]
          BY <1>3, <3>1, JoinedIs
        <4>2. 1 \in 1 .. Len(first)
          BY <3>1
        <4> QED
          BY <3>1, <4>1, <4>2
      <3> HIDE DEF cat
      <3>3. DOMAIN s = 1 .. Len(s)
        BY <1>3
      <3>4. \A i \in 1 .. Len(s) : s[i] \in StartsOf(f) /\ s[i] > 0
        BY <1>5, <2>1, <3>3 DEF AreStarts
      <3>5. 0 \in StartsOf(f)
        <4>1. 0 \in 0 .. Len(f) - 1
          BY <1>6
        <4> QED
          BY <1>3, <4>1, StartsAre
      <3>6. \A i \in 1 .. Len(s) + 1 : i \in 1 .. Len(s) \/ i = Len(s) + 1
        BY <1>3
      <3>7. \A i \in DOMAIN cat : cat[i] \in StartsOf(f)
        BY <3>2, <3>4, <3>5, <3>6
      <3>8. Falling(cat)
        <4> SUFFICES ASSUME NEW i \in 1 .. Len(s) + 1, NEW j \in 1 .. Len(s) + 1, i < j
                     PROVE  cat[i] > cat[j]
          BY <3>2 DEF Falling
        <4>1. i \in 1 .. Len(s)
          BY <1>3
        <4>2. CASE j \in 1 .. Len(s)
          BY <1>5, <3>2, <3>3, <4>1, <4>2 DEF Falling
        <4>3. CASE j = Len(s) + 1
          BY <3>2, <3>4, <4>1, <4>3
        <4> QED
          BY <3>6, <4>2, <4>3
      <3>9. ASSUME ~LosesALine PROVE Numbered(f, cat) /\ Len(cat) = Total
        <4>1. NewlinesBefore(f, 0) = 0
          BY NoneBeforeTheFirst
        <4>2. Len(s) = Total - 1
          <5>1. Len(s) # n + 1 /\ p # Len(f)
            BY <1>3, <1>6, <2>1
          <5>2. Len(s) = Total - 1 - NewlinesBefore(f, 0)
            BY <1>5, <2>1, <3>9, <5>1
          <5> QED
            BY <1>6, <4>1, <5>2
        <4>3. Len(cat) = Total
          BY <1>6, <3>2, <4>2
        <4>4. \A i \in 1 .. Len(s) : NewlinesBefore(f, s[i]) = Len(Lines(f)) - i
          BY <1>5, <3>3, <3>9 DEF Numbered
        <4>5. NewlinesBefore(f, cat[Len(s) + 1]) = Len(Lines(f)) - (Len(s) + 1)
          BY <1>6, <3>2, <4>1, <4>2
        <4>6. Numbered(f, cat)
          BY <3>2, <3>6, <4>4, <4>5 DEF Numbered
        <4> QED
          BY <4>3, <4>6
      <3>10. Len(cat) # 0 /\ Len(cat) \in Nat
        BY <1>3, <3>2
      <3> QED
        BY <3>2, <3>7, <3>8, <3>9, <3>10
    <2>2. CASE ~(p = 0 /\ Len(s) <= n)
      <3>1. Len(s) = n + 1
        BY <1>3, <1>4, <1>5, <2>2
      <3>2. cat = s
        <4>1. first = <<>>
          BY <2>2
        <4> HIDE DEF first
        <4> QED
          BY <1>3, <4>1
      <3> HIDE DEF cat
      <3>3. ASSUME ~LosesALine PROVE Numbered(f, s) /\ Total >= n
        <4>1. Numbered(f, s)
          BY <1>5, <3>3
        <4>2. n + 1 \in DOMAIN s
          BY <1>3, <3>1
        <4>3. NewlinesBefore(f, s[n + 1]) = Total - (n + 1)
          BY <1>6, <4>1, <4>2 DEF Numbered
        <4>4. NewlinesBefore(f, s[n + 1]) \in Nat
          <5>1. s[n + 1] \in Nat
            BY <1>3, <4>2, ElementOfSeq
          <5> QED
            BY <5>1, FirstNewlines DEF NewlinesBefore
        <4>5. Total >= n
          BY <1>3, <1>6, <4>3, <4>4
        <4> QED
          BY <4>1, <4>5
      <3>4. \A i \in DOMAIN s : s[i] \in StartsOf(f)
        BY <1>5 DEF AreStarts
      <3>5. Len(s) >= n /\ Len(s) # 0
        BY <1>3, <3>1
      <3> QED
        BY <1>3, <1>5, <3>2, <3>3, <3>4, <3>5
    <2> QED
      BY <2>1, <2>2
  <1> HIDE DEF cat
  <1>8. /\ r \in Seq(Nat) /\ Len(r) \in Nat /\ Len(r) <= n /\ Len(r) <= Len(cat)
        /\ Len(r) = n \/ Len(r) = Len(cat)
        /\ \A i \in 1 .. Len(r) : r[i] = cat[i] /\ i \in 1 .. Len(cat)
    BY <1>3, <1>7, TakeIs
  <1>9. Falling(r) /\ (Numbered(f, cat) => Numbered(f, r))
    BY <1>3, <1>7, TakeKeeps
  <1> HIDE DEF r
  <1>10. \A i \in DOMAIN r : r[i] \in StartsOf(f)
    <2>1. DOMAIN r = 1 .. Len(r) /\ DOMAIN cat = 1 .. Len(cat)
      BY <1>7, <1>8
    <2> QED
      BY <1>7, <1>8, <2>1
  <1> DEFINE t == Reverse(r)
  <1>11. /\ t \in Seq(Nat) /\ Len(t) = Len(r)
         /\ \A i \in DOMAIN t : t[i] \in StartsOf(f)
         /\ \A i, j \in DOMAIN t : i < j => t[i] < t[j]
         /\ Numbered(f, r) =>
               \A i \in DOMAIN t : NewlinesBefore(f, t[i]) = Len(Lines(f)) - Len(r) + i - 1
    BY <1>3, <1>8, <1>9, <1>10, TurnedAround
  <1>12. lineStarts' = t
    BY <1>1
  <1> HIDE DEF t
  <1>13. Len(t) # 0 /\ Len(t) <= n /\ Len(t) \in Nat
    BY <1>3, <1>7, <1>8, <1>11
  <1>14. ASSUME ~LosesALine PROVE Len(t) = ToRead
    <2>1. Min({n, Total}) = Len(t)
      <3>1. Len(t) <= Total /\ (Len(t) = n \/ Len(t) = Total)
        <4>1. CASE Len(cat) >= n /\ Total >= n
          <5>1. Len(r) = n
            BY <1>3, <1>7, <1>8, <4>1
          <5> QED
            BY <1>3, <1>6, <1>11, <4>1, <5>1
        <4>2. CASE Len(cat) = Total
          BY <1>8, <1>11, <4>2
        <4> QED
          BY <1>7, <1>14, <4>1, <4>2
      <3>2. Total \in Nat
        BY <1>6
      <3> QED
        BY <1>3, <1>13, <3>1, <3>2, LesserLength
    <2> QED
      BY <2>1 DEF ToRead, n
  <1>15. CallTypes'
    BY <1>1 DEF CallTypes, Answered, Rejected, NothingAsked
  <1>16. TailTypes'
    BY <1>1, <1>2, <1>11, <1>12 DEF TailTypes
  <1>17. ForwardsInv'
    <2>1. file' = f /\ call'.n = n /\ seen' = <<>> /\ lineStarts' = t
      BY <1>1, <1>5, <1>12 DEF f, n
    <2>2. Total' = Total /\ ToRead' = ToRead /\ (LosesALine' <=> LosesALine)
      BY <1>1 DEF Total, ToRead, LosesALine
    <2>3. t # <<>>
      BY <1>13
    <2>4. ASSUME ~LosesALine
          PROVE  /\ Len(seen') + Len(t) = ToRead
                 /\ \A i \in DOMAIN t : NewlinesBefore(f, t[i]) = Total - Len(t) + i - 1
                 /\ \A i \in DOMAIN seen' : seen'[i] = Lines(f)[Total - ToRead + i]
      <3>1. Len(seen') = 0 /\ DOMAIN seen' = {}
        BY <2>1
      <3>2. Len(seen') + Len(t) = ToRead
        BY <1>13, <1>14, <2>4, <3>1
      <3>3. Numbered(f, r)
        BY <1>7, <1>9, <2>4
      <3>4. \A i \in DOMAIN t : NewlinesBefore(f, t[i]) = Total - Len(t) + i - 1
        BY <1>6, <1>11, <3>3
      <3> QED
        BY <3>1, <3>2, <3>4
    <2> QED
      BY <1>11, <1>13, <2>1, <2>2, <2>3, <2>4 DEF ForwardsInv
  <1>18. BackwardsInv' /\ LineInv'
    BY <1>1 DEF BackwardsInv, LineInv
  <1>19. AnswerIsExact' /\ RefusedForCause'
    <2>1. answer' = Running
      BY <1>1 DEF CallTypes
    <2> QED
      BY <2>1, RunningKeeps
  <1> QED
    BY <1>15, <1>16, <1>17, <1>18, <1>19 DEF TailInv

(* from each of them a line is read:                                         *)
LEMMA SeekLineKeeps ==
    ASSUME CallTypes, TailInv, call.api = "tail", SeekLine
    PROVE  CallTypes' /\ TailInv' /\ AnswerIsExact' /\ RefusedForCause'
  <1> DEFINE o == Head(lineStarts)
  <1>1. /\ pc = "seek" /\ lineStarts # <<>> /\ pc' = "lines" /\ offset' = o /\ line' = <<>>
        /\ file' = file /\ call' = call /\ seen' = seen /\ answer' = answer /\ failed' = failed
        /\ pos' = pos /\ lineStarts' = lineStarts /\ endsWithNl' = endsWithNl
    BY DEF SeekLine
  <1>2. TailTypes /\ ForwardsInv
    BY <1>1 DEF TailInv
  <1>3. file \in Seq(Byte) /\ Len(file) \in Nat /\ lineStarts \in Seq(Nat)
    BY <1>2 DEF TailTypes, CallTypes
  <1>4. o \in StartsOf(file)
    <2>1. o = lineStarts[1] /\ 1 \in DOMAIN lineStarts
      BY <1>1, <1>3
    <2> QED
      BY <1>1, <1>2, <2>1 DEF ForwardsInv
  <1>5. o \in Nat /\ o \in 0 .. Len(file)
    BY <1>3, <1>4, StartsAre
  <1> HIDE DEF o
  <1>6. CallTypes'
    BY <1>1, <1>5 DEF CallTypes, Answered, Rejected, NothingAsked
  <1>7. TailTypes'
    BY <1>1, <1>2 DEF TailTypes
  <1>8. BackwardsInv'
    BY <1>1 DEF BackwardsInv
  <1>9. ForwardsInv'
    BY <1>1, <1>2 DEF ForwardsInv, ToRead, Total, LosesALine
  <1>10. LineInv'
    <2>1. NewlinesIn(file, o, o) = {} /\ SubSeq(file, o + 1, o) = <<>>
      BY <1>3, <1>5 DEF NewlinesIn
    <2>2. Head(lineStarts') = o /\ o <= o
      BY <1>1, <1>5 DEF o
    <2> QED
      BY <1>1, <2>1, <2>2 DEF LineInv
  <1>11. AnswerIsExact' /\ RefusedForCause'
    <2>1. answer' = Running
      BY <1>1 DEF CallTypes
    <2> QED
      BY <2>1, RunningKeeps
  <1> QED
    BY <1>6, <1>7, <1>8, <1>9, <1>10, <1>11 DEF TailInv

(* The line being read starts where the file's next line does.              *)
LEMMA LineStartsAt ==
    ASSUME CallTypes, TailInv, call.api = "tail", pc = "lines"
    PROVE  LET o == Head(lineStarts)
           IN  /\ o \in Nat /\ offset \in Nat /\ o <= offset /\ offset <= Len(file)
               /\ file \in Seq(Byte) /\ Len(file) \in Nat
               /\ o < Len(file) /\ (o = 0 \/ file[o] = Nl)
               /\ line = SubSeq(file, o + 1, offset) /\ NewlinesIn(file, o, offset) = {}
               /\ lineStarts \in Seq(Nat) /\ lineStarts # <<>>
               /\ 1 \in DOMAIN lineStarts /\ lineStarts[1] = o
  <1> DEFINE o == Head(lineStarts)
  <1>1. TailTypes /\ ForwardsInv /\ LineInv
    BY DEF TailInv
  <1>2. file \in Seq(Byte) /\ Len(file) \in Nat /\ lineStarts \in Seq(Nat) /\ lineStarts # <<>>
        /\ offset \in Nat /\ offset <= Len(file)
    BY <1>1 DEF TailTypes, CallTypes, LineInv
  <1>3. o = lineStarts[1] /\ 1 \in DOMAIN lineStarts
    BY <1>2
  <1>4. o \in StartsOf(file)
    BY <1>1, <1>3 DEF ForwardsInv
  <1>5. o <= offset /\ line = SubSeq(file, o + 1, offset) /\ NewlinesIn(file, o, offset) = {}
    BY <1>1 DEF LineInv
  <1> HIDE DEF o
  <1>6. o \in 0 .. Len(file) - 1 /\ (o = 0 \/ file[o] = Nl)
    BY <1>2, <1>4, StartsAre
  <1>7. o \in Nat /\ o < Len(file)
    BY <1>2, <1>6
  <1> QED
    BY <1>2, <1>3, <1>5, <1>6, <1>7 DEF o

(* when the line is whole, it is the next of the last n;                     *)
LEMMA LineDoneKeeps ==
    ASSUME CallTypes, TailInv, call.api = "tail", pc = "lines",
           NEW l, l = LineAt(file, Head(lineStarts)), LineDone(l),
           file' = file, call' = call, answer' = answer, failed' = failed,
           offset' \in 0 .. Len(file), pos' = pos, line' \in Seq(Byte)
    PROVE  CallTypes' /\ TailInv' /\ AnswerIsExact' /\ RefusedForCause'
  <1> DEFINE o == Head(lineStarts)
             s == lineStarts
             t == Tail(lineStarts)
             all == Lines(file)
  <1>1. seen' = Append(seen, l) /\ lineStarts' = t /\ pc' = "seek"
    BY DEF LineDone
  <1>2. TailTypes /\ ForwardsInv
    BY DEF TailInv
  <1>3. /\ o \in Nat /\ file \in Seq(Byte) /\ o < Len(file) /\ (o = 0 \/ file[o] = Nl)
        /\ s \in Seq(Nat) /\ s # <<>> /\ 1 \in DOMAIN s /\ s[1] = o
    BY LineStartsAt
  <1>4. /\ NewlinesBefore(file, o) + 1 \in 1 .. Len(all)
        /\ all[NewlinesBefore(file, o) + 1] = LineAt(file, o)
    BY <1>3, LineOf
  <1>5. all \in Seq(Seq(Byte)) /\ Len(all) \in Nat
    BY <1>3, LinesAre
  <1>6. l \in Seq(Byte)
    BY <1>4, <1>5, ElementOfSeq
  <1>7. seen \in Seq(Seq(Byte)) /\ call.n \in Nat
    BY CallIs DEF CallTypes
  <1>8. /\ seen' \in Seq(Seq(Byte)) /\ Len(seen') = Len(seen) + 1 /\ Len(seen) \in Nat
        /\ \A i \in DOMAIN seen' : \/ i \in DOMAIN seen /\ seen'[i] = seen[i]
                                   \/ i = Len(seen) + 1 /\ seen'[i] = l
    BY <1>1, <1>6, <1>7, OneMore
  <1>9. seen' # <<>>
    BY <1>8
  <1>10. /\ t \in Seq(Nat) /\ Len(t) = Len(s) - 1 /\ Len(s) \in Nat \ {0} /\ DOMAIN t = 1 .. Len(s) - 1
         /\ DOMAIN s = 1 .. Len(s)
         /\ \A i \in 1 .. Len(s) - 1 : t[i] = s[i + 1] /\ i + 1 \in 1 .. Len(s)
    BY <1>3
  <1>11. CallTypes'
    BY <1>1, <1>8 DEF CallTypes, Answered, Rejected, NothingAsked
  <1>12. TailTypes'
    BY <1>1, <1>2, <1>10 DEF TailTypes
  <1>13. BackwardsInv' /\ LineInv'
    BY <1>1 DEF BackwardsInv, LineInv
  <1> HIDE DEF o, s, t, all
  <1>14. ForwardsInv'
    <2>1. /\ Len(s) <= call.n
          /\ \A i \in DOMAIN s : s[i] \in StartsOf(file)
          /\ \A i, j \in DOMAIN s : i < j => s[i] < s[j]
      BY <1>2 DEF ForwardsInv, s
    <2>2. Len(t) <= call.n
      BY <1>7, <1>10, <2>1
    <2>3. \A i \in DOMAIN t : t[i] \in StartsOf(file)
      BY <1>10, <2>1
    <2>4. \A i, j \in DOMAIN t : i < j => t[i] < t[j]
      <3> SUFFICES ASSUME NEW i \in 1 .. Len(s) - 1, NEW j \in 1 .. Len(s) - 1, i < j
                   PROVE  t[i] < t[j]
        BY <1>10
      <3>1. i + 1 < j + 1
        BY <1>10
      <3>2. s[i + 1] < s[j + 1]
        BY <1>10, <2>1, <3>1
      <3> QED
        BY <1>10, <3>2
    <2>5. ASSUME ~LosesALine
          PROVE  /\ Len(seen') + Len(t) = ToRead
                 /\ \A i \in DOMAIN t : NewlinesBefore(file, t[i]) = Total - Len(t) + i - 1
                 /\ \A i \in DOMAIN seen' : seen'[i] = all[Total - ToRead + i]
      <3>1. /\ Len(seen) + Len(s) = ToRead
            /\ \A i \in DOMAIN s : NewlinesBefore(file, s[i]) = Total - Len(s) + i - 1
            /\ \A i \in DOMAIN seen : seen[i] = all[Total - ToRead + i]
        BY <1>2, <2>5 DEF ForwardsInv, s, all
      <3>2. Total \in Nat /\ Total = Len(all)
        BY <1>5 DEF Total, all
      <3>3. Len(seen') + Len(t) = ToRead
        BY <1>8, <1>10, <3>1
      <3>4. ASSUME NEW i \in 1 .. Len(s) - 1
            PROVE  NewlinesBefore(file, t[i]) = Total - Len(t) + i - 1
        <4>1. NewlinesBefore(file, s[i + 1]) = Total - Len(s) + (i + 1) - 1
          BY <1>10, <3>1
        <4>2. Total - Len(s) + (i + 1) - 1 = Total - Len(t) + i - 1
          BY <1>10, <3>2
        <4> QED
          BY <1>10, <4>1, <4>2
      <3>5. l = all[Total - ToRead + (Len(seen) + 1)]
        <4>1. NewlinesBefore(file, o) = Total - Len(s) + 1 - 1
          BY <1>3, <3>1
        <4>2. NewlinesBefore(file, o) + 1 = Total - ToRead + (Len(seen) + 1)
          <5>1. ToRead = Len(seen) + Len(s)
            BY <3>1
          <5> QED
            BY <1>8, <1>10, <3>2, <4>1, <5>1
        <4> QED
          BY <1>4, <4>2 DEF o
      <3>6. \A i \in DOMAIN seen' : seen'[i] = all[Total - ToRead + i]
        BY <1>8, <3>1, <3>5
      <3> QED
        BY <1>10, <3>3, <3>4, <3>6
    <2>6. Total' = Total /\ ToRead' = ToRead /\ (LosesALine' <=> LosesALine)
      BY DEF Total, ToRead, LosesALine
    <2>7. file' = file /\ call'.n = call.n /\ lineStarts' = t /\ Lines(file') = all
      BY <1>1 DEF all, t
    <2> QED
      BY <1>9, <2>2, <2>3, <2>4, <2>5, <2>6, <2>7 DEF ForwardsInv
  <1>15. AnswerIsExact' /\ RefusedForCause'
    <2>1. answer' = Running
      BY DEF CallTypes
    <2> QED
      BY <2>1, RunningKeeps
  <1> QED
    BY <1>11, <1>12, <1>13, <1>14, <1>15 DEF TailInv

(* it goes on through blocks until its newline,                              *)
LEMMA ReadLinePartKeeps ==
    ASSUME CallTypes, TailInv, call.api = "tail", ReadLinePart
    PROVE  CallTypes' /\ TailInv' /\ AnswerIsExact' /\ RefusedForCause'
  <1> DEFINE o == Head(lineStarts)
             t == offset
             nls(b) == NewlinesIn(b, 0, Len(b))
  <1>1. PICK block \in Got(Block) :
            /\ offset' = offset + Len(block)
            /\ IF nls(block) = {}
               THEN line' = line \o block /\ seen' = seen /\ lineStarts' = lineStarts /\ pc' = pc
               ELSE /\ LineDone(line \o SubSeq(block, 1, Min(nls(block)) - 1))
                    /\ line' = line
    BY DEF ReadLinePart
  <1>2. /\ pc = "lines" /\ file' = file /\ call' = call /\ answer' = answer /\ failed' = failed
        /\ pos' = pos /\ endsWithNl' = endsWithNl
    BY DEF ReadLinePart
  <1>3. PICK k \in Nat \ {0} :
            /\ offset + k <= Len(file) /\ block = SubSeq(file, offset + 1, offset + k)
            /\ Len(block) = k /\ block \in Seq(Byte)
    BY GotIs
  <1>4. /\ o \in Nat /\ t \in Nat /\ o <= t /\ t <= Len(file)
        /\ file \in Seq(Byte) /\ Len(file) \in Nat
        /\ line = SubSeq(file, o + 1, t) /\ NewlinesIn(file, o, t) = {}
    BY <1>2, LineStartsAt
  <1> DEFINE e == offset + k
  <1>5. e \in Nat /\ t <= e /\ e <= Len(file) /\ o <= e /\ e \in 0 .. Len(file)
    BY <1>3, <1>4
  <1>6. offset' = e /\ block = SubSeq(file, t + 1, e)
    BY <1>1, <1>3
  <1> HIDE DEF e, o, t
  <1>7. Begins(file, o, t, e)
    BY <1>4, <1>5 DEF Begins
  <1>8. line \in Seq(Byte) /\ TailTypes
    BY <1>2 DEF TailInv, TailTypes
  <1>9. CASE nls(block) = {}
    <2>1. line' = line \o block /\ seen' = seen /\ lineStarts' = lineStarts /\ pc' = pc
      BY <1>1, <1>9
    <2>2. GoesOn(file, o, t, e, block)
      BY <1>6, <1>7, <1>9, LineGoesOn
    <2>3. line' = SubSeq(file, o + 1, e) /\ NewlinesIn(file, o, e) = {}
      BY <1>4, <2>1, <2>2 DEF GoesOn
    <2>4. CallTypes'
      BY <1>2, <1>5, <1>6, <2>1 DEF CallTypes, Answered, Rejected, NothingAsked
    <2>5. TailTypes'
      <3>1. line' \in Seq(Byte)
        BY <1>3, <1>8, <2>1
      <3> QED
        BY <1>2, <1>8, <2>1, <3>1 DEF TailTypes
    <2>6. BackwardsInv'
      BY <1>2, <2>1 DEF BackwardsInv
    <2>7. ForwardsInv'
      <3>1. ForwardsInv
        BY <1>2 DEF TailInv
      <3> QED
        BY <1>2, <2>1, <3>1 DEF ForwardsInv, ToRead, Total, LosesALine
    <2>8. LineInv'
      <3>1. lineStarts # <<>>
        BY <1>2 DEF TailInv, LineInv
      <3>2. Head(lineStarts') = o
        BY <2>1 DEF o
      <3> QED
        BY <1>2, <1>5, <1>6, <2>1, <2>3, <3>1, <3>2 DEF LineInv
    <2>9. AnswerIsExact' /\ RefusedForCause'
      <3>1. answer' = Running
        BY <1>2 DEF CallTypes
      <3> QED
        BY <3>1, RunningKeeps
    <2> QED
      BY <2>4, <2>5, <2>6, <2>7, <2>8, <2>9 DEF TailInv
  <1>10. CASE nls(block) # {}
    <2> DEFINE p == Min(nls(block))
               l == line \o SubSeq(block, 1, p - 1)
    <2>1. LineDone(l) /\ line' = line
      BY <1>1, <1>10
    <2>2. FirstNl(block, p)
      <3>1. nls(block) \in SUBSET Int /\ IsFiniteSet(nls(block))
            /\ \A i : i \in nls(block) <=> i \in 1 .. Len(block) /\ block[i] = Nl
        BY <1>3, FirstNewlines
      <3>2. p \in nls(block) /\ \A i \in nls(block) : p <= i
        BY <1>10, <3>1, LeastIs
      <3>3. NewlinesIn(block, 0, p - 1) = {}
        <4> SUFFICES ASSUME NEW i \in NewlinesIn(block, 0, p - 1) PROVE FALSE
          OBVIOUS
        <4>1. p \in 1 .. k
          BY <1>3, <3>1, <3>2
        <4>2. i \in 0 + 1 .. p - 1 /\ block[i] = Nl
          BY DEF NewlinesIn
        <4> HIDE DEF p
        <4>3. i \in 1 .. k /\ i < p /\ i \in Int
          BY <1>3, <4>1, <4>2
        <4>4. i \in nls(block)
          BY <1>3, <3>1, <4>2, <4>3
        <4>5. p <= i
          BY <3>2, <4>4
        <4> QED
          BY <4>1, <4>3, <4>5
      <3> QED
        BY <3>2, <3>3 DEF FirstNl
    <2> HIDE DEF p
    <2>3. CutOut(file, o, t, e, p)
      <3>1. FirstNl(SubSeq(file, t + 1, e), p)
        BY <1>6, <2>2
      <3> QED
        BY <1>7, <3>1, LineCutOut
    <2>4. l = LineAt(file, o)
      BY <1>4, <1>6, <2>3 DEF CutOut
    <2> HIDE DEF l
    <2>5. l = LineAt(file, Head(lineStarts))
      BY <2>4 DEF o
    <2>6. offset' \in 0 .. Len(file) /\ line' \in Seq(Byte)
      BY <1>5, <1>6, <1>8, <2>1
    <2> QED
      BY <1>2, <2>1, <2>5, <2>6, LineDoneKeeps
  <1> QED
    BY <1>9, <1>10

(* or the end of the file;                                                   *)
LEMMA LineAtEndKeeps ==
    ASSUME CallTypes, TailInv, call.api = "tail", LineAtEnd
    PROVE  CallTypes' /\ TailInv' /\ AnswerIsExact' /\ RefusedForCause'
  <1> DEFINE o == Head(lineStarts)
  <1>1. /\ pc = "lines" /\ offset = Len(file) /\ LineDone(line)
        /\ file' = file /\ call' = call /\ offset' = offset /\ answer' = answer /\ failed' = failed
        /\ pos' = pos /\ endsWithNl' = endsWithNl /\ line' = line
    BY DEF LineAtEnd
  <1>2. /\ o \in Nat /\ offset \in Nat /\ o <= offset /\ offset <= Len(file)
        /\ file \in Seq(Byte)
        /\ line = SubSeq(file, o + 1, offset) /\ NewlinesIn(file, o, offset) = {}
    BY <1>1, LineStartsAt
  <1> HIDE DEF o
  <1>3. line = LineAt(file, o)
    BY <1>1, <1>2, BeginningIs
  <1>4. line' \in Seq(Byte) /\ offset' \in 0 .. Len(file)
    BY <1>1 DEF TailInv, TailTypes, CallTypes
  <1> QED
    BY <1>1, <1>3, <1>4, LineDoneKeeps DEF o

(* the answer is the last n lines.                                           *)
LEMMA TailAnswersKeeps ==
    ASSUME CallTypes, TailInv, call.api = "tail", TailAnswers
    PROVE  CallTypes' /\ TailInv' /\ AnswerIsExact' /\ RefusedForCause'
  <1> DEFINE all == Lines(file)
             n == call.n
             a == Total - ToRead
  <1>1. /\ pc = "seek" /\ lineStarts = <<>> /\ pc' = "done" /\ answer' = Ok(seen)
        /\ file' = file /\ call' = call /\ offset' = offset /\ seen' = seen /\ failed' = failed
    BY DEF TailAnswers, Finish
  <1>2. CallTypes'
    BY <1>1 DEF CallTypes, Answered, Rejected, NothingAsked
  <1>3. TailInv'
    BY <1>1 DEF TailInv
  <1>4. /\ file \in Seq(Byte) /\ seen \in Seq(Seq(Byte)) /\ n \in Nat /\ Len(seen) \in Nat
    BY CallIs DEF CallTypes
  <1>5. all \in Seq(Seq(Byte)) /\ Total \in Nat /\ Total = Len(all)
    BY <1>4, LinesAre DEF Total
  <1>6. Promised(call, file) = Ok(SubSeq(all, Max({1, Len(all) - n + 1}), Len(all)))
    BY DEF Promised
  <1>7. ASSUME ~LosesALine
        PROVE  Len(seen) = ToRead /\ \A i \in DOMAIN seen : seen[i] = all[Total - ToRead + i]
    <2>1. ForwardsInv
      BY <1>1 DEF TailInv
    <2>2. Len(seen) + Len(lineStarts) = ToRead /\ Len(lineStarts) = 0
      BY <1>1, <1>7, <2>1 DEF ForwardsInv
    <2>3. \A i \in DOMAIN seen : seen[i] = all[Total - ToRead + i]
      BY <1>1, <1>7, <2>1 DEF ForwardsInv
    <2> QED
      BY <1>4, <2>2, <2>3
  <1> HIDE DEF all, n
  <1>8. a \in Nat /\ a <= Total /\ Max({1, Total - n + 1}) = a + 1 /\ ToRead = Total - a
    <2> DEFINE k == Total - n + 1
    <2>1. k \in Int /\ 1 \in Int
      BY <1>4, <1>5
    <2>2. Max({1, k}) = IF 1 >= k THEN 1 ELSE k
      BY <2>1, GreaterIs
    <2>3. ToRead = IF n <= Total THEN n ELSE Total
      <3>1. n \in Int /\ Total \in Int
        BY <1>4, <1>5
      <3>2. Min({n, Total}) = IF n <= Total THEN n ELSE Total
        BY <3>1, LesserIs
      <3> QED
        BY <3>2 DEF ToRead, n
    <2>4. CASE n <= Total
      <3>1. ToRead = n /\ a = Total - n
        BY <2>3, <2>4
      <3>2. k >= 1 /\ k = a + 1
        BY <1>4, <1>5, <2>4, <3>1
      <3>3. Max({1, k}) = k
        <4>1. 1 >= k => k = 1
          BY <2>1, <3>2
        <4> QED
          BY <2>2, <4>1
      <3>4. a \in Nat /\ a <= Total /\ ToRead = Total - a
        BY <1>4, <1>5, <2>4, <3>1
      <3> QED
        BY <3>2, <3>3, <3>4
    <2>5. CASE ~(n <= Total)
      <3>1. ToRead = Total /\ a = 0
        BY <1>5, <2>3, <2>5
      <3>2. 1 >= k
        BY <1>4, <1>5, <2>5
      <3>3. Max({1, k}) = 1
        BY <2>2, <3>2
      <3>4. a \in Nat /\ a <= Total /\ ToRead = Total - a /\ a + 1 = 1
        BY <1>5, <3>1
      <3> QED
        BY <3>3, <3>4
    <2> QED
      BY <2>4, <2>5
  <1>9. ASSUME ~LosesALine PROVE Promised(call, file) = Ok(seen)
    <2>1. Len(seen) = Total - a /\ \A i \in 1 .. Total - a : seen[i] = all[a + i]
      <3>1. DOMAIN seen = 1 .. Len(seen)
        BY <1>4
      <3> QED
        BY <1>7, <1>8, <1>9, <3>1
    <2> HIDE DEF a
    <2>2. a <= Len(all) /\ Total <= Len(all)
      BY <1>5, <1>8
    <2>3. seen = SubSeq(all, a + 1, Total)
      BY <1>4, <1>5, <1>8, <2>1, <2>2, PartOnly
    <2> QED
      BY <1>5, <1>6, <1>8, <2>3
  <1>10. Kept(Ok(seen))
    <2>1. Ok(seen) # Refused
      BY DEF Ok, Refused
    <2> QED
      BY <1>9, <2>1 DEF Kept
  <1>11. AnswerIsExact' /\ RefusedForCause'
    BY <1>1, <1>10, FinishKeeps
  <1> QED
    BY <1>2, <1>3, <1>11

(* ------------------------------- the call -------------------------------- *)

(* The invariant holds at first,                                             *)
LEMMA Starting ==
    ASSUME Init
    PROVE  Inv
  <1>1. PICK f \in Files, c \in Calls : StartWith(f, c)
    BY DEF Init
  <1>2. /\ file = f /\ call = c /\ pc = "open" /\ offset = 0 /\ seen = <<>>
        /\ answer = Running /\ failed = FALSE
    BY <1>1 DEF StartWith
  <1>3. file \in Seq(Byte) /\ Len(file) \in Nat
    BY <1>2 DEF Files
  <1>4. /\ chunk = <<>> /\ overflow = <<>> /\ eof = FALSE /\ error = FALSE /\ tailReturned = FALSE
        /\ count = 0 /\ lastByte = Nl
        /\ pos = 0 /\ lineStarts = <<>> /\ endsWithNl = FALSE /\ line = <<>>
    BY DEF Init, ReaderIdle, CountIdle, TailIdle
  <1>5. CallTypes
    <2>1. 0 \in 0 .. Len(file) /\ <<>> \in Seq(Seq(Byte))
      BY <1>3
    <2> QED
      BY <1>2, <1>3, <2>1 DEF CallTypes
  <1>6. NewlinesBefore(file, 0) = 0 /\ NewlinesIn(file, 0, 0) = {}
    BY NoneBeforeTheFirst
  <1>7. Taken = 0 /\ LineStart = 0 /\ Begun = <<>>
    <2>1. Begun = <<>>
      BY <1>4 DEF Begun
    <2>2. Len(chunk) = 0 /\ Len(Begun) = 0
      BY <1>4, <2>1
    <2>3. Taken = 0
      BY <1>2, <2>2 DEF Taken
    <2>4. LineStart = Taken - Len(Begun)
      BY DEF LineStart
    <2>5. LineStart = 0 - 0
      BY <2>2, <2>3, <2>4
    <2> QED
      BY <2>1, <2>3, <2>5
  <1>8. ReaderInv
    <2>1. ReaderTypes
      <3>1. <<>> \in Seq(Byte) /\ FALSE \in BOOLEAN
        OBVIOUS
      <3>2. chunk \in Seq(Byte) /\ overflow \in Seq(Byte)
        BY <1>4, <3>1
      <3>3. eof \in BOOLEAN /\ error \in BOOLEAN /\ tailReturned \in BOOLEAN
        BY <1>4, <3>1
      <3> QED
        BY <3>2, <3>3 DEF ReaderTypes
    <2>2. SubSeq(file, 0 + 1, 0) = <<>>
      BY <1>3
    <2>3. BytesInv
      BY <1>2, <1>4, <1>6, <1>7, <2>2 DEF BytesInv
    <2>4. Len(seen) = 0 /\ DOMAIN seen = {}
      BY <1>2
    <2>5. BetweenLines
      BY <1>6, <1>7, <2>4 DEF BetweenLines
    <2>6. LoopInv
      <3>1. call.n \in Nat
        BY <1>5, CallIs
      <3> QED
        BY <1>2, <2>4, <3>1 DEF LoopInv, NotTooMany
    <2> QED
      BY <2>1, <2>3, <2>5, <2>6 DEF ReaderInv
  <1>9. CountInv
    BY <1>2, <1>4, <1>6 DEF CountInv
  <1>10. TailInv
    <2>1. TailTypes
      <3>1. 0 \in 0 .. Len(file)
        BY <1>3
      <3> QED
        BY <1>2, <1>4, <3>1 DEF TailTypes
    <2> QED
      BY <1>2, <2>1 DEF TailInv, BackwardsInv, ForwardsInv, LineInv
  <1>11. AnswerIsExact /\ RefusedForCause
    BY <1>2 DEF AnswerIsExact, RefusedForCause, Succeeded, Running, Refused
  <1>12. OnlyTheLastIsCut
    <2>1. DOMAIN seen = {}
      BY <1>2
    <2> QED
      BY <2>1 DEF OnlyTheLastIsCut
  <1> QED
    BY <1>5, <1>8, <1>9, <1>10, <1>11, <1>12 DEF Inv

(* when nothing happens,                                                     *)
LEMMA NothingHappens ==
    ASSUME Inv, UNCHANGED vars
    PROVE  Inv'
  <1>1. /\ file' = file /\ call' = call /\ pc' = pc /\ offset' = offset /\ seen' = seen
        /\ answer' = answer /\ failed' = failed
        /\ chunk' = chunk /\ overflow' = overflow /\ eof' = eof /\ error' = error
        /\ tailReturned' = tailReturned
        /\ count' = count /\ lastByte' = lastByte
        /\ pos' = pos /\ lineStarts' = lineStarts /\ endsWithNl' = endsWithNl /\ line' = line
    BY DEF vars, callVars, readerVars, countVars, tailVars
  <1>2. CallTypes'
    BY <1>1 DEF Inv, CallTypes, Answered, Rejected, NothingAsked
  <1>3. Begun' = Begun
    BY <1>1 DEF Begun
  <1>4. Taken' = Taken /\ LineStart' = LineStart
    BY <1>1, <1>3, SamePlace
  <1>5. ReaderInv'
    <2>1. ReaderTypes => ReaderTypes'
      BY <1>1 DEF ReaderTypes
    <2>2. BytesInv => BytesInv'
      BY <1>1, <1>3, <1>4 DEF BytesInv
    <2>3. BetweenLines => BetweenLines'
      BY <1>1, <1>4 DEF BetweenLines, IsLine
    <2>4. BehindTheLast => BehindTheLast'
      BY <1>1, <1>3 DEF BehindTheLast, IsLine
    <2>5. LoopInv => LoopInv'
      BY <1>1 DEF LoopInv, NotTooMany, WantsMore
    <2> QED
      BY <1>1, <2>1, <2>2, <2>3, <2>4, <2>5 DEF Inv, ReaderInv
  <1>6. CountInv'
    BY <1>1 DEF Inv, CountInv
  <1>7. TailInv'
    <2>1. TailTypes => TailTypes'
      BY <1>1 DEF TailTypes
    <2>2. Total' = Total /\ ToRead' = ToRead /\ (LosesALine' <=> LosesALine)
      BY <1>1 DEF Total, ToRead, LosesALine
    <2>3. BackwardsInv => BackwardsInv'
      BY <1>1, <2>2 DEF BackwardsInv
    <2>4. ForwardsInv => ForwardsInv'
      BY <1>1, <2>2 DEF ForwardsInv
    <2>5. LineInv => LineInv'
      BY <1>1 DEF LineInv
    <2> QED
      BY <1>1, <2>1, <2>3, <2>4, <2>5 DEF Inv, TailInv
  <1>8. AnswerIsExact' /\ RefusedForCause' /\ OnlyTheLastIsCut'
    BY <1>1 DEF Inv, AnswerIsExact, RefusedForCause, OnlyTheLastIsCut, Succeeded, ChecksError,
                LosesALine, IsLine
  <1> QED
    BY <1>2, <1>5, <1>6, <1>7, <1>8 DEF Inv

(* While the reader's loop runs its caller has been given whole lines.      *)
LEMMA ReaderKeeps ==
    ASSUME CallTypes', ReaderInv', call'.api \in ReaderApis, pc' # "done"
    PROVE  OnlyTheLastIsCut' /\ AnswerIsExact' /\ RefusedForCause'
  <1>1. BetweenLines' \/ BehindTheLast'
    BY DEF ReaderInv
  <1>2. OnlyTheLastIsCut'
    BY <1>1 DEF OnlyTheLastIsCut, BetweenLines, BehindTheLast
  <1>3. answer' = Running
    BY DEF CallTypes
  <1> QED
    BY <1>2, <1>3, RunningKeeps

(* and after every step.                                                     *)
LEMMA EveryStep ==
    ASSUME Inv, Next
    PROVE  Inv'
  <1>1. CallTypes /\ ReaderInv /\ CountInv /\ TailInv /\ OnlyTheLastIsCut
    BY DEF Inv
  <1>2. CASE AnswerAtOnce \/ OpenFails
    <2>1. /\ CallTypes' /\ ReaderInv' /\ CountInv' /\ TailInv' /\ OnlyTheLastIsCut'
          /\ AnswerIsExact' /\ RefusedForCause'
      BY <1>1, <1>2, AnswerAtOnceKeeps, OpenFailsKeeps
    <2> QED
      BY <2>1 DEF Inv
  <1>3. CASE call.api \in ReaderApis /\ ReaderNext
    <2>1. call' = call /\ call.api # "lineCount" /\ call.api # "tail"
      BY <1>3 DEF ReaderNext, ReaderApis, Open, Next_, Answers, AnswerReadLine, AnswerReadLines,
                  AnswerReadAllLines, AnswerHead, AnswerForEachLine, Answer, FoundNl, Keep,
                  AtEof, Read, ReadEnd, ReadError
    <2>2. CountInv' /\ TailInv'
      BY <2>1 DEF CountInv, TailInv
    <2>3. CASE Answers
      <3>1. /\ CallTypes' /\ ReaderInv' /\ OnlyTheLastIsCut'
            /\ AnswerIsExact' /\ RefusedForCause'
        BY <1>1, <1>3, <2>3, AnswerReadLineKeeps, AnswerReadLinesKeeps, AnswerReadAllLinesKeeps,
           AnswerHeadKeeps, AnswerForEachLineKeeps DEF Answers
      <3> QED
        BY <2>2, <3>1 DEF Inv
    <2>4. CASE Open \/ Next_ \/ FoundNl \/ Keep \/ AtEof \/ Read \/ ReadEnd \/ ReadError
      <3>1. CallTypes' /\ ReaderInv'
        BY <1>1, <1>3, <2>4, OpenKeeps, NextKeeps, FoundNlKeeps, KeepKeeps, AtEofKeeps, ReadKeeps,
           ReadEndKeeps, ReadErrorKeeps
      <3>2. pc' # "done"
        BY <2>4 DEF Open, Next_, FoundNl, Keep, AtEof, Read, ReadEnd, ReadError, Give
      <3>3. OnlyTheLastIsCut' /\ AnswerIsExact' /\ RefusedForCause'
        BY <1>3, <2>1, <3>1, <3>2, ReaderKeeps
      <3> QED
        BY <2>2, <3>1, <3>3 DEF Inv
    <2> QED
      BY <1>3, <2>3, <2>4 DEF ReaderNext
  <1>4. CASE call.api = "lineCount" /\ CountNext
    <2>1. call' = call
      BY <1>4 DEF CountNext, CountOpen, CountBlock, CountReadFails, CountEnd
    <2>2. CallTypes' /\ CountInv' /\ AnswerIsExact' /\ RefusedForCause'
      BY <1>1, <1>4, CountOpenKeeps, CountBlockKeeps, CountReadFailsKeeps, CountEndKeeps
         DEF CountNext
    <2>3. ReaderInv' /\ TailInv' /\ OnlyTheLastIsCut'
      BY <1>4, <2>1 DEF ReaderInv, TailInv, OnlyTheLastIsCut, ReaderApis
    <2> QED
      BY <2>2, <2>3 DEF Inv
  <1>5. CASE call.api = "tail" /\ TailNext
    <2>1. call' = call
      BY <1>5 DEF TailNext, TailOpen, TailFails, ScanBlock, OrderStarts, SeekLine, ReadLinePart,
                  LineAtEnd, TailAnswers
    <2>2. CallTypes' /\ TailInv' /\ AnswerIsExact' /\ RefusedForCause'
      BY <1>1, <1>5, TailOpenKeeps, TailFailsKeeps, ScanBlockKeeps, OrderStartsKeeps,
         SeekLineKeeps, ReadLinePartKeeps, LineAtEndKeeps, TailAnswersKeeps DEF TailNext
    <2>3. ReaderInv' /\ CountInv' /\ OnlyTheLastIsCut'
      BY <1>5, <2>1 DEF ReaderInv, CountInv, OnlyTheLastIsCut, ReaderApis
    <2> QED
      BY <2>2, <2>3 DEF Inv
  <1> QED
    BY <1>2, <1>3, <1>4, <1>5 DEF Next

(* Where the reader, the counter or the scan is in the file, at every step.  *)
THEOREM ReadingInvariant == Spec => []Inv
  <1>1. Init => Inv
    BY Starting
  <1>2. Inv /\ [Next]_vars => Inv'
    BY EveryStep, NothingHappens
  <1> QED
    BY <1>1, <1>2, PTL DEF Spec

(* A call of the line-reading API that succeeds has answered with exactly    *)
(* the lines docs/api.md promises, for every file, every block size and      *)
(* every way the reads cut it (file_read.cpp, internal.h:166-258).           *)
THEOREM AnswersAreExact == Spec => []AnswerIsExact
  <1>1. Inv => AnswerIsExact
    BY DEF Inv
  <1> QED
    BY <1>1, ReadingInvariant, PTL

(* No line the file has is ever refused.                                    *)
THEOREM RefusalsHaveACause == Spec => []RefusedForCause
  <1>1. Inv => RefusedForCause
    BY DEF Inv
  <1> QED
    BY <1>1, ReadingInvariant, PTL

(* What the streaming reader hands out is a line of the file, in its place;  *)
(* only after a read error the last one may be cut.                          *)
THEOREM LinesAreWhole == Spec => []OnlyTheLastIsCut
  <1>1. Inv => OnlyTheLastIsCut
    BY DEF Inv
  <1> QED
    BY <1>1, ReadingInvariant, PTL

(* The backward scan of tail finds starts of lines only, in order, at least  *)
(* one and at most as many as were asked for, even where it loses one.       *)
THEOREM ScanFindsStarts == Spec => []StartsAreLines
  <1>1. Inv => StartsAreLines
    <2> SUFFICES ASSUME Inv, call.api = "tail", pc = "seek", seen = <<>>
                 PROVE  /\ ToSet(lineStarts) \subseteq StartsOf(file)
                        /\ \A i, j \in DOMAIN lineStarts : i < j => lineStarts[i] < lineStarts[j]
                        /\ Len(lineStarts) \in 1 .. call.n
      BY DEF StartsAreLines
    <2>1. TailTypes /\ ForwardsInv /\ CallTypes
      BY DEF Inv, TailInv
    <2>2. /\ Len(lineStarts) <= call.n /\ lineStarts # <<>>
          /\ \A i \in DOMAIN lineStarts : lineStarts[i] \in StartsOf(file)
          /\ \A i, j \in DOMAIN lineStarts : i < j => lineStarts[i] < lineStarts[j]
      BY <2>1 DEF ForwardsInv
    <2>3. ToSet(lineStarts) \subseteq StartsOf(file)
      BY <2>2 DEF ToSet
    <2>4. Len(lineStarts) \in 1 .. call.n
      <3>1. lineStarts \in Seq(Nat) /\ call.n \in Nat
        BY <2>1, CallIs DEF TailTypes
      <3> QED
        BY <2>2, <3>1
    <2> QED
      BY <2>2, <2>3, <2>4
  <1> QED
    BY <1>1, ReadingInvariant, PTL
=============================================================================
