---------------------------- MODULE LinesProofs ----------------------------
(* What the proofs about lines need: sets of numbers in their order, the     *)
(* newlines of a file and of its parts, and which line starts where.        *)
EXTENDS Lines, FiniteSetTheorems, FunctionTheorems, SequenceTheorems, TLAPS

(* ------------------------- numbers in their order ----------------------- *)

(* The members below another are finitely many.                              *)
LEMMA BelowIsFinite ==
    ASSUME NEW S \in SUBSET Int, IsFiniteSet(S), NEW e
    PROVE  /\ Below(S, e) \in SUBSET S /\ IsFiniteSet(Below(S, e))
           /\ Cardinality(Below(S, e)) \in Nat
  <1>1. Below(S, e) \in SUBSET S
    BY DEF Below
  <1> QED
    BY <1>1, FS_Subset, FS_CardinalityType

(* The number of elements below one tells it from every other.              *)
LEMMA BelowGrows ==
    ASSUME NEW S \in SUBSET Int, IsFiniteSet(S), NEW d \in S, NEW e \in S, d < e
    PROVE  Cardinality(Below(S, d)) < Cardinality(Below(S, e))
  <1>0. d \in Int /\ e \in Int /\ \A c \in S : c \in Int
    OBVIOUS
  <1>1. Below(S, d) \in SUBSET Below(S, e) /\ d \in Below(S, e) /\ d \notin Below(S, d)
    <2>1. \A c \in Below(S, d) : c \in S /\ c < d
      BY DEF Below
    <2>2. ASSUME NEW c \in Below(S, d) PROVE c \in S /\ c < e
      <3>1. c \in Int /\ c \in S /\ c < d
        BY <1>0, <2>1
      <3> QED
        BY <1>0, <3>1
    <2>3. \A c \in Below(S, d) : c \in Below(S, e)
      BY <2>2 DEF Below
    <2>4. d \in Below(S, e) /\ d \notin Below(S, d)
      BY <1>0 DEF Below
    <2> QED
      BY <2>3, <2>4
  <1>2. /\ IsFiniteSet(Below(S, e)) /\ Cardinality(Below(S, d)) \in Nat
        /\ Cardinality(Below(S, e)) \in Nat
    BY BelowIsFinite
  <1>3. Cardinality(Below(S, d)) <= Cardinality(Below(S, e))
    BY <1>1, <1>2, FS_Subset
  <1>4. Cardinality(Below(S, d)) # Cardinality(Below(S, e))
    BY <1>1, <1>2, FS_Subset
  <1> QED
    BY <1>2, <1>3, <1>4

(* Below a member there are fewer than all.                                  *)
LEMMA BelowIsLess ==
    ASSUME NEW S \in SUBSET Int, IsFiniteSet(S), NEW e \in S
    PROVE  Cardinality(Below(S, e)) \in 0 .. Cardinality(S) - 1
  <1>1. Below(S, e) \in SUBSET S /\ e \notin Below(S, e)
    BY DEF Below
  <1>2. Cardinality(Below(S, e)) \in Nat /\ Cardinality(S) \in Nat
    BY BelowIsFinite, FS_CardinalityType
  <1>3. Cardinality(Below(S, e)) <= Cardinality(S)
    BY <1>1, FS_Subset
  <1>4. Cardinality(Below(S, e)) # Cardinality(S)
    BY <1>1, FS_Subset
  <1> QED
    BY <1>2, <1>3, <1>4

(* For every number below its cardinality a set has an element with as many *)
(* below it.                                                                 *)
LEMMA EveryRankIsTaken ==
    ASSUME NEW S \in SUBSET Int, IsFiniteSet(S), NEW k \in 0 .. Cardinality(S) - 1
    PROVE  \E e \in S : Cardinality(Below(S, e)) = k
  <1> DEFINE n == Cardinality(S)
             T == 0 .. n - 1
             f == [e \in S |-> Cardinality(Below(S, e))]
  <1>1. n \in Nat
    BY FS_CardinalityType
  <1>2. IsFiniteSet(T) /\ Cardinality(T) = n
    BY <1>1, FS_Interval
  <1>3. f \in Injection(S, T)
    <2>1. f \in [S -> T]
      BY BelowIsLess
    <2>2. ASSUME NEW d \in S, NEW e \in S, f[d] = f[e] PROVE d = e
      <3>1. f[d] = Cardinality(Below(S, d)) /\ f[e] = Cardinality(Below(S, e))
            /\ f[d] \in Nat /\ f[e] \in Nat
        BY BelowIsFinite
      <3>2. ~(d < e) /\ ~(e < d)
        BY <2>2, <3>1, BelowGrows
      <3> QED
        BY <3>2
    <2> QED
      BY <2>1, <2>2, Fun_IsInj
  <1>4. f \in Surjection(S, T)
    <2> HIDE DEF n, f, T
    <2>1. Cardinality(S) = Cardinality(T)
      BY <1>2 DEF n
    <2> QED
      BY <1>2, <1>3, <2>1, FS_Injection
  <1>5. \E e \in S : f[e] = k
    BY <1>4 DEF Surjection
  <1> QED
    BY <1>5

(* The members of a set in order: the i-th has i - 1 below it.               *)
LEMMA InOrderIs ==
    ASSUME NEW S \in SUBSET Int, IsFiniteSet(S)
    PROVE  /\ InOrder(S) \in Seq(S) /\ Len(InOrder(S)) = Cardinality(S)
           /\ DOMAIN InOrder(S) = 1 .. Cardinality(S)
           /\ \A i \in 1 .. Cardinality(S) :
                 InOrder(S)[i] \in S /\ Cardinality(Below(S, InOrder(S)[i])) = i - 1
  <1>1. Cardinality(S) \in Nat
    BY FS_CardinalityType
  <1>2. ASSUME NEW i \in 1 .. Cardinality(S)
        PROVE  InOrder(S)[i] \in S /\ Cardinality(Below(S, InOrder(S)[i])) = i - 1
    <2>1. InOrder(S)[i] = CHOOSE e \in S : Cardinality(Below(S, e)) = i - 1
      BY DEF InOrder
    <2>2. i - 1 \in 0 .. Cardinality(S) - 1
      BY <1>1
    <2>3. \E e \in S : Cardinality(Below(S, e)) = i - 1
      BY <2>2, EveryRankIsTaken
    <2> QED
      BY <2>1, <2>3
  <1>3. InOrder(S) \in [1 .. Cardinality(S) -> S]
    BY <1>2 DEF InOrder
  <1> QED
    BY <1>1, <1>2, <1>3

(* The place of an element in the order.                                    *)
LEMMA PlaceInOrder ==
    ASSUME NEW S \in SUBSET Int, IsFiniteSet(S), NEW e \in S
    PROVE  /\ Cardinality(Below(S, e)) + 1 \in 1 .. Cardinality(S)
           /\ InOrder(S)[Cardinality(Below(S, e)) + 1] = e
  <1> DEFINE i == Cardinality(Below(S, e)) + 1
  <1>1. i \in 1 .. Cardinality(S) /\ i - 1 = Cardinality(Below(S, e)) /\ i \in Nat
    BY BelowIsLess, BelowIsFinite, FS_CardinalityType
  <1> HIDE DEF i
  <1>2. InOrder(S)[i] \in S /\ Cardinality(Below(S, InOrder(S)[i])) = i - 1
    BY <1>1, InOrderIs
  <1> DEFINE d == InOrder(S)[i]
  <1> HIDE DEF d
  <1>3. d \in S /\ Cardinality(Below(S, d)) = Cardinality(Below(S, e))
    BY <1>1, <1>2 DEF d
  <1>4. ~(e < d) /\ ~(d < e)
    BY <1>3, BelowGrows, BelowIsFinite
  <1>5. d \in Int /\ e \in Int
    BY <1>3
  <1>6. d = e
    BY <1>4, <1>5
  <1> QED
    BY <1>1, <1>6 DEF i, d

(* They are in order.                                                        *)
LEMMA InOrderGrows ==
    ASSUME NEW S \in SUBSET Int, IsFiniteSet(S),
           NEW i \in 1 .. Cardinality(S), NEW j \in 1 .. Cardinality(S), i < j
    PROVE  InOrder(S)[i] < InOrder(S)[j]
  <1>1. /\ InOrder(S)[i] \in S /\ Cardinality(Below(S, InOrder(S)[i])) = i - 1
        /\ InOrder(S)[j] \in S /\ Cardinality(Below(S, InOrder(S)[j])) = j - 1
    BY InOrderIs
  <1>2. Cardinality(S) \in Nat
    BY FS_CardinalityType
  <1> DEFINE d == InOrder(S)[i]
             e == InOrder(S)[j]
  <1> HIDE DEF d, e
  <1>3. /\ d \in S /\ Cardinality(Below(S, d)) = i - 1 /\ d \in Int
        /\ e \in S /\ Cardinality(Below(S, e)) = j - 1 /\ e \in Int
    BY <1>1 DEF d, e
  <1>4. ~(e < d)
    BY <1>2, <1>3, BelowGrows
  <1>5. d # e
    BY <1>2, <1>3
  <1> QED
    BY <1>3, <1>4, <1>5 DEF d, e

(* A finite set of numbers has a least and a greatest element.              *)
LEMMA LeastIs ==
    ASSUME NEW S \in SUBSET Int, IsFiniteSet(S), S # {}
    PROVE  Min(S) \in S /\ \A e \in S : Min(S) <= e
  <1>1. Cardinality(S) \in Nat \ {0}
    BY FS_EmptySet, FS_CardinalityType
  <1>2. PICK least \in S : Cardinality(Below(S, least)) = 0
    BY <1>1, EveryRankIsTaken
  <1>3. Below(S, least) = {}
    BY <1>2, BelowIsFinite, FS_EmptySet
  <1>4. \A e \in S : least <= e
    BY <1>3 DEF Below
  <1> QED
    BY <1>4 DEF Min

(* The greatest member of a finite set of numbers.                           *)
LEMMA GreatestIs ==
    ASSUME NEW S \in SUBSET Int, IsFiniteSet(S), S # {}
    PROVE  Max(S) \in S /\ \A e \in S : e <= Max(S)
  <1>1. Cardinality(S) \in Nat \ {0}
    BY FS_EmptySet, FS_CardinalityType
  <1>2. PICK last \in S : Cardinality(Below(S, last)) = Cardinality(S) - 1
    BY <1>1, EveryRankIsTaken
  <1>3. ASSUME NEW e \in S, last < e PROVE FALSE
    <2>1. Cardinality(Below(S, last)) < Cardinality(Below(S, e))
      BY <1>3, BelowGrows
    <2> QED
      BY <1>1, <1>2, <2>1, BelowIsLess
  <1>4. \A e \in S : e <= last
    BY <1>3
  <1> QED
    BY <1>4 DEF Max

(* How many are below something that follows everything.                    *)
LEMMA SizeOfParts ==
    ASSUME NEW S \in SUBSET Int, IsFiniteSet(S), NEW T \in SUBSET S, NEW U \in SUBSET S,
           S = T \cup U, T \cap U = {}
    PROVE  /\ IsFiniteSet(T) /\ IsFiniteSet(U)
           /\ Cardinality(S) = Cardinality(T) + Cardinality(U)
           /\ Cardinality(T) \in Nat /\ Cardinality(U) \in Nat
  <1>1. IsFiniteSet(T) /\ IsFiniteSet(U)
    BY FS_Subset
  <1>2. Cardinality(T) \in Nat /\ Cardinality(U) \in Nat
    BY <1>1, FS_CardinalityType
  <1>3. Cardinality(T \cup U) = Cardinality(T) + Cardinality(U) - Cardinality(T \cap U)
    BY <1>1, FS_Union
  <1>4. Cardinality(T \cap U) = 0
    BY FS_EmptySet
  <1> QED
    BY <1>1, <1>2, <1>3, <1>4

(* ------------------------------- newlines ------------------------------- *)

(* The newlines between two positions, finitely many.                        *)
LEMMA NewlinesAre ==
    ASSUME NEW f, NEW lo \in Nat, NEW hi \in Nat
    PROVE  /\ NewlinesIn(f, lo, hi) \in SUBSET Int /\ NewlinesIn(f, lo, hi) \in SUBSET (lo + 1 .. hi)
           /\ IsFiniteSet(NewlinesIn(f, lo, hi))
           /\ Cardinality(NewlinesIn(f, lo, hi)) \in Nat
           /\ \A p : p \in NewlinesIn(f, lo, hi) <=> p \in lo + 1 .. hi /\ f[p] = Nl
  <1>1. NewlinesIn(f, lo, hi) \in SUBSET (lo + 1 .. hi)
    BY DEF NewlinesIn
  <1>2. IsFiniteSet(lo + 1 .. hi)
    BY FS_Interval
  <1>3. IsFiniteSet(NewlinesIn(f, lo, hi)) /\ Cardinality(NewlinesIn(f, lo, hi)) \in Nat
    BY <1>1, <1>2, FS_Subset, FS_CardinalityType
  <1>4. NewlinesIn(f, lo, hi) \in SUBSET Int
    BY <1>1
  <1> QED
    BY <1>1, <1>3, <1>4 DEF NewlinesIn

(* The newlines up to a position.                                            *)
LEMMA FirstNewlines ==
    ASSUME NEW f, NEW hi \in Nat
    PROVE  /\ NewlinesIn(f, 0, hi) \in SUBSET Int
           /\ IsFiniteSet(NewlinesIn(f, 0, hi))
           /\ Cardinality(NewlinesIn(f, 0, hi)) \in Nat
           /\ \A p : p \in NewlinesIn(f, 0, hi) <=> p \in 1 .. hi /\ f[p] = Nl
  <1>1. 0 \in Nat /\ 0 + 1 = 1
    OBVIOUS
  <1>2. /\ NewlinesIn(f, 0, hi) \in SUBSET Int
        /\ IsFiniteSet(NewlinesIn(f, 0, hi))
        /\ Cardinality(NewlinesIn(f, 0, hi)) \in Nat
    BY <1>1, NewlinesAre
  <1>3. \A p : p \in NewlinesIn(f, 0, hi) <=> p \in 0 + 1 .. hi /\ f[p] = Nl
    BY <1>1, NewlinesAre
  <1> QED
    BY <1>1, <1>2, <1>3

(* The newlines of a part are those of its halves,                           *)
LEMMA NewlinesSplit ==
    ASSUME NEW f, NEW lo \in Nat, NEW mid \in Nat, NEW hi \in Nat, lo <= mid, mid <= hi
    PROVE  /\ NewlinesIn(f, lo, hi) = NewlinesIn(f, lo, mid) \cup NewlinesIn(f, mid, hi)
           /\ NewlinesIn(f, lo, mid) \cap NewlinesIn(f, mid, hi) = {}
  <1> DEFINE S == NewlinesIn(f, lo, hi)
             T == NewlinesIn(f, lo, mid)
             U == NewlinesIn(f, mid, hi)
  <1>1. \A p : p \in lo + 1 .. hi <=> p \in lo + 1 .. mid \/ p \in mid + 1 .. hi
    OBVIOUS
  <1>2. \A p : ~(p \in lo + 1 .. mid /\ p \in mid + 1 .. hi)
    OBVIOUS
  <1>3. /\ \A p : p \in S <=> p \in lo + 1 .. hi /\ f[p] = Nl
        /\ \A p : p \in T <=> p \in lo + 1 .. mid /\ f[p] = Nl
        /\ \A p : p \in U <=> p \in mid + 1 .. hi /\ f[p] = Nl
    BY NewlinesAre
  <1> HIDE DEF S, T, U
  <1>4. S = T \cup U /\ T \cap U = {}
    BY <1>1, <1>2, <1>3
  <1> QED
    BY <1>4 DEF S, T, U

(* so there is none where there is none in either half,                      *)
LEMMA NoneInBoth ==
    ASSUME NEW f, NEW lo \in Nat, NEW mid \in Nat, NEW hi \in Nat, lo <= mid, mid <= hi
    PROVE  NewlinesIn(f, lo, hi) = {} <=>
               NewlinesIn(f, lo, mid) = {} /\ NewlinesIn(f, mid, hi) = {}
  <1> DEFINE S == NewlinesIn(f, lo, hi)
             T == NewlinesIn(f, lo, mid)
             U == NewlinesIn(f, mid, hi)
  <1>1. S = T \cup U
    BY NewlinesSplit
  <1> HIDE DEF S, T, U
  <1>2. S = {} <=> T = {} /\ U = {}
    BY <1>1
  <1> QED
    BY <1>2 DEF S, T, U

(* and their numbers add up.                                                 *)
LEMMA NewlinesAdd ==
    ASSUME NEW f, NEW lo \in Nat, NEW mid \in Nat, NEW hi \in Nat, lo <= mid, mid <= hi
    PROVE  Cardinality(NewlinesIn(f, lo, hi)) =
               Cardinality(NewlinesIn(f, lo, mid)) + Cardinality(NewlinesIn(f, mid, hi))
  <1> DEFINE S == NewlinesIn(f, lo, hi)
             T == NewlinesIn(f, lo, mid)
             U == NewlinesIn(f, mid, hi)
  <1>1. S = T \cup U /\ T \cap U = {}
    BY NewlinesSplit
  <1>2. S \in SUBSET Int /\ IsFiniteSet(S)
    BY NewlinesAre
  <1> HIDE DEF S, T, U
  <1>3. Cardinality(S) = Cardinality(T) + Cardinality(U)
    BY <1>1, <1>2, SizeOfParts
  <1> QED
    BY <1>3 DEF S, T, U

(* Moving a finite set along the numbers leaves its size.                   *)
LEMMA ShiftedSize ==
    ASSUME NEW S \in SUBSET Int, NEW T \in SUBSET Int, IsFiniteSet(S), NEW d \in Int,
           \A p \in Int : p \in S <=> p + d \in T
    PROVE  IsFiniteSet(T) /\ Cardinality(T) = Cardinality(S)
  <1> DEFINE m == [p \in S |-> p + d]
  <1>1. m \in [S -> T]
    OBVIOUS
  <1>2. \A p, q \in S : m[p] = m[q] => p = q
    OBVIOUS
  <1>3. \A t \in T : \E p \in S : m[p] = t
    <2>1. SUFFICES ASSUME NEW t \in T PROVE t - d \in S /\ m[t - d] = t
      OBVIOUS
    <2>2. t \in Int /\ (t - d) + d = t /\ t - d \in Int
      OBVIOUS
    <2>3. t - d \in S
      BY <2>2
    <2> QED
      BY <2>2, <2>3
  <1> HIDE DEF m
  <1>4. m \in Bijection(S, T)
    BY <1>1, <1>2, <1>3, Fun_IsBij
  <1>5. ExistsBijection(S, T)
    BY <1>4 DEF ExistsBijection
  <1> QED
    BY <1>5, FS_Bijection

(* The newlines of a piece of a file are those of the file there.           *)
LEMMA NewlinesOfPart ==
    ASSUME NEW f \in Seq(Byte), NEW lo \in Nat, NEW hi \in Nat, lo <= hi, hi <= Len(f),
           NEW a \in Nat, NEW b \in Nat, b <= hi - lo
    PROVE  LET block == SubSeq(f, lo + 1, hi)
           IN  /\ Len(block) = hi - lo
               /\ \A p \in 1 .. hi - lo : block[p] = f[lo + p]
               /\ \A p \in Int : p \in NewlinesIn(block, a, b)
                                 <=> p + lo \in NewlinesIn(f, lo + a, lo + b)
               /\ Cardinality(NewlinesIn(block, a, b)) =
                     Cardinality(NewlinesIn(f, lo + a, lo + b))
  <1> DEFINE block == SubSeq(f, lo + 1, hi)
             S == NewlinesIn(block, a, b)
             T == NewlinesIn(f, lo + a, lo + b)
  <1>1. Len(block) = hi - lo /\ \A p \in 1 .. hi - lo : block[p] = f[lo + p]
    OBVIOUS
  <1> HIDE DEF block
  <1>0. lo + a \in Nat /\ lo + b \in Nat
    OBVIOUS
  <1>2. /\ \A p : p \in S <=> p \in a + 1 .. b /\ block[p] = Nl
        /\ S \in SUBSET Int /\ IsFiniteSet(S)
    BY NewlinesAre
  <1>5. /\ \A p : p \in T <=> p \in lo + a + 1 .. lo + b /\ f[p] = Nl
        /\ T \in SUBSET Int
    BY <1>0, NewlinesAre
  <1> HIDE DEF S, T
  <1>3. \A p \in Int : p \in S <=> p + lo \in T
    <2>1. SUFFICES ASSUME NEW p \in Int PROVE p \in S <=> p + lo \in T
      OBVIOUS
    <2>2. p \in a + 1 .. b <=> p + lo \in lo + a + 1 .. lo + b
      OBVIOUS
    <2>3. p \in a + 1 .. b => p \in 1 .. hi - lo /\ p + lo = lo + p
      OBVIOUS
    <2>4. p \in a + 1 .. b => block[p] = f[p + lo]
      BY <1>1, <2>3
    <2> QED
      BY <1>2, <1>5, <2>2, <2>4
  <1>6. lo \in Int
    OBVIOUS
  <1>4. Cardinality(T) = Cardinality(S)
    BY <1>2, <1>3, <1>5, <1>6, ShiftedSize
  <1> QED
    BY <1>1, <1>3, <1>4 DEF block, S, T

(* One byte more is one newline more or none.                               *)
LEMMA OneByteMore ==
    ASSUME NEW f, NEW o \in Nat \ {0}
    PROVE  /\ NewlinesBefore(f, o - 1) \in Nat /\ NewlinesBefore(f, o) \in Nat
           /\ NewlinesBefore(f, o) =
                 IF f[o] = Nl THEN NewlinesBefore(f, o - 1) + 1 ELSE NewlinesBefore(f, o - 1)
  <1> DEFINE S == NewlinesIn(f, 0, o - 1)
             T == NewlinesIn(f, 0, o)
  <1>0. o \in Nat /\ o - 1 \in Nat /\ 0 \in Nat
    OBVIOUS
  <1>1. /\ \A p : p \in S <=> p \in 1 .. o - 1 /\ f[p] = Nl
        /\ IsFiniteSet(S) /\ Cardinality(S) \in Nat
    BY <1>0, FirstNewlines
  <1>2. /\ \A p : p \in T <=> p \in 1 .. o /\ f[p] = Nl
        /\ Cardinality(T) \in Nat
    BY <1>0, FirstNewlines
  <1> HIDE DEF S, T
  <1>3. \A p : p \in 1 .. o <=> p \in 1 .. o - 1 \/ p = o
    OBVIOUS
  <1>4. ~(o \in 1 .. o - 1)
    OBVIOUS
  <1>5. CASE f[o] = Nl
    <2>1. T = S \cup {o} /\ o \notin S
      BY <1>1, <1>2, <1>3, <1>4, <1>5
    <2>2. Cardinality(T) = Cardinality(S) + 1
      BY <1>1, <2>1, FS_AddElement
    <2> QED
      BY <1>1, <1>2, <1>5, <2>2 DEF S, T, NewlinesBefore
  <1>6. CASE f[o] # Nl
    <2>1. T = S
      BY <1>1, <1>2, <1>3, <1>4, <1>6
    <2> QED
      BY <1>1, <1>2, <1>6, <2>1 DEF S, T, NewlinesBefore
  <1> QED
    BY <1>5, <1>6

(* Before the first byte there is no newline.                                *)
LEMMA NoneBeforeTheFirst ==
    ASSUME NEW f
    PROVE  NewlinesBefore(f, 0) = 0 /\ NewlinesIn(f, 0, 0) = {}
  <1>1. NewlinesIn(f, 0, 0) = {}
    <2>1. 0 \in Nat /\ 1 .. 0 = {}
      OBVIOUS
    <2> QED
      BY <2>1, FirstNewlines
  <1> QED
    BY <1>1, FS_EmptySet DEF NewlinesBefore

(* -------------------------------- lines --------------------------------- *)

(* Where the lines of a file start.                                          *)
LEMMA StartsAre ==
    ASSUME NEW f \in Seq(Byte)
    PROVE  /\ \A o : o \in StartsOf(f) <=> o \in 0 .. Len(f) - 1 /\ (o = 0 \/ f[o] = Nl)
           /\ StartsOf(f) \in SUBSET Int /\ IsFiniteSet(StartsOf(f))
           /\ Cardinality(StartsOf(f)) \in Nat
  <1>0. Len(f) \in Nat
    OBVIOUS
  <1>1. \A p : p \in NewlinesIn(f, 0, Len(f)) <=> p \in 1 .. Len(f) /\ f[p] = Nl
    BY <1>0, FirstNewlines
  <1>2. \A o : o \in StartsOf(f) <=> (o = 0 \/ o \in NewlinesIn(f, 0, Len(f))) /\ o < Len(f)
    BY DEF StartsOf
  <1>3. \A o : o \in StartsOf(f) <=> o \in 0 .. Len(f) - 1 /\ (o = 0 \/ f[o] = Nl)
    <2>1. \A o : o \in StartsOf(f)
                 <=> (o = 0 \/ (o \in 1 .. Len(f) /\ f[o] = Nl)) /\ o < Len(f)
      BY <1>1, <1>2
    <2>2. \A o : o \in 1 .. Len(f) /\ o < Len(f) <=> o \in 1 .. Len(f) - 1
      BY <1>0
    <2>3. \A o : o \in 0 .. Len(f) - 1 <=> (o = 0 /\ 0 < Len(f)) \/ o \in 1 .. Len(f) - 1
      BY <1>0
    <2> QED
      BY <2>1, <2>2, <2>3
  <1>4. StartsOf(f) \in SUBSET (0 .. Len(f) - 1)
    BY <1>3
  <1>5. IsFiniteSet(0 .. Len(f) - 1)
    BY <1>0, FS_Interval
  <1>6. IsFiniteSet(StartsOf(f)) /\ Cardinality(StartsOf(f)) \in Nat
    BY <1>4, <1>5, FS_Subset, FS_CardinalityType
  <1>7. StartsOf(f) \in SUBSET Int
    BY <1>4
  <1> QED
    BY <1>3, <1>6, <1>7

(* The lines before an offset are as many as the newlines before it.        *)
LEMMA StartsBelow ==
    ASSUME NEW f \in Seq(Byte), NEW o \in 1 .. Len(f)
    PROVE  Cardinality(Below(StartsOf(f), o)) = NewlinesBefore(f, o - 1) + 1
  <1> DEFINE S == NewlinesIn(f, 0, o - 1)
             T == Below(StartsOf(f), o)
  <1>0. o \in Nat /\ o - 1 \in Nat /\ 0 \in Nat /\ Len(f) \in Nat
    OBVIOUS
  <1>1. /\ \A p : p \in S <=> p \in 1 .. o - 1 /\ f[p] = Nl
        /\ IsFiniteSet(S)
    BY <1>0, FirstNewlines
  <1>2. \A p : p \in T <=> (p \in 0 .. Len(f) - 1 /\ (p = 0 \/ f[p] = Nl)) /\ p < o
    BY StartsAre DEF Below
  <1>3. \A p : p \in 0 .. Len(f) - 1 /\ p < o <=> p = 0 \/ p \in 1 .. o - 1
    OBVIOUS
  <1>4. ~(0 \in 1 .. o - 1)
    OBVIOUS
  <1> HIDE DEF S, T
  <1>5. T = S \cup {0} /\ 0 \notin S
    BY <1>1, <1>2, <1>3, <1>4
  <1>6. Cardinality(T) = Cardinality(S) + 1
    BY <1>1, <1>5, FS_AddElement
  <1> QED
    BY <1>6 DEF S, T, NewlinesBefore

(* There are as many lines as newlines before the last byte, and one more.   *)
LEMMA LineTotal ==
    ASSUME NEW f \in Seq(Byte)
    PROVE  /\ Len(f) = 0 => Cardinality(StartsOf(f)) = 0 /\ StartsOf(f) = {}
           /\ Len(f) > 0 => Cardinality(StartsOf(f)) = NewlinesBefore(f, Len(f) - 1) + 1
  <1>1. ASSUME Len(f) = 0 PROVE Cardinality(StartsOf(f)) = 0 /\ StartsOf(f) = {}
    <2>1. 0 .. Len(f) - 1 = {}
      BY <1>1
    <2>2. StartsOf(f) = {}
      BY <2>1, StartsAre
    <2> QED
      BY <2>2, FS_EmptySet
  <1>2. ASSUME Len(f) > 0
        PROVE  Cardinality(StartsOf(f)) = NewlinesBefore(f, Len(f) - 1) + 1
    <2>1. Len(f) \in 1 .. Len(f)
      BY <1>2
    <2>2. \A o \in StartsOf(f) : o < Len(f)
      BY StartsAre
    <2>3. Below(StartsOf(f), Len(f)) = StartsOf(f)
      BY <2>2 DEF Below
    <2> QED
      BY <2>1, <2>3, StartsBelow
  <1> QED
    BY <1>1, <1>2

(* Before the start of a line there are as many newlines as lines.           *)
LEMMA StartRank ==
    ASSUME NEW f \in Seq(Byte), NEW o \in StartsOf(f)
    PROVE  Cardinality(Below(StartsOf(f), o)) = NewlinesBefore(f, o)
  <1>1. o \in 0 .. Len(f) - 1 /\ (o = 0 \/ f[o] = Nl) /\ Len(f) \in Nat
    BY StartsAre
  <1>2. CASE o = 0
    <2>1. \A p \in StartsOf(f) : ~(p < o)
      BY <1>2, StartsAre
    <2>2. Below(StartsOf(f), o) = {}
      BY <2>1 DEF Below
    <2> QED
      BY <1>2, <2>2, FS_EmptySet, NoneBeforeTheFirst
  <1>3. CASE o # 0
    <2>1. o \in 1 .. Len(f) /\ o \in Nat \ {0} /\ f[o] = Nl
      BY <1>1, <1>3
    <2> QED
      BY <2>1, StartsBelow, OneByteMore
  <1> QED
    BY <1>2, <1>3

(* The lines of a file, one by one.                                          *)
LEMMA LinesAre ==
    ASSUME NEW f \in Seq(Byte)
    PROVE  /\ Lines(f) \in Seq(Seq(Byte))
           /\ Len(Lines(f)) = Cardinality(StartsOf(f)) /\ Len(Lines(f)) \in Nat
           /\ DOMAIN Lines(f) = 1 .. Len(Lines(f))
           /\ \A n \in 1 .. Len(Lines(f)) : Lines(f)[n] = LineAt(f, InOrder(StartsOf(f))[n])
  <1> DEFINE starts == InOrder(StartsOf(f))
  <1>1. /\ StartsOf(f) \in SUBSET Int /\ IsFiniteSet(StartsOf(f))
        /\ Cardinality(StartsOf(f)) \in Nat
    BY StartsAre
  <1>2. /\ DOMAIN starts = 1 .. Cardinality(StartsOf(f))
        /\ \A i \in 1 .. Cardinality(StartsOf(f)) : starts[i] \in StartsOf(f)
    BY <1>1, InOrderIs
  <1>3. Lines(f) = [i \in DOMAIN starts |-> LineAt(f, starts[i])]
    BY DEF Lines
  <1>4. ASSUME NEW o \in StartsOf(f) PROVE LineAt(f, o) \in Seq(Byte)
    <2> DEFINE ends == NewlinesIn(f, o, Len(f)) \cup {Len(f) + 1}
    <2>1. o \in Nat /\ Len(f) \in Nat /\ o < Len(f)
      BY StartsAre
    <2>2. /\ NewlinesIn(f, o, Len(f)) \in SUBSET (o + 1 .. Len(f))
          /\ IsFiniteSet(NewlinesIn(f, o, Len(f)))
      BY <2>1, NewlinesAre
    <2>3. IsFiniteSet(ends)
      BY <2>2, FS_AddElement
    <2>4. ends \in SUBSET Int /\ ends # {} /\ \A e \in ends : e \in o + 1 .. Len(f) + 1
      BY <2>1, <2>2
    <2>5. LineAt(f, o) = SubSeq(f, o + 1, Min(ends) - 1)
      BY DEF LineAt
    <2> HIDE DEF ends
    <2>6. Min(ends) \in o + 1 .. Len(f) + 1
      BY <2>3, <2>4, LeastIs
    <2> DEFINE m == Min(ends)
    <2> HIDE DEF m
    <2>7. m \in o + 1 .. Len(f) + 1
      BY <2>6 DEF m
    <2>8. SubSeq(f, o + 1, m - 1) \in Seq(Byte)
      BY <2>1, <2>7
    <2> QED
      BY <2>5, <2>8 DEF m
  <1> HIDE DEF starts
  <1>5. Lines(f) \in [1 .. Cardinality(StartsOf(f)) -> Seq(Byte)]
    BY <1>2, <1>3, <1>4
  <1>6. Len(Lines(f)) = Cardinality(StartsOf(f)) /\ Lines(f) \in Seq(Seq(Byte))
    BY <1>1, <1>5
  <1>7. \A n \in 1 .. Cardinality(StartsOf(f)) : Lines(f)[n] = LineAt(f, starts[n])
    BY <1>2, <1>3
  <1> QED
    BY <1>1, <1>5, <1>6, <1>7 DEF starts

(* The number of the line that starts at an offset.                         *)
LEMMA LineThere ==
    ASSUME NEW f \in Seq(Byte), NEW o \in StartsOf(f)
    PROVE  /\ NewlinesBefore(f, o) + 1 \in 1 .. Len(Lines(f))
           /\ Lines(f)[NewlinesBefore(f, o) + 1] = LineAt(f, o)
  <1>1. StartsOf(f) \in SUBSET Int /\ IsFiniteSet(StartsOf(f))
    BY StartsAre
  <1>2. Cardinality(Below(StartsOf(f), o)) = NewlinesBefore(f, o)
    BY StartRank
  <1>3. /\ NewlinesBefore(f, o) + 1 \in 1 .. Cardinality(StartsOf(f))
        /\ InOrder(StartsOf(f))[NewlinesBefore(f, o) + 1] = o
    BY <1>1, <1>2, PlaceInOrder
  <1> QED
    BY <1>3, LinesAre

(* What a line is: up to its newline, or the end of the file.               *)
LEMMA LineToNewline ==
    ASSUME NEW f \in Seq(Byte), NEW o \in Nat, NEW e \in Nat, o < e, e <= Len(f),
           f[e] = Nl, NewlinesIn(f, o, e - 1) = {}
    PROVE  LineAt(f, o) = SubSeq(f, o + 1, e - 1)
  <1> DEFINE ends == NewlinesIn(f, o, Len(f)) \cup {Len(f) + 1}
  <1>0. Len(f) \in Nat /\ e - 1 \in Nat /\ Len(f) + 1 \in Int
    OBVIOUS
  <1>1. /\ NewlinesIn(f, o, Len(f)) \in SUBSET (o + 1 .. Len(f))
        /\ IsFiniteSet(NewlinesIn(f, o, Len(f)))
        /\ \A p : p \in NewlinesIn(f, o, Len(f)) <=> p \in o + 1 .. Len(f) /\ f[p] = Nl
    BY <1>0, NewlinesAre
  <1>2. \A p \in o + 1 .. e - 1 : f[p] # Nl
    BY <1>0, NewlinesAre
  <1>3. IsFiniteSet(ends)
    BY <1>1, FS_AddElement
  <1>4. ends \in SUBSET Int /\ ends # {}
    BY <1>0, <1>1
  <1>5. e \in ends
    BY <1>0, <1>1
  <1>6. \A p \in ends : ~(p < e)
    BY <1>0, <1>1, <1>2
  <1> HIDE DEF ends
  <1>7. Min(ends) \in ends /\ Min(ends) <= e
    BY <1>3, <1>4, <1>5, LeastIs
  <1> DEFINE m == Min(ends)
  <1> HIDE DEF m
  <1>9. m \in Int /\ m <= e /\ ~(m < e)
    BY <1>4, <1>6, <1>7 DEF m
  <1>8. Min(ends) = e
    BY <1>9 DEF m
  <1> QED
    BY <1>8 DEF LineAt, ends

(* A line without a newline goes on to the end of the file.                  *)
LEMMA LineToEnd ==
    ASSUME NEW f \in Seq(Byte), NEW o \in Nat, o <= Len(f), NewlinesIn(f, o, Len(f)) = {}
    PROVE  LineAt(f, o) = SubSeq(f, o + 1, Len(f))
  <1> DEFINE ends == NewlinesIn(f, o, Len(f)) \cup {Len(f) + 1}
  <1>1. ends = {Len(f) + 1} /\ Len(f) + 1 \in Int /\ (Len(f) + 1) - 1 = Len(f)
    OBVIOUS
  <1>2. IsFiniteSet(ends)
    BY <1>1, FS_Singleton
  <1> HIDE DEF ends
  <1>3. ends \in SUBSET Int /\ ends # {}
    BY <1>1
  <1>4. Min(ends) \in ends
    BY <1>2, <1>3, LeastIs
  <1>5. Min(ends) = Len(f) + 1
    BY <1>1, <1>4
  <1> QED
    BY <1>1, <1>5 DEF LineAt, ends

(* --------------------------- parts of a file ---------------------------- *)

(* A part of a sequence: its length and its members,                         *)
LEMMA PartIs ==
    ASSUME NEW S, NEW f \in Seq(S), NEW a \in Nat, NEW b \in Nat, a <= b, b <= Len(f)
    PROVE  /\ SubSeq(f, a + 1, b) \in Seq(S)
           /\ Len(SubSeq(f, a + 1, b)) = b - a
           /\ \A i \in 1 .. b - a : SubSeq(f, a + 1, b)[i] = f[a + i]
  OBVIOUS

(* by which it is determined.                                                *)
LEMMA PartOnly ==
    ASSUME NEW S, NEW f \in Seq(S), NEW a \in Nat, NEW b \in Nat, a <= b, b <= Len(f),
           NEW s \in Seq(S), Len(s) = b - a, \A i \in 1 .. b - a : s[i] = f[a + i]
    PROVE  s = SubSeq(f, a + 1, b)
  <1> DEFINE r == SubSeq(f, a + 1, b)
  <1>1. r \in Seq(S) /\ Len(r) = b - a /\ \A i \in 1 .. b - a : r[i] = f[a + i]
    BY PartIs
  <1> HIDE DEF r
  <1>2. s = r
    BY <1>1, SeqEqual
  <1> QED
    BY <1>2 DEF r

(* Two parts that meet are one.                                              *)
LEMMA PartsJoin ==
    ASSUME NEW S, NEW f \in Seq(S), NEW a \in Nat, NEW m \in Nat, NEW b \in Nat,
           a <= m, m <= b, b <= Len(f)
    PROVE  SubSeq(f, a + 1, m) \o SubSeq(f, m + 1, b) = SubSeq(f, a + 1, b)
  <1> DEFINE l == SubSeq(f, a + 1, m)
             r == SubSeq(f, m + 1, b)
             s == l \o r
  <1>1. l \in Seq(S) /\ Len(l) = m - a /\ \A i \in 1 .. m - a : l[i] = f[a + i]
    BY PartIs
  <1>2. r \in Seq(S) /\ Len(r) = b - m /\ \A i \in 1 .. b - m : r[i] = f[m + i]
    BY PartIs
  <1> HIDE DEF l, r
  <1>3. s \in Seq(S) /\ Len(s) = b - a
    <2>1. s \in Seq(S) /\ Len(s) = Len(l) + Len(r)
      BY <1>1, <1>2, ConcatProperties
    <2> QED
      BY <1>1, <1>2, <2>1
  <1>4. \A i \in 1 .. b - a : s[i] = f[a + i]
    <2> SUFFICES ASSUME NEW i \in 1 .. b - a PROVE s[i] = f[a + i]
      OBVIOUS
    <2>1. CASE i <= m - a
      <3>1. i \in 1 .. m - a
        BY <2>1
      <3>2. s[i] = l[i]
        BY <1>1, <1>2, <3>1
      <3> QED
        BY <1>1, <3>1, <3>2
    <2>2. CASE ~(i <= m - a)
      <3>1. i - (m - a) \in 1 .. b - m /\ m + (i - (m - a)) = a + i
        BY <2>2
      <3>2. s[i] = r[i - (m - a)]
        BY <1>1, <1>2, <2>2
      <3>3. r[i - (m - a)] = f[m + (i - (m - a))]
        BY <1>2, <3>1
      <3> QED
        BY <3>1, <3>2, <3>3
    <2> QED
      BY <2>1, <2>2
  <1> HIDE DEF s
  <1>5. a <= b
    OBVIOUS
  <1>6. s = SubSeq(f, a + 1, b)
    BY <1>3, <1>4, <1>5, PartOnly
  <1> QED
    BY <1>6 DEF s, l, r

(* A part of a part is a part.                                               *)
LEMMA PartOfPart ==
    ASSUME NEW S, NEW f \in Seq(S), NEW a \in Nat, NEW b \in Nat, a <= b, b <= Len(f),
           NEW x \in Nat, NEW y \in Nat, x <= y, y <= b - a
    PROVE  SubSeq(SubSeq(f, a + 1, b), x + 1, y) = SubSeq(f, a + x + 1, a + y)
  <1> DEFINE c == SubSeq(f, a + 1, b)
             s == SubSeq(c, x + 1, y)
             k == a + x
             e == a + y
  <1>1. c \in Seq(S) /\ Len(c) = b - a /\ \A i \in 1 .. b - a : c[i] = f[a + i]
    BY PartIs
  <1> HIDE DEF c
  <1>2. s \in Seq(S) /\ Len(s) = y - x /\ \A i \in 1 .. y - x : s[i] = c[x + i]
    <2>1. y <= Len(c)
      BY <1>1
    <2> QED
      BY <1>1, <2>1, PartIs
  <1>3. k \in Nat /\ e \in Nat /\ k <= e /\ e <= Len(f) /\ e - k = y - x
    OBVIOUS
  <1>4. \A i \in 1 .. y - x : x + i \in 1 .. b - a /\ a + (x + i) = k + i
    OBVIOUS
  <1>5. \A i \in 1 .. y - x : s[i] = f[k + i]
    BY <1>1, <1>2, <1>4
  <1> HIDE DEF s, k, e
  <1>6. s = SubSeq(f, k + 1, e)
    BY <1>2, <1>3, <1>5, PartOnly
  <1> QED
    BY <1>6 DEF s, c, k, e

(* Where a line ends: nothing in it is a newline.                           *)
LEMMA LineEnds ==
    ASSUME NEW f \in Seq(Byte), NEW o \in Nat, o <= Len(f)
    PROVE  \E e \in o .. Len(f) : /\ LineAt(f, o) = SubSeq(f, o + 1, e)
                                  /\ NewlinesIn(f, o, e) = {}
                                  /\ e = Len(f) \/ f[e + 1] = Nl
  <1> DEFINE nls == NewlinesIn(f, o, Len(f))
  <1>0. Len(f) \in Nat /\ Len(f) \in o .. Len(f)
    OBVIOUS
  <1>1. CASE nls = {}
    BY <1>0, <1>1, LineToEnd
  <1>2. CASE nls # {}
    <2>1. /\ nls \in SUBSET Int /\ IsFiniteSet(nls)
          /\ \A p : p \in nls <=> p \in o + 1 .. Len(f) /\ f[p] = Nl
      BY <1>0, NewlinesAre
    <2> DEFINE m == Min(nls)
    <2>2. m \in nls /\ \A p \in nls : m <= p
      BY <1>2, <2>1, LeastIs
    <2> HIDE DEF m
    <2>3. m \in Nat /\ m - 1 \in o .. Len(f) /\ m - 1 \in Nat /\ o < m /\ m <= Len(f)
          /\ f[m] = Nl /\ (m - 1) + 1 = m
      BY <2>1, <2>2
    <2>4. \A p : p \in NewlinesIn(f, o, m - 1) <=> p \in o + 1 .. m - 1 /\ f[p] = Nl
      BY <2>3, NewlinesAre
    <2>5. \A p \in o + 1 .. m - 1 : p \in o + 1 .. Len(f) /\ ~(m <= p)
      BY <2>3
    <2>6. NewlinesIn(f, o, m - 1) = {}
      BY <2>1, <2>2, <2>4, <2>5
    <2>7. LineAt(f, o) = SubSeq(f, o + 1, m - 1)
      BY <2>3, <2>6, LineToNewline
    <2> QED
      BY <2>3, <2>6, <2>7
  <1> QED
    BY <1>1, <1>2

(* How many lines a file has.                                               *)
LEMMA LineCountIs ==
    ASSUME NEW f \in Seq(Byte)
    PROVE  /\ Len(f) = 0 => Len(Lines(f)) = 0
           /\ Len(f) > 0 => Len(Lines(f)) = IF f[Len(f)] = Nl THEN NewlinesBefore(f, Len(f))
                                            ELSE NewlinesBefore(f, Len(f)) + 1
           /\ Len(f) > 0 => Len(Lines(f)) = NewlinesBefore(f, Len(f) - 1) + 1
  <1>1. CASE Len(f) = 0
    <2>1. Len(Lines(f)) = Cardinality(StartsOf(f))
      BY LinesAre
    <2>2. Cardinality(StartsOf(f)) = 0
      BY <1>1, LineTotal
    <2>3. ~(Len(f) > 0)
      BY <1>1
    <2> QED
      BY <1>1, <2>1, <2>2, <2>3
  <1>2. CASE Len(f) > 0
    <2>1. Len(f) \in Nat \ {0}
      BY <1>2
    <2>2. Len(Lines(f)) = NewlinesBefore(f, Len(f) - 1) + 1
      BY <1>2, LinesAre, LineTotal
    <2> QED
      BY <2>1, <2>2, OneByteMore
  <1> QED
    BY <1>1, <1>2

(* The number of newlines grows with the position.                           *)
LEMMA CountGrows ==
    ASSUME NEW f, NEW a \in Nat, NEW b \in Nat, a <= b
    PROVE  /\ NewlinesBefore(f, a) \in Nat /\ NewlinesBefore(f, b) \in Nat
           /\ NewlinesBefore(f, a) <= NewlinesBefore(f, b)
           /\ NewlinesBefore(f, b) = NewlinesBefore(f, a) + Cardinality(NewlinesIn(f, a, b))
           /\ NewlinesIn(f, a, b) = {} => NewlinesBefore(f, a) = NewlinesBefore(f, b)
  <1> DEFINE S == NewlinesIn(f, a, b)
  <1>1. /\ Cardinality(NewlinesIn(f, 0, a)) \in Nat
        /\ Cardinality(NewlinesIn(f, 0, b)) \in Nat
        /\ Cardinality(S) \in Nat
    <2>1. 0 \in Nat
      OBVIOUS
    <2> QED
      BY <2>1, NewlinesAre
  <1>2. Cardinality(NewlinesIn(f, 0, b)) = Cardinality(NewlinesIn(f, 0, a)) + Cardinality(S)
    <2>1. 0 \in Nat /\ 0 <= a
      OBVIOUS
    <2> QED
      BY <2>1, NewlinesAdd
  <1>3. S = {} => Cardinality(S) = 0
    BY FS_EmptySet
  <1> HIDE DEF S
  <1>4. /\ NewlinesBefore(f, a) = Cardinality(NewlinesIn(f, 0, a))
        /\ NewlinesBefore(f, b) = Cardinality(NewlinesIn(f, 0, b))
    BY DEF NewlinesBefore
  <1>5. /\ NewlinesBefore(f, a) \in Nat /\ NewlinesBefore(f, b) \in Nat
        /\ NewlinesBefore(f, b) = NewlinesBefore(f, a) + Cardinality(S)
    BY <1>1, <1>2, <1>4
  <1>6. /\ NewlinesBefore(f, a) <= NewlinesBefore(f, b)
        /\ S = {} => NewlinesBefore(f, a) = NewlinesBefore(f, b)
    BY <1>1, <1>3, <1>5
  <1> QED
    BY <1>5, <1>6 DEF S

(* The line that starts at an offset behind a newline, or at 0.              *)
LEMMA LineOf ==
    ASSUME NEW f \in Seq(Byte), NEW o \in Nat, o < Len(f), o = 0 \/ f[o] = Nl
    PROVE  /\ o \in StartsOf(f)
           /\ NewlinesBefore(f, o) + 1 \in 1 .. Len(Lines(f))
           /\ Lines(f)[NewlinesBefore(f, o) + 1] = LineAt(f, o)
  <1>1. o \in 0 .. Len(f) - 1
    OBVIOUS
  <1>2. o \in StartsOf(f)
    BY <1>1, StartsAre
  <1> QED
    BY <1>2, LineThere

(* The lesser of two numbers.                                                *)
LEMMA LesserIs ==
    ASSUME NEW a \in Int, NEW b \in Int
    PROVE  Min({a, b}) = IF a <= b THEN a ELSE b
  <1>1. IsFiniteSet({a, b}) /\ {a, b} \in SUBSET Int /\ {a, b} # {}
    <2>1. IsFiniteSet({a} \cup {b})
      BY FS_Singleton, FS_AddElement
    <2>2. {a, b} = {a} \cup {b}
      OBVIOUS
    <2> QED
      BY <2>1, <2>2
  <1> DEFINE m == Min({a, b})
  <1>2. m \in {a, b} /\ \A e \in {a, b} : m <= e
    BY <1>1, LeastIs
  <1> HIDE DEF m
  <1>3. (m = a \/ m = b) /\ m <= a /\ m <= b
    BY <1>2
  <1>4. m = IF a <= b THEN a ELSE b
    BY <1>3
  <1> QED
    BY <1>4 DEF m

(* The greater of two numbers.                                               *)
LEMMA GreaterIs ==
    ASSUME NEW a \in Int, NEW b \in Int
    PROVE  Max({a, b}) = IF a >= b THEN a ELSE b
  <1>1. IsFiniteSet({a, b}) /\ {a, b} \in SUBSET Int /\ {a, b} # {}
    <2>1. IsFiniteSet({a} \cup {b})
      BY FS_Singleton, FS_AddElement
    <2>2. {a, b} = {a} \cup {b}
      OBVIOUS
    <2> QED
      BY <2>1, <2>2
  <1> DEFINE m == Max({a, b})
  <1>2. m \in {a, b} /\ \A e \in {a, b} : e <= m
    BY <1>1, GreatestIs
  <1> HIDE DEF m
  <1>3. (m = a \/ m = b) /\ a <= m /\ b <= m
    BY <1>2
  <1>4. m = IF a >= b THEN a ELSE b
    BY <1>3
  <1> QED
    BY <1>4 DEF m

(* The k-th newline behind lo.                                             *)
LEMMA NewlineAt ==
    ASSUME NEW f, NEW lo \in Nat, NEW hi \in Nat, lo <= hi,
           NEW k \in 1 .. Cardinality(NewlinesIn(f, lo, hi))
    PROVE  LET p == InOrder(NewlinesIn(f, lo, hi))[k]
           IN  /\ p \in lo + 1 .. hi /\ f[p] = Nl
               /\ NewlinesBefore(f, p) = NewlinesBefore(f, lo) + k
  <1> DEFINE S == NewlinesIn(f, lo, hi)
             p == InOrder(S)[k]
  <1>1. /\ S \in SUBSET Int /\ IsFiniteSet(S) /\ Cardinality(S) \in Nat
        /\ \A e : e \in S <=> e \in lo + 1 .. hi /\ f[e] = Nl
    BY NewlinesAre
  <1>2. p \in S /\ Cardinality(Below(S, p)) = k - 1
    BY <1>1, InOrderIs
  <1>3. p \in lo + 1 .. hi /\ f[p] = Nl
    BY <1>1, <1>2
  <1>4. Below(S, p) = NewlinesIn(f, lo, p - 1)
    <2>1. \A e : e \in Below(S, p) <=> e \in S /\ e < p
      BY DEF Below
    <2>2. \A e : e \in NewlinesIn(f, lo, p - 1) <=> e \in lo + 1 .. p - 1 /\ f[e] = Nl
      BY DEF NewlinesIn
    <2>3. \A e : (e \in lo + 1 .. hi /\ e < p) <=> e \in lo + 1 .. p - 1
      BY <1>3
    <2> HIDE DEF S, p
    <2> QED
      BY <2>1, <2>2, <2>3, <1>1
  <1> HIDE DEF p, S
  <1>5. p - 1 \in Nat /\ lo <= p - 1 /\ p \in Nat \ {0}
    BY <1>3
  <1>6. /\ NewlinesBefore(f, lo) \in Nat /\ NewlinesBefore(f, p - 1) \in Nat
        /\ NewlinesBefore(f, p - 1) =
              NewlinesBefore(f, lo) + Cardinality(NewlinesIn(f, lo, p - 1))
    BY <1>5, CountGrows
  <1>7. NewlinesBefore(f, p) = NewlinesBefore(f, p - 1) + 1
    BY <1>3, <1>5, OneByteMore
  <1>8. NewlinesBefore(f, p) = NewlinesBefore(f, lo) + k
    BY <1>2, <1>4, <1>6, <1>7
  <1> QED
    BY <1>3, <1>8 DEF p, S

(* Where the lines behind the newlines start, the first of them at 0.        *)
LEMMA StartAt ==
    ASSUME NEW f \in Seq(Byte)
    PROVE  LET starts == <<0>> \o InOrder(NewlinesIn(f, 0, Len(f)))
           IN  /\ NewlinesBefore(f, Len(f)) \in Nat
               /\ Len(starts) = NewlinesBefore(f, Len(f)) + 1
               /\ \A i \in 0 .. NewlinesBefore(f, Len(f)) :
                     /\ starts[i + 1] \in 0 .. Len(f)
                     /\ starts[i + 1] = 0 \/ f[starts[i + 1]] = Nl
                     /\ NewlinesBefore(f, starts[i + 1]) = i
  <1> DEFINE S == NewlinesIn(f, 0, Len(f))
             t == InOrder(S)
             starts == <<0>> \o t
  <1>1. Len(f) \in Nat
    OBVIOUS
  <1>2. /\ S \in SUBSET Int /\ IsFiniteSet(S) /\ Cardinality(S) \in Nat
        /\ NewlinesBefore(f, Len(f)) = Cardinality(S)
    BY <1>1, FirstNewlines DEF NewlinesBefore
  <1>3. t \in Seq(S) /\ Len(t) = Cardinality(S)
    BY <1>2, InOrderIs
  <1>4. Len(starts) = Cardinality(S) + 1 /\ starts[1] = 0
        /\ \A i \in 1 .. Cardinality(S) : starts[i + 1] = t[i]
    <2> HIDE DEF S, t
    <2>1. t \in Seq(Int)
      <3>1. \A i \in 1 .. Len(t) : t[i] \in S
        BY <1>3
      <3>2. t = [i \in 1 .. Cardinality(S) |-> t[i]]
        BY DEF t, InOrder
      <3>3. \A i \in 1 .. Cardinality(S) : t[i] \in Int
        BY <3>1, <1>2, <1>3
      <3> QED
        BY <3>2, <3>3, <1>2
    <2> QED
      BY <1>2, <1>3, <2>1
  <1>5. \A i \in 1 .. Cardinality(S) :
           t[i] \in 1 .. Len(f) /\ f[t[i]] = Nl /\ NewlinesBefore(f, t[i]) = i
    <2> TAKE i \in 1 .. Cardinality(S)
    <2>1. /\ t[i] \in 0 + 1 .. Len(f) /\ f[t[i]] = Nl
          /\ NewlinesBefore(f, t[i]) = NewlinesBefore(f, 0) + i
      BY <1>1, NewlineAt
    <2> QED
      BY <2>1, <1>2, NoneBeforeTheFirst
  <1> HIDE DEF S, t, starts
  <1>6. \A i \in 0 .. Cardinality(S) :
            /\ starts[i + 1] \in 0 .. Len(f)
            /\ starts[i + 1] = 0 \/ f[starts[i + 1]] = Nl
            /\ NewlinesBefore(f, starts[i + 1]) = i
    <2> TAKE i \in 0 .. Cardinality(S)
    <2>1. CASE i = 0
      BY <2>1, <1>1, <1>4, NoneBeforeTheFirst
    <2>2. CASE i # 0
      <3>1. i \in 1 .. Cardinality(S)
        BY <2>2, <1>2
      <3> QED
        BY <3>1, <1>1, <1>4, <1>5
    <2> QED
      BY <2>1, <2>2
  <1> QED
    BY <1>2, <1>4, <1>6 DEF starts, t, S

(* Sequences put together piece by piece.                                    *)
LEMMA FlattenIs ==
    ASSUME NEW S, NEW seqs \in Seq(Seq(S)), Len(seqs) > 0,
           NEW h, h = [i \in 1 .. Len(seqs) |-> IF i = 1 THEN seqs[i] ELSE h[i - 1] \o seqs[i]]
    PROVE  FlattenSeq(seqs) = h[Len(seqs)]
  <1> DEFINE n == Len(seqs)
             Rec(fl) == fl = [i \in 1 .. n |-> IF i = 1 THEN seqs[i] ELSE fl[i - 1] \o seqs[i]]
             flatten == CHOOSE fl : Rec(fl)
  <1>1. FlattenSeq(seqs) = flatten[n]
    BY DEF FlattenSeq
  <1>2. Rec(h)
    OBVIOUS
  <1>3. Rec(flatten)
    BY <1>2
  <1>4. /\ \A i \in 1 .. n : flatten[i] = IF i = 1 THEN seqs[i] ELSE flatten[i - 1] \o seqs[i]
        /\ \A i \in 1 .. n : h[i] = IF i = 1 THEN seqs[i] ELSE h[i - 1] \o seqs[i]
    BY <1>2, <1>3
  <1>5. n \in Nat /\ n \in 1 .. n
    OBVIOUS
  <1> HIDE DEF flatten, n, Rec
  <1>6. \A i \in 1 .. n : flatten[i] = h[i]
    <2> DEFINE D == {i \in 1 .. n : flatten[i] # h[i]}
    <2>1. SUFFICES ASSUME D # {} PROVE FALSE
      OBVIOUS
    <2>2. D \in SUBSET (1 .. n)
      OBVIOUS
    <2>3. D \in SUBSET Int /\ IsFiniteSet(D)
      <3>1. IsFiniteSet(1 .. n)
        BY <1>5, FS_Interval
      <3>2. IsFiniteSet(D)
        BY <2>2, <3>1, FS_Subset
      <3>3. \A i \in 1 .. n : i \in Int
        BY <1>5
      <3> QED
        BY <2>2, <3>2, <3>3
    <2>4. PICK k \in D : \A e \in D : k <= e
      BY <2>1, <2>3, LeastIs
    <2>5. k \in 1 .. n /\ flatten[k] # h[k]
      BY <2>4
    <2>6. \A i \in 1 .. n : i < k => flatten[i] = h[i]
      <3> TAKE i \in 1 .. n
      <3>1. i \in D => k <= i
        BY <2>4
      <3>2. flatten[i] # h[i] => i \in D
        OBVIOUS
      <3> HIDE DEF D
      <3> QED
        BY <1>5, <2>5, <3>1, <3>2
    <2> HIDE DEF D
    <2>7. CASE k = 1
      BY <2>5, <2>7, <1>4
    <2>8. CASE k # 1
      <3>1. k - 1 \in 1 .. n /\ k - 1 < k
        BY <1>5, <2>5, <2>8
      <3>2. flatten[k - 1] = h[k - 1]
        BY <2>6, <3>1
      <3>3. flatten[k] = flatten[k - 1] \o seqs[k] /\ h[k] = h[k - 1] \o seqs[k]
        BY <2>5, <2>8, <1>4
      <3> QED
        BY <2>5, <3>2, <3>3
    <2> QED
      BY <2>7, <2>8
  <1> QED
    BY <1>1, <1>5, <1>6 DEF n
=============================================================================
