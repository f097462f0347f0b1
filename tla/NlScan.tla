------------------------------- MODULE NlScan -------------------------------
(* FindNl and CountNl (platform.cpp:227-459): the search for newlines in a   *)
(* block, by lanes of 32 and of 16 bytes and then byte by byte.  Which of    *)
(* the three is used is fixed when the program starts; a processor without   *)
(* lanes has the last one only.                                              *)
EXTENDS Lines

CONSTANTS Wide,    \* 32
          Narrow,  \* 16
          Level    \* g_simdLevel: kSimdAvx2 = 2, kSimdSse2 = 1, kSimdScalar = 0

ASSUME NlScanAssumption ==
    /\ Wide \in Nat \ {0} /\ Narrow \in Nat \ {0}
    /\ Level \in 0 .. 2

\* The offsets of the vectors loaded from the offset from on, and the offset
\* behind the last of them.
Loads(block, from, lanes) ==
    {i \in from .. Len(block) - lanes : (i - from) % lanes = 0}
Behind(block, from, lanes) == from + lanes * ((Len(block) - from) \div lanes)

\* The mask of the comparison: the lanes that hold a newline.
Mask(block, i, lanes) == {k \in 0 .. lanes - 1 : block[i + k + 1] = Nl}

\* Positions are given as sets: {} stands for nullptr.
FindInLanes(block, from, lanes) ==
    LET hits == {i \in Loads(block, from, lanes) : Mask(block, i, lanes) # {}}
    IN  IF hits = {} THEN {}
        ELSE {Min(hits) + Min(Mask(block, Min(hits), lanes)) + 1}

FindNlScalar(block, from) ==
    LET hits == NewlinesIn(block, from, Len(block))
    IN  IF hits = {} THEN {} ELSE {Min(hits)}

FindNlSse2(block, from) ==
    LET hit == FindInLanes(block, from, Narrow)
    IN  IF hit # {} THEN hit ELSE FindNlScalar(block, Behind(block, from, Narrow))

FindNlAvx2(block) ==
    LET hit == FindInLanes(block, 0, Wide)
    IN  IF hit # {} THEN hit ELSE FindNlSse2(block, Behind(block, 0, Wide))

FindNl(block) ==
    CASE Level = 2 -> FindNlAvx2(block)
      [] Level = 1 -> FindNlSse2(block, 0)
      [] Level = 0 -> FindNlScalar(block, 0)

\* The bits set in all the masks.
CountInLanes(block, from, lanes) ==
    Cardinality(UNION {{i} \X Mask(block, i, lanes) : i \in Loads(block, from, lanes)})

CountNlScalar(block, from) == Cardinality(NewlinesIn(block, from, Len(block)))

CountNlSse2(block, from) ==
    CountInLanes(block, from, Narrow) + CountNlScalar(block, Behind(block, from, Narrow))

CountNlAvx2(block) ==
    CountInLanes(block, 0, Wide) + CountNlSse2(block, Behind(block, 0, Wide))

CountNl(block) ==
    CASE Level = 2 -> CountNlAvx2(block)
      [] Level = 1 -> CountNlSse2(block, 0)
      [] Level = 0 -> CountNlScalar(block, 0)
=============================================================================
