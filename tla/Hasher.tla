------------------------------- MODULE Hasher -------------------------------
(* My::Hasher (hash_glob.cpp:253-509) without its arithmetic.  SHA-256 and   *)
(* xxHash64 collect the bytes of updates of any length into blocks and work  *)
(* the blocks into their state, CRC-32 goes byte by byte; finalize pads what *)
(* is left over.  The state is taken for the sequence of what was worked     *)
(* into it, so that two digests are equal only if the code is right.         *)
EXTENDS Lines

CONSTANTS Full,    \* bytes of a block (64 and 32)
          LenField \* bytes of the block that SHA-256 keeps for the length (8)

ASSUME HasherAssumption == LenField \in Nat /\ Full \in Nat /\ LenField < Full

Algorithms == {"Sha256", "Crc32", "XxHash64"}

\* The constructor; also what finalize leaves.
NewHasher(algo) == [algo |-> algo, state |-> <<>>, pending |-> <<>>, total |-> 0]

\* The blocks of s, and what is left over.
BlocksOf(s) ==
    [i \in 1 .. Len(s) \div Full |-> SubSeq(s, Full * (i - 1) + 1, Full * i)]
RestOf(s) == SubSeq(s, Full * (Len(s) \div Full) + 1, Len(s))

\* update: the pending bytes are filled up to a block, the blocks are taken
\* from the argument, its rest is the new pending.
Update(h, bytes) ==
    IF h.algo = "Crc32" THEN [h EXCEPT !.state = @ \o bytes]
    ELSE LET take == IF h.pending = <<>> THEN 0 ELSE Min({Full - Len(h.pending), Len(bytes)})
             kept == h.pending \o SubSeq(bytes, 1, take)
             more == SubSeq(bytes, take + 1, Len(bytes))
         IN  [h EXCEPT !.total = @ + Len(bytes),
                       !.pending = IF Len(kept) < Full /\ more = <<>> THEN kept ELSE RestOf(more),
                       !.state = @ \o BlocksOf(kept) \o BlocksOf(more)]

\* What padding is made of.
Mark == <<"mark">>
Zeros(n) == [i \in 1 .. n |-> <<"zero">>]
LengthIs(n) == [i \in 1 .. LenField |-> <<"length", n>>]

\* sha256Final: the mark, zeros, and the length in the last block; one block
\* more if the mark does not leave room for the length.
ShaFinal(h) ==
    LET marked == Append(h.pending, Mark)
        full == Len(marked) > Full - LenField
        first == IF full THEN <<marked \o Zeros(Full - Len(marked))>> ELSE <<>>
        head == IF full THEN <<>> ELSE marked
    IN  h.state \o first \o <<head \o Zeros(Full - LenField - Len(head)) \o LengthIs(h.total)>>

\* crc32Final, and xxHash64Final: the accumulators count only if they were
\* ever used.
Finalize(h) ==
    CASE h.algo = "Sha256" -> ShaFinal(h)
      [] h.algo = "Crc32" -> h.state
      [] h.algo = "XxHash64" ->
            [state |-> IF h.total >= Full THEN h.state ELSE <<>>,
             total |-> h.total, pending |-> h.pending]
-----------------------------------------------------------------------------
(* The Hasher that has seen the bytes f, however they were cut.              *)
Hashed(algo, f) ==
    [algo |-> algo,
     state |-> IF algo = "Crc32" THEN f ELSE BlocksOf(f),
     pending |-> IF algo = "Crc32" THEN <<>> ELSE RestOf(f),
     total |-> IF algo = "Crc32" THEN 0 ELSE Len(f)]

(* The digest of the contents f, by the definition of the algorithms.        *)
Digest(algo, f) ==
    LET zeros == CHOOSE n \in 0 .. Full - 1 : (Len(f) + 1 + n + LenField) % Full = 0
    IN  CASE algo = "Sha256" ->
                BlocksOf(f \o <<Mark>> \o Zeros(zeros) \o LengthIs(Len(f)))
          [] algo = "Crc32" -> f
          [] algo = "XxHash64" ->
                [state |-> BlocksOf(f), total |-> Len(f), pending |-> RestOf(f)]
=============================================================================
