--------------------------- MODULE MCAtomicWrite ---------------------------
(* Small instances of AtomicWrite for TLC: an empty value and one of two    *)
(* blocks, writers in one process or in two.                                *)
EXTENDS AtomicWrite, TLC

CONSTANTS w1, w2, r1, p1, p2, a, b

SizeAB == [v \in Values |-> IF v = a THEN 0 ELSE 2]
OneProcess == [t \in Writers \cup Readers |-> p1]
ReaderApart == [t \in Writers \cup Readers |-> IF t = r1 THEN p2 ELSE p1]
TwoProcesses == [t \in Writers \cup Readers |-> IF t = w1 THEN p1 ELSE p2]

(* Inodes are interchangeable, and so are writers of one process.           *)
InodeSymmetry == Permutations(Inodes)
FullSymmetry == InodeSymmetry \cup Permutations(Writers)
============================================================================
