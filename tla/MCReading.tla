----------------------------- MODULE MCReading -----------------------------
(* Instances of Reading for TLC, and the pure algorithms beside it.         *)
EXTENDS Reading, Glob

Numbers(api, ns) == [api : {api}, lines : {<<>>}, n : ns]
Picks(ls) == [api : {"readLines"}, lines : ls, n : {0}]

AllCalls ==
    Numbers("readLine", 0 .. 3) \cup Numbers("head", 0 .. 2)
    \cup Numbers("forEachLine", 0 .. 2) \cup Numbers("readAllLines", {0})
    \cup Numbers("tail", 0 .. 3) \cup Numbers("lineCount", {0})
    \cup Picks({<<>>, <<0>>, <<2>>, <<1, 2>>, <<2, 3>>, <<3, 1, 3>>})

TailCalls == Numbers("tail", {2})

\* The vector searches find the first newline and count all of them, for every
\* block that has each of their loops run (platform.cpp:254-440).
ScannedBlocks == UNION {[1 .. k -> {Nl, "other"}] : k \in 0 .. Wide + Narrow + 2}
ASSUME ScanIsExact ==
    \A block \in ScannedBlocks :
        LET all == NewlinesIn(block, 0, Len(block))
        IN  /\ CountNlAvx2(block) = Cardinality(all)
            /\ CountNlSse2(block, 0) = Cardinality(all)
            /\ FindNlAvx2(block) = FindNlScalar(block, 0)
            /\ FindNlSse2(block, 0) = FindNlScalar(block, 0)

\* Going back to the last star is enough: GlobMatch matches what the pattern
\* means, for names without a star (a star in the name is taken for the
\* pattern's before that is taken for a wildcard, hash_glob.cpp:12).
Words(letters, longest) == UNION {[1 .. k -> letters] : k \in 0 .. longest}
ASSUME GlobIsExact ==
    \A pattern \in Words({"a", "b", AnyChar, Star}, 5), name \in Words({"a", "b"}, 4) :
        GlobMatch(pattern, name) = Matches(pattern, name)
=============================================================================
