-------------------------------- MODULE Glob --------------------------------
(* GlobMatch (hash_glob.cpp:7-33), which globFiles applies to the names in a *)
(* directory: '?' stands for one character, '*' for any number of them.  The *)
(* loop goes back to the last star only.                                     *)
EXTENDS Integers, Sequences

CONSTANTS Star, AnyChar   \* the characters '*' and '?'

ASSUME GlobAssumption == Star # AnyChar

NoStar == -1   \* npos

GlobMatch(pattern, name) ==
    LET P == Len(pattern)
        N == Len(name)
        \* A point of the loop: pi and ni, and starP and starN to go back to.
        Points == (0 .. P) \X (0 .. N) \X (NoStar .. P) \X (0 .. N)
        from[point \in Points] ==
            LET pi == point[1]
                ni == point[2]
                starP == point[3]
                starN == point[4]
            IN  CASE ni = N ->
                        \A i \in pi + 1 .. P : pattern[i] = Star
                  [] ni < N /\ pi < P /\ pattern[pi + 1] \in {AnyChar, name[ni + 1]} ->
                        from[<<pi + 1, ni + 1, starP, starN>>]
                  [] ni < N /\ pi < P /\ pattern[pi + 1] = Star
                            /\ pattern[pi + 1] # name[ni + 1] ->
                        from[<<pi + 1, ni, pi, ni>>]
                  [] ni < N /\ (pi < P => pattern[pi + 1] \notin {AnyChar, Star, name[ni + 1]})
                            /\ starP # NoStar ->
                        from[<<starP + 1, starN + 1, starP, starN + 1>>]
                  [] OTHER -> FALSE
    IN  from[<<0, 0, NoStar, 0>>]
-----------------------------------------------------------------------------
(* What the pattern means (docs/api.md:210), by its first character.        *)
Matches(pattern, name) ==
    LET P == Len(pattern)
        N == Len(name)
        from[i \in 1 .. P + 1, j \in 1 .. N + 1] ==
            IF i > P THEN j > N
            ELSE IF pattern[i] = Star
                 THEN from[i + 1, j] \/ (j <= N /\ from[i, j + 1])
                 ELSE j <= N /\ pattern[i] \in {AnyChar, name[j]} /\ from[i + 1, j + 1]
    IN  from[1, 1]
=============================================================================
