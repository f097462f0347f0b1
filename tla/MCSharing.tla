------------------------------ MODULE MCSharing ------------------------------
(* Instances of Sharing for TLC.                                            *)
EXTENDS Sharing

CONSTANTS a, b, x

ShortFiles == UNION {[1 .. k -> {a, Nl}] : k \in 0 .. 3}
TinyFiles == {<<>>, <<a>>, <<Nl>>, <<a, Nl>>}
TwoThreads == {Owner, Other}

LineRanges ==
    {<<0, 1>>, <<1, 0>>, <<2, 1>>, <<1, 1>>, <<1, 2>>, <<2, 2>>, <<2, 3>>, <<3, 3>>,
     <<1, SizeMax>>, <<SizeMax, SizeMax>>}
One(api, n) == [api |-> api, first |-> n, last |-> n, text |-> <<x>>]
SomeEdits ==
    {One(api, n) : api \in {"insertBeforeLine", "insertAfterLine", "replaceLine"},
                   n \in {0, 1, 2, 3, SizeMax}}
    \cup {One("insertAt", n) : n \in 0 .. 4}
    \cup {[api |-> "deleteLines", first |-> r[1], last |-> r[2], text |-> <<>>] : r \in LineRanges}

Ranges == [api : {"readRange"}, offset : 0 .. 3, len : {0, 1, 2, ReadSizeMax}]
SomeReads == Ranges \cup [api : WholeApis \ {"readRange"}]

TwinFile == <<a, Nl>>
XTexts == {<<x>>}
BData == {<<b>>}
Replacing == {<<>>, <<b, Nl, b>>}
NoCalls == {}
=============================================================================
