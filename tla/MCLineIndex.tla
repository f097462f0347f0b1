---------------------------- MODULE MCLineIndex ----------------------------
(* Instances of LineIndex for TLC.                                          *)
EXTENDS LineIndex

CONSTANT a

\* Empty, a line, lines with and without a newline at the end.
SomeFiles == {<<>>, <<Nl>>, <<a, Nl, a>>, <<Nl, Nl, Nl>>}

\* Two of the same size and ends.
AlikeFiles == {<<a, Nl, a>>, <<a, a, a>>}
=============================================================================
