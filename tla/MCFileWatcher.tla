--------------------------- MODULE MCFileWatcher ---------------------------
(* Instances of FileWatcher for TLC.                                        *)
EXTENDS FileWatcher

TwoFds == {1, 2}
=============================================================================
