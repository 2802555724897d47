--------------------------- MODULE MCPollerEvents ---------------------------
(* Two descriptor numbers, each registered up to twice, so that a number   *)
(* can be deleted and used again while both are in the same batch.         *)
EXTENDS PollerEvents

CONSTANTS f1, f2

MCFds == {f1, f2}
=============================================================================
