------------------------------- MODULE MCWepoll -------------------------------
(* A thread that waits again and again, another that does what it likes. *)
EXTENDS Wepoll

CONSTANTS w, c, s1, s2

MCThreads == {w, c}
MCLoops == {w}
MCChanging == {s1}
MCAsks == {<<{"in"}, FALSE>>, <<{"in"}, TRUE>>}
MCSocks == {s1, s2}
MCEvents == {"in"}
MCIds == 1..2
=============================================================================
