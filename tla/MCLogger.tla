------------------------------- MODULE MCLogger -------------------------------
(* Two threads log messages of two texts; a writer is set, and replaced or   *)
(* removed.                                                                  *)
EXTENDS Logger

CONSTANTS p1, p2, a, b

MCProducers == {p1, p2}
MCTexts == {a, b}
=============================================================================
