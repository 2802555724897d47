---------------------------- MODULE MCResourcePool ----------------------------
(* Two threads that use the pool, one of which may stop anywhere; three      *)
(* objects; a size that changes between one and two.                         *)
EXTENDS ResourcePool

CONSTANTS a, b, o1, o2, o3

MCThreads == {a, b}
MCScheduled == {a}
MCObjects == {o1, o2, o3}
=============================================================================
