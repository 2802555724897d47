---------------------------- MODULE MCNoticeCenter ----------------------------
(* Two calls at a time - an emission and what its callbacks do, or two       *)
(* threads - on three listeners, two of which share a tag.                   *)
EXTENDS NoticeCenter, TLC

CONSTANTS x1, x2, l1, l2, l3, p, q, d1, d2, d3

MCActivities == {x1, x2}
MCListeners == {l1, l2, l3}
MCTags == {p, q}
MCTag == l1 :> p @@ l2 :> p @@ l3 :> q
MCDispatchers == {d1, d2, d3}

Symmetry == Permutations(MCActivities) \cup Permutations(MCDispatchers)
=============================================================================
