---------------------------- MODULE MCEventPoller ----------------------------
(* Two clients, three tasks, a pipe that is full after two bytes, is read    *)
(* byte by byte and breaks once.                                             *)
EXTENDS EventPoller

CONSTANTS c1, c2, t1, t2, t3

MCClients == {c1, c2}
MCTasks == {t1, t2, t3}
=============================================================================
