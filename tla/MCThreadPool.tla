----------------------------- MODULE MCThreadPool -----------------------------
(* A pool of two threads, two clients (one where that is enough) and three tasks. *)
EXTENDS ThreadPool

CONSTANTS w1, w2, c1, c2, t1, t2, t3

MCWorkers == {w1, w2}
MCClients == {c1, c2}
MCOneClient == {c1}
MCTasks == {t1, t2, t3}
MCTwoTasks == {t1, t2}
=============================================================================
