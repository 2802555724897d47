-------------------------- MODULE AbstractSemaphore --------------------------
(***************************************************************************)
(* What src/Thread/semaphore.h promises its users, without the mutex and   *)
(* the condition variable it is built from: a bag of permits, a set of     *)
(* threads blocked in wait(), and a scheduler that hands permits to them.  *)
(* ThreadPool.tla is written against this contract; Semaphore.tla shows    *)
(* that the code meets it.                                                 *)
(***************************************************************************)
EXTENDS Integers

CONSTANTS
    Callers,      \* the threads that call wait()
    PostSizes,    \* the arguments post() is called with
    MaxCount      \* BOUND: post() is not called beyond this many permits

VARIABLES
    permits,      \* posted and not yet consumed
    blocked       \* threads inside wait() that have not been served

vars == <<permits, blocked>>

Init == permits = 0 /\ blocked = {}

(* post(n) adds n permits and serves nobody by itself. *)
V(n) ==
    /\ permits + n <= MaxCount
    /\ permits' = permits + n
    /\ UNCHANGED blocked

(* wait() returns at once when a permit is there: a running caller may      *)
(* overtake the threads that already wait.                                  *)
P(t) ==
    /\ t \notin blocked
    /\ permits > 0
    /\ permits' = permits - 1
    /\ UNCHANGED blocked

(* wait() blocks when there is no permit. *)
Block(t) ==
    /\ t \notin blocked
    /\ permits = 0
    /\ blocked' = blocked \cup {t}
    /\ UNCHANGED permits

(* A blocked thread takes a permit and returns. *)
Grant(t) ==
    /\ t \in blocked
    /\ permits > 0
    /\ permits' = permits - 1
    /\ blocked' = blocked \ {t}

Next ==
    \/ \E n \in PostSizes : V(n)
    \/ \E t \in Callers : P(t) \/ Block(t) \/ Grant(t)

SafetySpec == Init /\ [][Next]_vars

(* No permit lies idle for ever while somebody waits for one. *)
Spec == SafetySpec /\ WF_vars(\E t \in Callers : Grant(t))
=============================================================================
