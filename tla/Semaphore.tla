------------------------------ MODULE Semaphore ------------------------------
(***************************************************************************)
(* src/Thread/semaphore.h: a counting semaphore made of a recursive mutex, *)
(* a counter and a condition variable.                                     *)
(*                                                                         *)
(* Every critical section of the code is one action: _mutex is held from   *)
(* the first line of post() and wait() to the end, and the condition       *)
(* variable releases it only inside _condition.wait.  What the code does   *)
(* not control is which waiter notify_one() wakes, when a woken thread     *)
(* gets the mutex back, whether another caller of wait() takes the permit  *)
(* first, and spurious wake-ups: all of these are nondeterministic here.   *)
(***************************************************************************)
EXTENDS Integers, FiniteSets

CONSTANTS
    Callers,      \* the threads that call wait()
    PostSizes,    \* the arguments post() is called with (push_exit may pass 0)
    MaxCount      \* BOUND on _count: post() is not called beyond it

ASSUME SemaphoreAssumption ==
    /\ IsFiniteSet(Callers)
    /\ PostSizes \subseteq Nat
    /\ MaxCount \in Nat

VARIABLES
    count,        \* _count
    waiting,      \* threads blocked in _condition.wait(lock)
    notified      \* threads woken there that do not hold _mutex again yet

vars == <<count, waiting, notified>>

TypeOK ==
    /\ count \in 0..MaxCount
    /\ waiting \subseteq Callers
    /\ notified \subseteq Callers
    /\ waiting \cap notified = {}

Init ==
    /\ count = 0
    /\ waiting = {}
    /\ notified = {}

-----------------------------------------------------------------------------
(* notify_one() after a post of exactly one permit, notify_all() otherwise. *)
Woken(n, S) == IF n = 1 THEN \E t \in waiting : S = {t} ELSE S = waiting

Notify(n) ==
    IF waiting = {}
    THEN UNCHANGED <<waiting, notified>>
    ELSE \E S \in SUBSET waiting :
            /\ Woken(n, S)
            /\ waiting' = waiting \ S
            /\ notified' = notified \cup S

Post(n) ==
    /\ count + n <= MaxCount
    /\ count' = count + n
    /\ Notify(n)

(* Mutation: "if" for "while": a woken thread does not test _count again. *)
TakeWithoutRecheck(t) ==
    /\ t \notin waiting
    /\ count > 0 \/ t \in notified
    /\ count' = count - 1
    /\ notified' = notified \ {t}
    /\ UNCHANGED waiting

(* The while loop of wait(), with _mutex held: consume a permit and return. *)
(* A thread is here either for the first time or after it was woken.        *)
Take(t) ==
    /\ t \notin waiting
    /\ count > 0
    /\ count' = count - 1
    /\ notified' = notified \ {t}
    /\ UNCHANGED waiting

(* ... or find the counter at zero and go (back) to sleep. *)
Sleep(t) ==
    /\ t \notin waiting
    /\ count = 0
    /\ waiting' = waiting \cup {t}
    /\ notified' = notified \ {t}
    /\ UNCHANGED count

EnterWait(t) == t \notin notified /\ (Take(t) \/ Sleep(t))

Wake(t) == t \in notified /\ (Take(t) \/ Sleep(t))

(* Condition variables may wake a thread for no reason. *)
Spurious(t) ==
    /\ t \in waiting
    /\ waiting' = waiting \ {t}
    /\ notified' = notified \cup {t}
    /\ UNCHANGED count

Next ==
    \/ \E n \in PostSizes : Post(n)
    \/ \E t \in Callers : EnterWait(t) \/ Wake(t) \/ Spurious(t)

(* The operating system lets a woken thread reacquire _mutex. *)
Fairness == \A t \in Callers : WF_vars(Wake(t))

SafetySpec == Init /\ [][Next]_vars

Spec == SafetySpec /\ Fairness

-----------------------------------------------------------------------------
(* No lost wake-up: while a thread sleeps, every permit that is available   *)
(* is matched by a thread that was woken and will look at the counter       *)
(* again.  post() wakes one thread for one permit and everybody for any     *)
(* other number, and wait() re-tests the counter in a loop; together they   *)
(* keep this, across overtaking callers and spurious wake-ups.              *)
WakeupCovered == waiting # {} => count <= Cardinality(notified)

(* The semaphore implements the abstract one: permits are neither lost nor  *)
(* invented, and one that stays available while somebody waits is taken.    *)
Abstract == INSTANCE AbstractSemaphore
                WITH permits <- count, blocked <- waiting \cup notified

AbstractSpec == Abstract!Spec

=============================================================================
