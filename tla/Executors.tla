------------------------------ MODULE Executors ------------------------------
(***************************************************************************)
(* src/Thread/TaskExecutor.cpp: TaskExecutorGetterImp, the threads of      *)
(* EventPollerPool (src/Poller/EventPoller.cpp): which one a caller gets,  *)
(* and the measurement of how long each takes to come to a task.  The load *)
(* of a thread is anything from 0 up and changes at any time.              *)
(***************************************************************************)
EXTENDS Integers, Sequences, FiniteSets, SequencesExt

CONSTANTS
    Size,            \* of the pool: what addPoller was called with, or hardware_concurrency()
    Loads,           \* what load() may return: 0 and others
    Callers,         \* threads, not of the pool
    MaxDelays        \* BOUND on calls of getExecutorDelay

(* hardware_concurrency() may be 0: addPoller then divides by it. *)
ExecutorsAssumption ==
    /\ Size \in Nat \ {0}
    /\ Loads \subseteq Nat /\ 0 \in Loads
    /\ IsFiniteSet(Callers)

VARIABLES
    threads,         \* how many pollers addPoller has started
    thread_pos,      \* thread_pos_
    loads,           \* the load of each
    call,            \* caller -> its call of getExecutor
    rotation,        \* what calls without overlap have returned since a load changed
    given,           \* the next thread getExecutorDelay turns to, -1 outside of it
    closures,        \* threads that have a closure of getExecutorDelay
    measured,        \* threads that have written to delay_vec
    dropped,         \* threads that never will
    called,          \* how often the callback was called
    delays           \* calls of getExecutorDelay

delayVars == <<given, closures, measured, dropped, called, delays>>
vars == <<threads, thread_pos, loads, call, rotation, delayVars>>

Pool == 0..(Size - 1)
After(pos) == IF pos + 1 >= Size THEN 0 ELSE pos + 1
Idle == [pc |-> "idle"]

TypeOK ==
    /\ threads \in 0..Size /\ thread_pos \in Pool
    /\ loads \in [Pool -> Loads]
    /\ \A c \in Callers : call[c].pc \in {"idle", "search", "got"}
    /\ rotation \in SeqOf(Pool, Size)
    /\ closures \subseteq Pool /\ measured \subseteq Pool /\ dropped \subseteq Pool
    /\ given \in -1..Size /\ called \in 0..1 /\ delays \in 0..MaxDelays

Init ==
    /\ threads = 0 /\ thread_pos = 0
    /\ loads = [i \in Pool |-> 0]
    /\ call = [c \in Callers |-> Idle]
    /\ rotation = <<>>
    /\ given = -1 /\ closures = {} /\ measured = {} /\ dropped = {}
    /\ called = 0 /\ delays = 0

(* A round of addPoller, called by the constructor of the pool, before any other. *)
AddPoller ==
    /\ threads < Size
    /\ threads' = threads + 1
    /\ UNCHANGED <<thread_pos, loads, call, rotation, delayVars>>

LoadChanges(i, load) ==
    /\ threads = Size
    /\ load # loads[i]
    /\ loads' = [loads EXCEPT ![i] = load]
    /\ rotation' = <<>>
    /\ call' = [c \in Callers |-> IF call[c].pc = "search" THEN [call[c] EXCEPT !.calm = FALSE]
                                  ELSE call[c]]
    /\ UNCHANGED <<threads, thread_pos, delayVars>>

-----------------------------------------------------------------------------
(* getExecutor, also called by getPoller for a thread of its own.  There is no *)
(* lock: calls overlap, and thread_pos_ is read at the beginning and written   *)
(* at the end.                                                                 *)
Searching == {c \in Callers : call[c].pc = "search"}

Start(c) ==
    /\ threads = Size /\ call[c].pc # "search"
    /\ call' = [call EXCEPT ![c] =
                  [pc |-> "search", pos |-> thread_pos, i |-> 0, chosen |-> thread_pos,
                   min_load |-> loads[thread_pos],
                   asked |-> [p \in {thread_pos} |-> loads[thread_pos]], calm |-> TRUE]]
    /\ rotation' = IF Searching = {} THEN rotation ELSE <<>>
    /\ UNCHANGED <<threads, thread_pos, loads, delayVars>>

(* A round of the loop moves on, asks, compares; the search ends with the first *)
(* executor that has nothing to do, or when all were asked.                     *)
Asked(s) ==
    LET pos == After(s.pos)
        load == loads[pos]
    IN  [s EXCEPT !.pos = pos, !.i = @ + 1,
                  !.asked = [p \in DOMAIN s.asked \cup {pos} |-> IF p = pos THEN load ELSE s.asked[p]],
                  !.chosen = IF load < s.min_load THEN pos ELSE @,
                  !.min_load = IF load < @ THEN load ELSE @]

Returned(c, s) ==
    IF Searching # {c} \/ ~s.calm THEN <<>>
    ELSE Append(IF Len(rotation) < Size THEN rotation ELSE Tail(rotation), s.chosen)

(* Mutation: the place where the next search begins is that of the chosen one. *)
CompareStay(c) ==
    /\ c \in Searching
    /\ LET s == Asked(call[c])
       IN  IF s.min_load = 0 \/ s.i = Size
           THEN /\ thread_pos' = s.chosen
                /\ call' = [call EXCEPT ![c] = [s EXCEPT !.pc = "got"]]
                /\ rotation' = Returned(c, s)
           ELSE /\ call' = [call EXCEPT ![c] = s]
                /\ UNCHANGED <<thread_pos, rotation>>
    /\ UNCHANGED <<threads, loads, delayVars>>

Compare(c) ==
    /\ c \in Searching
    /\ LET s == Asked(call[c])
       IN  IF s.min_load = 0 \/ s.i = Size
           THEN /\ thread_pos' = s.pos
                /\ call' = [call EXCEPT ![c] = [s EXCEPT !.pc = "got"]]
                /\ rotation' = Returned(c, s)
           ELSE /\ call' = [call EXCEPT ![c] = s]
                /\ UNCHANGED <<thread_pos, rotation>>
    /\ UNCHANGED <<threads, loads, delayVars>>

-----------------------------------------------------------------------------
(* getExecutorDelay: the caller and the closures that it queues, one for each *)
(* thread, own `finished`; the last one to let it go calls the callback.      *)
Owned(place, rest) == place # -1 \/ rest # {}
(* Mutation: the caller has handed its share to the closures. *)
SettleUnheld == called' = IF closures # {} /\ closures' = {} THEN called + 1 ELSE called

Settle == called' = IF Owned(given, closures) /\ ~Owned(given', closures') THEN called + 1 ELSE called

Delay ==
    /\ threads = Size /\ delays < MaxDelays /\ ~Owned(given, closures)
    /\ delays' = delays + 1
    /\ given' = 0 /\ measured' = {} /\ dropped' = {} /\ called' = 0
    /\ UNCHANGED <<threads, thread_pos, loads, call, rotation, closures>>

DelayGive ==
    /\ given \in Pool
    /\ given' = given + 1
    /\ closures' = closures \cup {given}
    /\ Settle
    /\ UNCHANGED <<threads, thread_pos, loads, call, rotation, measured, dropped, delays>>

DelayReturn ==
    /\ given = Size
    /\ given' = -1
    /\ UNCHANGED closures
    /\ Settle
    /\ UNCHANGED <<threads, thread_pos, loads, call, rotation, measured, dropped, delays>>

(* A thread runs its closure, or is destroyed and drops it. *)
RunClosure(i) ==
    /\ i \in closures
    /\ closures' = closures \ {i}
    /\ measured' = measured \cup {i}
    /\ UNCHANGED given
    /\ Settle
    /\ UNCHANGED <<threads, thread_pos, loads, call, rotation, dropped, delays>>

DropClosure(i) ==
    /\ i \in closures
    /\ closures' = closures \ {i}
    /\ dropped' = dropped \cup {i}
    /\ UNCHANGED given
    /\ Settle
    /\ UNCHANGED <<threads, thread_pos, loads, call, rotation, measured, delays>>

Next ==
    \/ AddPoller
    \/ \E i \in Pool, load \in Loads : LoadChanges(i, load)
    \/ \E c \in Callers : Start(c) \/ Compare(c)
    \/ Delay \/ DelayGive \/ DelayReturn
    \/ \E i \in Pool : RunClosure(i) \/ DropClosure(i)

Spec == Init /\ [][Next]_vars

-----------------------------------------------------------------------------
(* A caller gets an executor of which no load was higher than any that it was *)
(* told; and while nothing has anything to do, as many calls as there are     *)
(* executors, one after the other, go to as many executors.                   *)
SpreadsLoad ==
    /\ \A c \in Callers : call[c].pc = "got" =>
          /\ DOMAIN call[c].asked = Pool \/ call[c].min_load = 0
          /\ \A p \in DOMAIN call[c].asked : call[c].min_load <= call[c].asked[p]
    /\ (\A i \in Pool : loads[i] = 0) => IsInjective(rotation)

(* The callback of a measurement is called once, when every thread has come to *)
(* its closure or has dropped it, and not while some are still being queued.   *)
MeasuredOnce ==
    delays > 0 =>
        /\ called = IF Owned(given, closures) THEN 0 ELSE 1
        /\ called = 1 => measured \cup dropped = Pool /\ measured \cap dropped = {}
===============================================================================
