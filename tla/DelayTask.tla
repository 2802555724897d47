------------------------------ MODULE DelayTask ------------------------------
(***************************************************************************)
(* The timers of src/Poller/EventPoller.cpp (doDelayTask, getMinDelay,     *)
(* flushDelayTask) together with the millisecond clock of src/Util/util.cpp *)
(* they are compared with.                                                 *)
(*                                                                         *)
(* Two clocks matter.  Deadlines are on the library's own clock, `stamp`,  *)
(* which a thread advances by the time that has passed since its last      *)
(* round - unless that is a second or more, which it takes for a change of *)
(* the system's time and drops.  select() sleeps on the real clock.        *)
(*                                                                         *)
(* The multimap of timers is a set of entries: timers with equal deadlines *)
(* run in any order.                                                       *)
(***************************************************************************)
EXTENDS Integers, FiniteSets

CONSTANTS
    Timers,      \* BOUND: calls of doDelayTask
    Delays,      \* their delays, and those the tasks return; may contain 0
    Limit,       \* the second beyond which the clock drops what has passed
    MaxLost,     \* BOUND: time the clock drops in total
    MaxBusy,     \* BOUND: time that passes between two sleeps of the loop
    Horizon,     \* BOUND: deadlines
    MaxTime      \* BOUND: the real time

ASSUME DelayTaskAssumption ==
    /\ Delays \subseteq Nat
    /\ Limit \in Nat \ {0} /\ MaxLost \in Nat /\ MaxBusy \in Nat
    /\ Horizon \in Nat /\ MaxTime \in Nat

VARIABLES
    real, stamp, last,    \* real time, s_currentMillisecond, the thread's `last`
    pc,                   \* where the loop thread is
    map,                  \* delay_task_map_
    copy, now_time,       \* the locals of flushDelayTask
    running,              \* the entry whose task is executing, at most one
    minDelay,             \* what getMinDelay returned, -1 for "no timer"
    wake,                 \* when select() times out; empty for never
    posted,               \* timers other threads have queued for the loop
    made,                 \* calls of doDelayTask so far
    cancelled,
    busy                  \* time since the loop last slept

clock == <<real, stamp, last, busy>>
round == <<pc, copy, now_time, running, minDelay, wake>>
timers == <<map, posted, made>>
vars == <<clock, round, timers, cancelled>>

Entries == [time : Nat, task : Timers]

TypeOK ==
    /\ real \in Nat /\ stamp \in Nat /\ last \in Nat /\ busy \in Nat
    /\ pc \in {"min", "flush", "task", "poll", "sleep", "events"}
    /\ map \subseteq Entries /\ copy \subseteq Entries
    /\ posted \subseteq Entries /\ running \subseteq Entries
    /\ now_time \in Nat
    /\ minDelay \in Nat \cup {-1}
    /\ wake \subseteq Nat
    /\ made \subseteq Timers /\ cancelled \subseteq Timers
    /\ pc = "task" <=> running # {}
    /\ pc \notin {"flush", "task"} => copy = {}

Init ==
    /\ real = 0 /\ stamp = 0 /\ last = 0 /\ busy = 0
    /\ pc = "min"
    /\ map = {} /\ copy = {} /\ now_time = 0
    /\ running = {} /\ minDelay = -1 /\ wake = {}
    /\ posted = {} /\ made = {} /\ cancelled = {}

Earliest(S) == {e \in S : \A f \in S : e.time <= f.time}

(* The delay to the earliest deadline, computed from the entries S.         *)
MinDelay(S, now) ==
    \/ S = {} /\ minDelay' = -1
    \/ \E e \in Earliest(S) : minDelay' = e.time - now

-----------------------------------------------------------------------------
(* Time passes; the bounds keep the loop from being busy, and the clock     *)
(* from losing time, for ever.                                              *)
Tick ==
    /\ real < MaxTime
    /\ real + 1 - last < Limit \/ real + 1 - stamp <= MaxLost
    /\ pc = "sleep" \/ busy < MaxBusy
    /\ real' = real + 1
    /\ busy' = IF pc = "sleep" THEN busy ELSE busy + 1
    /\ UNCHANGED <<stamp, last, round, timers, cancelled>>

(* A round of the stamp thread. *)
Stamp ==
    /\ real > last
    /\ last' = real
    /\ stamp' = IF real - last < Limit THEN stamp + (real - last) ELSE stamp
    /\ UNCHANGED <<real, busy, round, timers, cancelled>>

-----------------------------------------------------------------------------
(* doDelayTask by another thread: the deadline is computed by the caller,   *)
(* the entry is made by the loop, which gets woken.                         *)
NewEntry(t, delay) ==
    /\ t \notin made
    /\ stamp + delay <= Horizon
    /\ made' = made \cup {t}

Post(t, delay) ==
    /\ NewEntry(t, delay)
    /\ posted' = posted \cup {[time |-> stamp + delay, task |-> t]}
    /\ UNCHANGED <<clock, round, map, cancelled>>

(* doDelayTask by a timer's task or by a callback: at once. *)
Insert(t, delay) ==
    /\ pc \in {"task", "events"}
    /\ NewEntry(t, delay)
    /\ map' = map \cup {[time |-> stamp + delay, task |-> t]}
    /\ UNCHANGED <<clock, round, posted, cancelled>>

Cancel(t) ==
    /\ t \in made
    /\ cancelled' = cancelled \cup {t}
    /\ UNCHANGED <<clock, round, timers>>

-----------------------------------------------------------------------------
(* getMinDelay. *)

(* Mutation: the deadline is not compared with the time. *)
MinDelayUnchecked ==
    /\ pc = "min"
    /\ MinDelay(map, stamp)
    /\ pc' = "poll"
    /\ UNCHANGED <<clock, copy, now_time, running, wake, timers, cancelled>>

NothingDue ==
    /\ pc = "min"
    /\ \A e \in map : e.time > stamp
    /\ MinDelay(map, stamp)
    /\ pc' = "poll"
    /\ UNCHANGED <<clock, copy, now_time, running, wake, timers, cancelled>>

(* flushDelayTask works on the whole map, and starts a new one. *)
FlushBegins ==
    /\ pc = "min"
    /\ \E e \in map : e.time <= stamp
    /\ now_time' = stamp
    /\ copy' = map /\ map' = {}
    /\ pc' = "flush"
    /\ UNCHANGED <<clock, running, minDelay, wake, posted, made, cancelled>>

(* Mutation: everything in the map is taken for expired. *)
FlushAll(e) ==
    /\ pc = "flush"
    /\ e \in Earliest(copy)
    /\ copy' = copy \ {e}
    /\ IF e.task \in cancelled THEN UNCHANGED <<pc, running>>
       ELSE pc' = "task" /\ running' = {e}
    /\ UNCHANGED <<clock, now_time, minDelay, wake, timers, cancelled>>

(* The next expired entry; the task of a cancelled one is not called. *)
Flush(e) ==
    /\ pc = "flush"
    /\ e \in Earliest(copy) /\ e.time <= now_time
    /\ copy' = copy \ {e}
    /\ IF e.task \in cancelled THEN UNCHANGED <<pc, running>>
       ELSE pc' = "task" /\ running' = {e}
    /\ UNCHANGED <<clock, now_time, minDelay, wake, timers, cancelled>>

(* The task returns 0, or throws. *)
TaskEnds ==
    /\ pc = "task"
    /\ running' = {} /\ pc' = "flush"
    /\ UNCHANGED <<clock, copy, now_time, minDelay, wake, timers, cancelled>>

(* Mutation: the next deadline is counted from the last one. *)
TaskRepeatsFromDeadline(e, delay) ==
    /\ pc = "task" /\ e \in running
    /\ now_time + delay <= Horizon
    /\ map' = map \cup {[time |-> e.time + delay, task |-> e.task]}
    /\ running' = {} /\ pc' = "flush"
    /\ UNCHANGED <<clock, copy, now_time, minDelay, wake, posted, made, cancelled>>

(* The task returns the delay of its next execution. *)
TaskRepeats(e, delay) ==
    /\ pc = "task" /\ e \in running
    /\ now_time + delay <= Horizon
    /\ map' = map \cup {[time |-> now_time + delay, task |-> e.task]}
    /\ running' = {} /\ pc' = "flush"
    /\ UNCHANGED <<clock, copy, now_time, minDelay, wake, posted, made, cancelled>>

(* Mutation: entries made while the tasks ran are lost. *)
FlushEndsForgetting ==
    /\ pc = "flush"
    /\ \A e \in copy : e.time > now_time
    /\ map' = copy /\ copy' = {}
    /\ MinDelay(copy, now_time)
    /\ pc' = "poll"
    /\ UNCHANGED <<clock, now_time, running, wake, posted, made, cancelled>>

FlushEnds ==
    /\ pc = "flush"
    /\ \A e \in copy : e.time > now_time
    /\ map' = copy \cup map /\ copy' = {}
    /\ MinDelay(copy \cup map, now_time)
    /\ pc' = "poll"
    /\ UNCHANGED <<clock, now_time, running, wake, posted, made, cancelled>>

-----------------------------------------------------------------------------
(* select() and the callbacks that follow. *)
Select ==
    /\ pc = "poll"
    /\ wake' = IF minDelay = -1 THEN {} ELSE {real + minDelay}
    /\ pc' = "sleep"
    /\ busy' = 0
    /\ UNCHANGED <<real, stamp, last, copy, now_time, running, minDelay, timers, cancelled>>

TimedOut == \E w \in wake : real >= w

(* Mutation: queueing a timer does not wake the loop. *)
WokenByTimeoutOnly == TimedOut

(* By the pipe, or by the timeout. *)
Woken == posted # {} \/ TimedOut

(* The loop also wakes for any other descriptor.  The pipe is served with   *)
(* the rest of the batch: what was queued enters the map.                   *)
WakeUp ==
    /\ pc = "sleep"
    /\ map' = map \cup posted /\ posted' = {}
    /\ pc' = "events"
    /\ UNCHANGED <<clock, copy, now_time, running, minDelay, wake, made, cancelled>>

EventsDone ==
    /\ pc = "events"
    /\ pc' = "min"
    /\ UNCHANGED <<clock, copy, now_time, running, minDelay, wake, timers, cancelled>>

-----------------------------------------------------------------------------
Step ==
    \/ NothingDue \/ FlushBegins \/ FlushEnds \/ TaskEnds \/ Select \/ EventsDone
    \/ \E e \in copy : Flush(e)

Next ==
    \/ Tick \/ Stamp \/ Step \/ WakeUp
    \/ \E e \in running, delay \in Delays \ {0} : TaskRepeats(e, delay)
    \/ \E t \in Timers, delay \in Delays : Post(t, delay) \/ Insert(t, delay)
    \/ \E t \in Timers : Cancel(t)

SafetySpec == Init /\ [][Next]_vars

(* Time goes on, the stamp thread and the loop run, timer tasks end and     *)
(* callbacks end, and select() returns when it is woken.                    *)
Spec ==
    /\ SafetySpec
    /\ WF_vars(Tick) /\ WF_vars(Stamp)
    /\ WF_vars(Step) /\ WF_vars(Woken /\ WakeUp)

-----------------------------------------------------------------------------
(* The loop compares deadlines with a time that it read before the tasks of *)
(* the round ran, and sleeps on another clock than the one the deadlines    *)
(* are on.  No task is called before its deadline.                          *)
NeverEarly == \A e \in running : e.time <= stamp

(* No task is called while another one the loop knows of has an earlier     *)
(* deadline - also if that one was added, or repeated, during the round.    *)
DeadlineOrder == \A e \in running, f \in copy \cup map : e.time <= f.time

(* An entry stays where the loop finds it until its task is called, or was  *)
(* cancelled and is due: none is lost while the map is taken apart and put  *)
(* together again around the calls.                                         *)
Waiting == posted \cup map \cup copy

NothingLost ==
    [][\A e \in Waiting \ Waiting' :
          e \in running' \/ (e.task \in cancelled /\ e.time <= stamp)]_vars

(* Every timer leaves the map: it is called, or was cancelled; whatever the *)
(* clock loses, whenever it is added, however the loop sleeps.              *)
EveryTimerFires ==
    \A t \in Timers :
        LET Pending == \E e \in Waiting : e.task = t
        IN  Pending ~> ~Pending
=============================================================================
