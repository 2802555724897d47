----------------------------- MODULE LoadCounter -----------------------------
(***************************************************************************)
(* src/Thread/TaskExecutor.h, .cpp: ThreadLoadCounter, used by one thread  *)
(* (a poller's, or that of a ThreadPool of one), which calls startSleep    *)
(* and sleepWakeUp by turns around its wait, and neither before it has     *)
(* begun to wait; load() is called by any other, at any time.  The counter *)
(* records how long the thread slept and ran; load() drops the oldest      *)
(* records until they cover no more than a time.  Each method holds _mtx   *)
(* throughout; time is that of getCurrentMicrosecond, which does not go    *)
(* back.                                                                   *)
(***************************************************************************)
EXTENDS Integers, Sequences, FiniteSets, SequencesExt

CONSTANTS
    max_size,        \* _max_size
    max_usec,        \* _max_usec
    MaxTime          \* BOUND on time

LoadCounterAssumption == max_size \in Nat \ {0} /\ max_usec \in Nat \ {0} /\ MaxTime \in Nat

VARIABLES
    sleeping, last_sleep_time, last_wake_time, time_list,
    waits,           \* the thread is between startSleep and sleepWakeUp
    past,            \* for each unit of time since the start: did the thread run
    answer           \* what load() answered at this time, NoAnswer if it was not called

vars == <<sleeping, last_sleep_time, last_wake_time, time_list, waits, past, answer>>

NoAnswer == -1
now == Len(past)
Record(time, sleep) == [time |-> time, sleep |-> sleep]

TypeOK ==
    /\ sleeping \in BOOLEAN /\ waits \in BOOLEAN
    /\ last_sleep_time \in 0..now /\ last_wake_time \in 0..now
    /\ \A i \in DOMAIN time_list : time_list[i].time \in 0..now /\ time_list[i].sleep \in BOOLEAN
    /\ Len(time_list) <= max_size
    /\ past \in SeqOf(BOOLEAN, MaxTime)
    /\ answer \in Int

(* What the class declares its members with: the counter takes a thread that *)
(* has not yet called startSleep for asleep.                                 *)
Members == sleeping = TRUE /\ time_list = <<>>

Init ==
    /\ Members
    /\ last_sleep_time = 0 /\ last_wake_time = 0
    /\ waits = FALSE /\ past = <<>> /\ answer = NoAnswer

-----------------------------------------------------------------------------
Added(record) ==
    LET longer == Append(time_list, record)
    IN  IF Len(longer) > max_size THEN Tail(longer) ELSE longer

(* The thread begins to wait; where it is decides, not what is in the counter. *)
startSleep ==
    /\ ~waits
    /\ sleeping' = TRUE /\ waits' = TRUE
    /\ last_sleep_time' = now
    /\ time_list' = Added(Record(now - last_wake_time, FALSE))
    /\ answer' = NoAnswer
    /\ UNCHANGED <<last_wake_time, past>>

(* Mutation: the time of the record is taken from the wrong end. *)
WakeUpFromWake ==
    /\ waits
    /\ sleeping' = FALSE /\ waits' = FALSE
    /\ last_wake_time' = now
    /\ time_list' = Added(Record(now - last_wake_time, TRUE))
    /\ answer' = NoAnswer
    /\ UNCHANGED <<last_sleep_time, past>>

sleepWakeUp ==
    /\ waits
    /\ sleeping' = FALSE /\ waits' = FALSE
    /\ last_wake_time' = now
    /\ time_list' = Added(Record(now - last_sleep_time, TRUE))
    /\ answer' = NoAnswer
    /\ UNCHANGED <<last_sleep_time, past>>

(* for_each: what the first n of some records come to. *)
Sum(list, n) == LET sum[m \in 0..Len(list)] == IF m = 0 THEN 0 ELSE sum[m - 1] + list[m].time IN sum[n]
Running(list) == [i \in DOMAIN list |-> [list[i] EXCEPT !.time = IF list[i].sleep THEN 0 ELSE @]]
Total(list) == Sum(list, Len(list))
Since == now - (IF sleeping THEN last_sleep_time ELSE last_wake_time)

(* load: records are dropped from the front until the others fit. *)
load ==
    /\ answer = NoAnswer
    /\ LET size == Len(time_list)
           fits(n) == size = n \/ (Since + Total(time_list) - Sum(time_list, n) <= max_usec /\ size - n <= max_size)
           n == CHOOSE n \in 0..size : fits(n) /\ \A m \in 0..(n - 1) : ~fits(m)
           total == Since + Total(time_list) - Sum(time_list, n)
           run == Total(Running(time_list)) - Sum(Running(time_list), n) + (IF sleeping THEN 0 ELSE Since)
       IN  /\ time_list' = SubSeq(time_list, n + 1, size)
           /\ answer' = IF total = 0 THEN 0 ELSE (run * 100) \div total
    /\ UNCHANGED <<sleeping, last_sleep_time, last_wake_time, waits, past>>

Elapse ==
    /\ now < MaxTime
    /\ past' = Append(past, ~waits)
    /\ answer' = NoAnswer
    /\ UNCHANGED <<sleeping, last_sleep_time, last_wake_time, time_list, waits>>

Next == startSleep \/ sleepWakeUp \/ load \/ Elapse

Spec == Init /\ [][Next]_vars

-----------------------------------------------------------------------------
(* Not yet called startSleep: the code's _sleeping = true of the beginning. *)
Unstarted == sleeping /\ ~waits

(* The load is the share of the time in which the thread ran: the records,  *)
(* dropped one by one by all three methods, still cover without a gap the   *)
(* time that ends now, no longer than max_usec unless the thread has been   *)
(* doing one thing for longer.  But a thread that has not called startSleep *)
(* has no load, however long it has been running.                           *)
LoadIsShare ==
    answer # NoAnswer =>
        LET window == Since + Total(time_list)
            ran == Cardinality({i \in (now - window + 1)..now : past[i]})
        IN  /\ window <= now
            /\ window <= max_usec \/ window = Since
            /\ answer = IF window = 0 \/ Unstarted THEN 0 ELSE (ran * 100) \div window
===============================================================================
