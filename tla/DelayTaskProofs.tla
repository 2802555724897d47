-------------------------- MODULE DelayTaskProofs --------------------------
(***************************************************************************)
(* Theorems about the timers of src/Poller/EventPoller.cpp, for any timers *)
(* and delays, and for a clock that loses time whenever it likes; and      *)
(* about the calendar of src/Util/local_time.cpp, for any times since 1970 *)
(* and any time zone.                                                      *)
(***************************************************************************)
EXTENDS DelayTask, WellFoundedInduction, TLAPS

(* What a round relies on: time does not go back, and what enters the map   *)
(* while it is taken apart is due no earlier than the round.                *)
RoundInv ==
    /\ last <= real
    /\ now_time <= stamp
    /\ pc \in {"flush", "task"} => \A f \in map : now_time <= f.time
    /\ \A e \in running :
          /\ e.time <= now_time
          /\ \A f \in copy : e.time <= f.time

Inv == TypeOK /\ RoundInv

-----------------------------------------------------------------------------
(* A delay computed from entries that are not before `now` is none or is    *)
(* not negative.                                                            *)
LEMMA MinDelayType ==
  ASSUME NEW S \in SUBSET Entries, NEW now \in Nat,
         \A e \in S : now <= e.time,
         MinDelay(S, now)
  PROVE  minDelay' \in Nat \cup {-1}
<1>1. CASE S = {} /\ minDelay' = -1
  BY <1>1
<1>2. ASSUME NEW e \in Earliest(S), minDelay' = e.time - now
      PROVE  minDelay' \in Nat \cup {-1}
  <2>1. e \in S /\ e.time \in Nat /\ now <= e.time
    BY <1>2 DEF Earliest, Entries
  <2>2. QED
    BY <1>2, <2>1
<1>3. QED
  BY <1>1, <1>2 DEF MinDelay

LEMMA InitInv == Init => Inv
BY DelayTaskAssumption DEF Init, Inv, TypeOK, RoundInv

(* The steps of the clock. *)
LEMMA ClockStep ==
  ASSUME Inv, Tick \/ Stamp
  PROVE  Inv'
<1>1. CASE Tick
  BY <1>1 DEF Tick, Inv, TypeOK, RoundInv, round, timers
<1>2. CASE Stamp
  BY <1>2 DEF Stamp, Inv, TypeOK, RoundInv, round, timers
<1>3. QED
  BY <1>1, <1>2

(* doDelayTask. *)
LEMMA ClientStep ==
  ASSUME Inv, NEW t \in Timers, NEW delay \in Delays,
         Post(t, delay) \/ Insert(t, delay)
  PROVE  Inv'
<1> DEFINE new == [time |-> stamp + delay, task |-> t]
<1>1. stamp \in Nat /\ delay \in Nat /\ now_time \in Nat /\ now_time <= stamp
  BY DelayTaskAssumption DEF Inv, TypeOK, RoundInv
<1>2. new \in Entries /\ now_time <= new.time
  BY <1>1 DEF Entries
<1> HIDE DEF new
<1>3. CASE Post(t, delay)
  BY <1>2, <1>3 DEF Post, NewEntry, Inv, TypeOK, RoundInv, clock, round, new
<1>4. CASE Insert(t, delay)
  BY <1>2, <1>4 DEF Insert, NewEntry, Inv, TypeOK, RoundInv, clock, round, new
<1>5. QED
  BY <1>3, <1>4

(* getMinDelay and the steps of flushDelayTask. *)
LEMMA FlushStep ==
  ASSUME Inv,
         \/ NothingDue \/ FlushBegins \/ FlushEnds \/ TaskEnds
         \/ \E e \in copy : Flush(e)
         \/ \E e \in running, delay \in Delays \ {0} : TaskRepeats(e, delay)
  PROVE  Inv'
<1>0. /\ TypeOK /\ RoundInv
      /\ stamp \in Nat /\ now_time \in Nat
      /\ map \in SUBSET Entries /\ copy \in SUBSET Entries
      /\ \A e \in Entries : e.time \in Nat
  BY DEF Inv, TypeOK, Entries
<1>1. CASE NothingDue
  <2>1. \A e \in map : stamp <= e.time
    BY <1>0, <1>1 DEF NothingDue
  <2>2. minDelay' \in Nat \cup {-1}
    BY <1>0, <1>1, <2>1, MinDelayType DEF NothingDue
  <2>3. QED
    BY <1>0, <1>1, <2>2 DEF NothingDue, Inv, TypeOK, RoundInv, clock, timers
<1>2. CASE FlushBegins
  BY <1>0, <1>2 DEF FlushBegins, Inv, TypeOK, RoundInv, clock
<1>3. CASE FlushEnds
  <2>1. \A e \in copy \cup map : now_time <= e.time
    BY <1>0, <1>3 DEF FlushEnds, RoundInv
  <2>2. minDelay' \in Nat \cup {-1}
    BY <1>0, <1>3, <2>1, MinDelayType DEF FlushEnds
  <2>3. QED
    BY <1>0, <1>3, <2>2 DEF FlushEnds, Inv, TypeOK, RoundInv, clock
<1>4. CASE TaskEnds
  BY <1>0, <1>4 DEF TaskEnds, Inv, TypeOK, RoundInv, clock, timers
<1>5. ASSUME NEW e \in copy, Flush(e)
      PROVE  Inv'
  <2>1. /\ e.time <= now_time
        /\ \A f \in copy : e.time <= f.time
    BY <1>5 DEF Flush, Earliest
  <2>2. CASE e.task \in cancelled
    BY <1>0, <1>5, <2>2 DEF Flush, Inv, TypeOK, RoundInv, clock, timers
  <2>3. CASE e.task \notin cancelled
    BY <1>0, <1>5, <2>1, <2>3 DEF Flush, Inv, TypeOK, RoundInv, clock, timers
  <2>4. QED
    BY <2>2, <2>3
<1>6. ASSUME NEW e \in running, NEW delay \in Delays \ {0}, TaskRepeats(e, delay)
      PROVE  Inv'
  <2> DEFINE next == [time |-> now_time + delay, task |-> e.task]
  <2>1. delay \in Nat /\ e \in Entries
    BY <1>0, DelayTaskAssumption DEF TypeOK
  <2>2. next \in Entries /\ now_time <= next.time
    BY <1>0, <2>1 DEF Entries
  <2> HIDE DEF next
  <2>3. map' = map \cup {next}
    BY <1>6 DEF TaskRepeats, next
  <2>4. QED
    BY <1>0, <1>6, <2>2, <2>3
       DEF TaskRepeats, Inv, TypeOK, RoundInv, clock
<1>7. QED
  BY <1>1, <1>2, <1>3, <1>4, <1>5, <1>6

(* The sleep of select() and the callbacks. *)
LEMMA SleepStep ==
  ASSUME Inv, Select \/ WakeUp \/ EventsDone
  PROVE  Inv'
<1>1. CASE Select
  <2>1. real \in Nat /\ minDelay \in Nat \cup {-1}
    BY DEF Inv, TypeOK
  <2>2. wake' \subseteq Nat
    BY <1>1, <2>1 DEF Select
  <2>3. QED
    BY <1>1, <2>2 DEF Select, Inv, TypeOK, RoundInv, timers
<1>2. CASE WakeUp
  BY <1>2 DEF WakeUp, Inv, TypeOK, RoundInv, clock
<1>3. CASE EventsDone
  BY <1>3 DEF EventsDone, Inv, TypeOK, RoundInv, clock, timers
<1>4. QED
  BY <1>1, <1>2, <1>3

LEMMA NextInv == Inv /\ [Next]_vars => Inv'
<1> SUFFICES ASSUME Inv, [Next]_vars
             PROVE  Inv'
  OBVIOUS
<1>1. CASE UNCHANGED vars
  BY <1>1 DEF vars, clock, round, timers, Inv, TypeOK, RoundInv
<1>2. CASE Next
  <2>1. CASE Tick \/ Stamp
    BY <2>1, ClockStep
  <2>2. CASE Select \/ WakeUp \/ EventsDone
    BY <2>2, SleepStep
  <2>3. CASE \/ NothingDue \/ FlushBegins \/ FlushEnds \/ TaskEnds
             \/ \E e \in copy : Flush(e)
             \/ \E e \in running, delay \in Delays \ {0} : TaskRepeats(e, delay)
    BY <2>3, FlushStep
  <2>4. ASSUME NEW t \in Timers, NEW delay \in Delays,
               Post(t, delay) \/ Insert(t, delay)
        PROVE  Inv'
    BY <2>4, ClientStep
  <2>5. ASSUME NEW t \in Timers, Cancel(t)
        PROVE  Inv'
    BY <2>5 DEF Cancel, Inv, TypeOK, RoundInv, clock, round, timers
  <2>6. QED
    BY <1>2, <2>1, <2>2, <2>3, <2>4, <2>5 DEF Next, Step
<1>3. QED
  BY <1>1, <1>2

LEMMA Invariant == SafetySpec => []Inv
BY InitInv, NextInv, PTL DEF SafetySpec

-----------------------------------------------------------------------------
(* The state is well formed; in particular the delay that select() is given *)
(* is never negative, which it would take for "sleep for ever".             *)
THEOREM TypeCorrect == SafetySpec => []TypeOK
<1>1. Inv => TypeOK
  BY DEF Inv
<1>2. QED
  BY <1>1, Invariant, PTL

(* flushDelayTask calls no task before its deadline. *)
THEOREM NoTaskIsEarly == SafetySpec => []NeverEarly
<1>1. Inv => NeverEarly
  <2> SUFFICES ASSUME Inv, NEW e \in running
               PROVE  e.time <= stamp
    BY DEF NeverEarly
  <2>1. e.time \in Nat /\ now_time \in Nat /\ stamp \in Nat
    BY DEF Inv, TypeOK, Entries
  <2>2. e.time <= now_time /\ now_time <= stamp
    BY DEF Inv, RoundInv
  <2>3. QED
    BY <2>1, <2>2
<1>2. QED
  BY <1>1, Invariant, PTL

(* flushDelayTask calls tasks in the order of their deadlines, those that   *)
(* are added or repeated meanwhile included.                                *)
THEOREM TasksRunInOrder == SafetySpec => []DeadlineOrder
<1>1. Inv => DeadlineOrder
  <2> SUFFICES ASSUME Inv, NEW e \in running, NEW f \in copy \cup map
               PROVE  e.time <= f.time
    BY DEF DeadlineOrder
  <2>1. e.time \in Nat /\ f.time \in Nat /\ now_time \in Nat /\ pc = "task"
    BY DEF Inv, TypeOK, Entries
  <2>2. CASE f \in copy
    BY <2>2 DEF Inv, RoundInv
  <2>3. CASE f \in map
    BY <2>1, <2>3 DEF Inv, RoundInv
  <2>4. QED
    BY <2>2, <2>3
<1>2. QED
  BY <1>1, Invariant, PTL

(* No step of any thread loses a timer.                                     *)
THEOREM NoTimerIsLost == SafetySpec => NothingLost
<1> DEFINE Kept == \A e \in Waiting \ Waiting' :
                      e \in running' \/ (e.task \in cancelled /\ e.time <= stamp)
<1>1. ASSUME Inv, [Next]_vars
      PROVE  [Kept]_vars
  <2>1. CASE UNCHANGED vars
    BY <2>1
  <2>2. CASE \/ Tick \/ Stamp \/ NothingDue \/ TaskEnds \/ Select \/ EventsDone
             \/ \E t \in Timers : Cancel(t)
    <3>1. Waiting' = Waiting
      BY <2>2 DEF Waiting, Tick, Stamp, NothingDue, TaskEnds, Select,
                  EventsDone, Cancel, timers, round
    <3>2. QED
      BY <3>1
  <2>3. CASE \/ FlushBegins \/ FlushEnds \/ WakeUp
             \/ \E t \in Timers, delay \in Delays :
                   Post(t, delay) \/ Insert(t, delay)
             \/ \E e \in running, delay \in Delays \ {0} : TaskRepeats(e, delay)
    <3> SUFFICES Waiting \subseteq Waiting'
      OBVIOUS
    <3>1. CASE FlushBegins
      BY <1>1, <3>1 DEF Waiting, FlushBegins, Inv, TypeOK
    <3>2. CASE FlushEnds
      BY <3>2 DEF Waiting, FlushEnds
    <3>3. CASE WakeUp
      BY <3>3 DEF Waiting, WakeUp
    <3>4. ASSUME NEW t \in Timers, NEW delay \in Delays,
                 Post(t, delay) \/ Insert(t, delay)
          PROVE  Waiting \subseteq Waiting'
      BY <3>4 DEF Waiting, Post, Insert, round
    <3>5. ASSUME NEW e \in running, NEW delay \in Delays \ {0},
                 TaskRepeats(e, delay)
          PROVE  Waiting \subseteq Waiting'
      BY <3>5 DEF Waiting, TaskRepeats
    <3>6. QED
      BY <2>3, <3>1, <3>2, <3>3, <3>4, <3>5
  <2>4. ASSUME NEW e \in copy, Flush(e)
        PROVE  Kept
    <3>1. Waiting \ Waiting' \subseteq {e}
      BY <2>4 DEF Waiting, Flush, timers
    <3>2. e.time <= stamp
      <4>1. e.time \in Nat /\ now_time \in Nat /\ stamp \in Nat
        BY <1>1 DEF Inv, TypeOK, Entries
      <4>2. e.time <= now_time /\ now_time <= stamp
        BY <1>1, <2>4 DEF Inv, RoundInv, Flush
      <4>3. QED
        BY <4>1, <4>2
    <3>3. e \in running' \/ e.task \in cancelled
      BY <2>4 DEF Flush
    <3>4. QED
      BY <3>1, <3>2, <3>3
  <2>5. QED
    BY <1>1, <2>1, <2>2, <2>3, <2>4 DEF Next, Step
<1>2. QED
  BY <1>1, Invariant, PTL DEF SafetySpec, NothingLost
-----------------------------------------------------------------------------
CONSTANTS secs_min, secs_hour, secs_day, Zones, Instants
VARIABLES dst, _current_timezone, _daylight_active, told

Calendar == INSTANCE LocalTime

(* What LocalTime.tla assumes of its constants. *)
CalendarUsed ==
    /\ secs_min \in Nat \ {0} /\ secs_hour \in Nat \ {0} /\ secs_day = 24 * secs_hour
    /\ secs_hour % secs_min = 0
    /\ Zones \subseteq Int /\ Instants \subseteq Int
    /\ \A zone \in Zones, t \in Instants : t - zone \in Nat

LEMMA LeastOf ==
  ASSUME NEW S \in SUBSET Nat, S # {}
  PROVE  \E n \in S : \A m \in S : n <= m
<1> DEFINE R == {ss \in Nat \X Nat : ss[1] < ss[2]}
<1>1. IsWellFoundedOn(R, Nat)
  BY NatLessThanWellFounded DEF OpToRel
<1>2. \A x, y \in Nat : y < x => <<y, x>> \in R
  <2> SUFFICES ASSUME NEW x \in Nat, NEW y \in Nat, y < x PROVE <<y, x>> \in R
    OBVIOUS
  <2>1. <<y, x>> \in Nat \X Nat /\ <<y, x>>[1] < <<y, x>>[2]
    OBVIOUS
  <2>2. QED
    BY <2>1
<1> HIDE DEF R
<1>3. PICK x \in S : \A y \in S : ~ (<<y, x>> \in R)
  BY <1>1, WFMin
<1>4. ASSUME NEW m \in S PROVE x <= m
  <2>1. x \in Nat /\ m \in Nat
    OBVIOUS
  <2>2. ~ (m < x)
    BY <1>2, <1>3, <2>1
  <2>3. QED
    BY <2>1, <2>2
<1>5. QED
  BY <1>4

LEMMA UpTo ==
  ASSUME NEW N \in Nat, NEW S, 0 \in S, \A n \in 0..(N - 1) : n \in S => n + 1 \in S
  PROVE  0..N \subseteq S
<1> SUFFICES ASSUME (0..N) \ S # {} PROVE FALSE
  OBVIOUS
<1>1. (0..N) \ S \in SUBSET Nat
  OBVIOUS
<1>2. PICK n \in (0..N) \ S : \A m \in (0..N) \ S : n <= m
  BY <1>1, LeastOf
<1>3. n # 0 /\ n - 1 \in 0..(N - 1)
  BY <1>2
<1>4. n - 1 \in S
  BY <1>2, <1>3
<1>5. QED
  BY <1>2, <1>3, <1>4

(* The days from 1 January 1970 to the first of a year, by the calendar. *)
Before(year) ==
    365 * (year - 1) + ((year - 1) \div 4) - ((year - 1) \div 100) + ((year - 1) \div 400) - 719162

LEMMA BeforeNext ==
  ASSUME NEW year \in Nat, year >= 1
  PROVE  /\ Before(year) \in Int /\ Calendar!is_leap_year(year) \in {0, 1}
         /\ Before(year + 1) = Before(year) + 365 + Calendar!is_leap_year(year)
  BY SMTT(60) DEF Before, Calendar!is_leap_year

(* What the loop over the years has left. *)
TakenOff(N, days, left) ==
    /\ left[0] = days
    /\ \A n \in 0..N : n # 0 => left[n] = left[n - 1] - 365 - Calendar!is_leap_year(1969 + n)

LEMMA YearsLeft ==
  ASSUME NEW N \in Nat, NEW days \in Nat, NEW left, TakenOff(N, days, left)
  PROVE  \A n \in 0..N : left[n] = days - Before(1970 + n)
<1> DEFINE S == {n \in 0..N : left[n] = days - Before(1970 + n)}
<1>1. 0 \in S
  <2>1. Before(1970 + 0) = 0
    BY DEF Before
  <2>2. left[0] = days /\ 0 \in 0..N
    BY DEF TakenOff
  <2>3. QED
    BY <2>1, <2>2
<1>2. ASSUME NEW n \in 0..(N - 1), n \in S
      PROVE  n + 1 \in S
  <2>1. n + 1 \in 0..N /\ n + 1 # 0 /\ (n + 1) - 1 = n /\ 1969 + (n + 1) = 1970 + n
    OBVIOUS
  <2>2. left[n + 1] = left[n] - 365 - Calendar!is_leap_year(1970 + n)
    BY <2>1 DEF TakenOff
  <2>3. left[n] = days - Before(1970 + n)
    BY <1>2
  <2>4. /\ Before(1970 + n) \in Int /\ Calendar!is_leap_year(1970 + n) \in Int
        /\ Before((1970 + n) + 1) = Before(1970 + n) + 365 + Calendar!is_leap_year(1970 + n)
    BY BeforeNext
  <2>5. left[n + 1] = days - Before(1970 + (n + 1))
    BY <2>2, <2>3, <2>4
  <2>6. QED
    BY <2>1, <2>5
<1> HIDE DEF S
<1>3. 0..N \subseteq S
  BY <1>1, <1>2, UpTo
<1>4. QED
  BY <1>3 DEF S

(* Every day is in one of the years that the loop may come to. *)
LEMMA YearFound ==
  ASSUME NEW days \in Nat
  PROVE  \E n \in 0..(days \div 365) : Before(1970 + n) <= days /\ days < Before(1971 + n)
<1> DEFINE N == days \div 365
           S == {n \in 0..N : days < Before(1971 + n)}
           L == {n \in 0..N : Before(1971 + n) >= 365 * (n + 1)}
<1>0. N \in Nat /\ days < 365 * (N + 1)
  OBVIOUS
<1>1. Before(1970) = 0
  BY DEF Before
<1>2. 0 \in L
  <2>1. Before(1971) = 365
    BY DEF Before
  <2>2. 0 \in 0..N
    BY <1>0
  <2>3. QED
    BY <2>1, <2>2
<1>3. ASSUME NEW n \in 0..(N - 1), n \in L
      PROVE  n + 1 \in L
  <2>1. /\ Before(1971 + n) \in Int /\ Calendar!is_leap_year(1971 + n) \in {0, 1}
        /\ Before((1971 + n) + 1) = Before(1971 + n) + 365 + Calendar!is_leap_year(1971 + n)
    BY BeforeNext
  <2>2. Before(1971 + n) >= 365 * (n + 1)
    BY <1>3
  <2>3. Before(1971 + (n + 1)) >= 365 * ((n + 1) + 1)
    BY <2>1, <2>2
  <2>4. n + 1 \in 0..N
    BY <1>0
  <2>5. QED
    BY <2>3, <2>4
<1> HIDE DEF L
<1>4. N \in L
  BY <1>0, <1>2, <1>3, UpTo
<1>5. N \in S
  <2>1. Before(1971 + N) >= 365 * (N + 1)
    BY <1>4 DEF L
  <2>2. Before(1971 + N) \in Int
    <3>1. 1971 + N \in Nat /\ 1971 + N >= 1
      BY <1>0
    <3>2. QED
      BY <3>1, BeforeNext
  <2> HIDE DEF N
  <2>3. days < Before(1971 + N)
    BY <1>0, <2>1, <2>2
  <2>4. QED
    BY <1>0, <2>3
<1>6. S \in SUBSET Nat
  BY <1>0
<1> HIDE DEF S, N
<1>7. PICK n \in S : \A m \in S : n <= m
  BY <1>5, <1>6, LeastOf
<1>8. n \in 0..N /\ days < Before(1971 + n)
  BY <1>7 DEF S
<1>9. Before(1970 + n) <= days
  <2>1. CASE n = 0
    BY <1>1, <2>1
  <2>2. CASE n # 0
    <3>1. n - 1 \in 0..N /\ n - 1 \notin S /\ 1971 + (n - 1) = 1970 + n
      BY <1>0, <1>7, <1>8, <2>2
    <3>2. Before(1970 + n) \in Int
      BY <1>8, BeforeNext
    <3>3. ~(days < Before(1971 + (n - 1)))
      BY <3>1 DEF S
    <3>4. QED
      BY <3>1, <3>2, <3>3
  <2>3. QED
    BY <2>1, <2>2
<1>10. QED
  BY <1>8, <1>9 DEF N
LEMMA YearRight ==
  ASSUME NEW days \in Nat
  PROVE  LET y == Calendar!YearOf(days)
         IN  /\ y.year \in Nat /\ y.year >= 1970
             /\ y.yday = days - Before(y.year)
             /\ y.yday \in 0..(364 + Calendar!is_leap_year(y.year))
<1> DEFINE N == days \div 365
           Leap(n) == Calendar!is_leap_year(1969 + n)
           Lefts(f) == f = [n \in 0..N |-> IF n = 0 THEN days ELSE f[n - 1] - 365 - Leap(n)]
           left == CHOOSE f : Lefts(f)
           Ends(n) == left[n] \in 0..(364 + Calendar!is_leap_year(1970 + n))
           end == CHOOSE n \in DOMAIN left : Ends(n)
<1>0. N \in Nat
  OBVIOUS
<1>1. Calendar!YearOf(days) = [year |-> 1970 + end, yday |-> left[end]]
  BY DEF Calendar!YearOf
<1>2. Lefts(left)
  <2> DEFINE g == [n \in 0..N |-> days - Before(1970 + n)]
  <2>1. ASSUME NEW n \in 0..N, n # 0
        PROVE  g[n] = g[n - 1] - 365 - Calendar!is_leap_year(1969 + n)
    <3>1. /\ Before(1969 + n) \in Int /\ Calendar!is_leap_year(1969 + n) \in Int
          /\ Before((1969 + n) + 1) = Before(1969 + n) + 365 + Calendar!is_leap_year(1969 + n)
      <4>1. 1969 + n \in Nat /\ 1969 + n >= 1
        BY <1>0
      <4>2. QED
        BY <4>1, BeforeNext
    <3>2. n - 1 \in 0..N /\ 1970 + (n - 1) = 1969 + n /\ (1969 + n) + 1 = 1970 + n
      BY <1>0, <2>1
    <3> HIDE DEF N
    <3>3. g[n] = days - Before(1970 + n) /\ g[n - 1] = days - Before(1969 + n)
      BY <3>2
    <3> HIDE DEF g
    <3>4. QED
      BY <3>1, <3>2, <3>3
  <2>2. g[0] = days
    <3>1. 0 \in 0..N /\ 1970 + 0 = 1970
      BY <1>0
    <3>2. Before(1970) = 0
      BY DEF Before
    <3>3. QED
      BY <3>1, <3>2
  <2>3. g = [n \in 0..N |-> g[n]]
    OBVIOUS
  <2> HIDE DEF g, N
  <2>4. \A n \in 0..N : g[n] = IF n = 0 THEN days ELSE g[n - 1] - 365 - Leap(n)
    BY <2>1, <2>2
  <2> HIDE DEF Leap
  <2>5. Lefts(g)
    BY <2>3, <2>4
  <2> HIDE DEF Lefts
  <2>6. QED
    BY <2>5
<1> HIDE DEF left, N
<1>3. DOMAIN left = 0..N /\ \A n \in 0..N : left[n] = days - Before(1970 + n)
  <2> HIDE DEF Leap
  <2>1. DOMAIN left = 0..N /\ left[0] = days
        /\ \A n \in 0..N : n # 0 => left[n] = left[n - 1] - 365 - Leap(n)
    BY <1>0, <1>2
  <2>2. TakenOff(N, days, left)
    BY <2>1 DEF Leap, TakenOff
  <2>3. QED
    BY <1>0, <2>1, <2>2, YearsLeft
<1>4. \E n \in DOMAIN left : Ends(n)
  <2>1. PICK n \in 0..N : Before(1970 + n) <= days /\ days < Before(1971 + n)
    BY YearFound DEF N
  <2>2. /\ Before(1970 + n) \in Int /\ Calendar!is_leap_year(1970 + n) \in {0, 1}
        /\ Before((1970 + n) + 1) = Before(1970 + n) + 365 + Calendar!is_leap_year(1970 + n)
    BY <1>0, BeforeNext
  <2>3. (1970 + n) + 1 = 1971 + n
    BY <1>0
  <2>4. left[n] = days - Before(1970 + n)
    BY <1>3
  <2>5. Ends(n)
    BY <2>1, <2>2, <2>3, <2>4
  <2>6. QED
    BY <1>3, <2>5
<1>5. end \in DOMAIN left /\ Ends(end)
  <2> HIDE DEF Ends
  <2>1. QED
    BY <1>4
<1> HIDE DEF end
<1>6. end \in 0..N /\ end \in Nat /\ left[end] = days - Before(1970 + end)
  BY <1>0, <1>3, <1>5
<1>7. QED
  BY <1>1, <1>5, <1>6

(* The days of a year before one of its months; leap is 1 in a leap year. *)
Passed(mon, leap) == IF mon < 2 THEN 31 * mon ELSE 59 + leap + ((153 * (mon - 2) + 2) \div 5)

LEMMA MonthLength ==
  ASSUME NEW year \in Nat, Calendar!is_leap_year(year) \in {0, 1}, NEW mon \in 0..11
  PROVE  LET leap == Calendar!is_leap_year(year)
         IN  /\ Passed(mon, leap) \in Nat /\ Calendar!mdays(year)[mon + 1] \in 28..31
             /\ Passed(mon + 1, leap) = Passed(mon, leap) + Calendar!mdays(year)[mon + 1]
<1> DEFINE leap == Calendar!is_leap_year(year)
<1>1. leap \in {0, 1}
  OBVIOUS
<1>2. Calendar!mdays(year) = <<31, 28 + leap, 31, 30, 31, 30, 31, 31, 30, 31, 30, 31>>
  BY DEF Calendar!mdays
<1> HIDE DEF leap
<1>3. /\ Calendar!mdays(year)[1] = 31 /\ Calendar!mdays(year)[2] = 28 + leap
      /\ Calendar!mdays(year)[3] = 31 /\ Calendar!mdays(year)[4] = 30
      /\ Calendar!mdays(year)[5] = 31 /\ Calendar!mdays(year)[6] = 30
      /\ Calendar!mdays(year)[7] = 31 /\ Calendar!mdays(year)[8] = 31
      /\ Calendar!mdays(year)[9] = 30 /\ Calendar!mdays(year)[10] = 31
      /\ Calendar!mdays(year)[11] = 30 /\ Calendar!mdays(year)[12] = 31
  BY <1>2
<1>4. mon \in {0, 1, 2, 3, 4, 5, 6, 7, 8, 9, 10, 11}
  OBVIOUS
<1>5. /\ Passed(mon, leap) \in Nat /\ Calendar!mdays(year)[mon + 1] \in 28..31
      /\ Passed(mon + 1, leap) = Passed(mon, leap) + Calendar!mdays(year)[mon + 1]
  BY <1>1, <1>3, <1>4, SMTT(60) DEF Passed
<1>6. QED
  BY <1>5 DEF leap

LEMMA MonthRight ==
  ASSUME NEW year \in Nat, Calendar!is_leap_year(year) \in {0, 1},
         NEW days \in 0..(364 + Calendar!is_leap_year(year))
  PROVE  LET m == Calendar!MonthOf(days, year)
         IN  /\ m.mon \in 0..11 /\ m.mday \in 1..31
             /\ days = Passed(m.mon, Calendar!is_leap_year(year)) + m.mday - 1
<1> DEFINE leap == Calendar!is_leap_year(year)
           Lefts(f) == f = [m \in 0..11 |-> IF m = 0 THEN days ELSE f[m - 1] - Calendar!mdays(year)[m]]
           left == CHOOSE f : Lefts(f)
           Ends(m) == left[m] \in 0..(Calendar!mdays(year)[m + 1] - 1)
           end == CHOOSE m \in 0..11 : Ends(m)
<1>1. Calendar!MonthOf(days, year) = [mon |-> end, mday |-> left[end] + 1]
  BY DEF Calendar!MonthOf
<1>2. \A mon \in 0..11 : /\ Passed(mon, leap) \in Nat /\ Calendar!mdays(year)[mon + 1] \in 28..31
                         /\ Passed(mon + 1, leap) = Passed(mon, leap) + Calendar!mdays(year)[mon + 1]
  BY MonthLength
<1>3. Passed(0, leap) = 0 /\ Passed(12, leap) = 365 + leap
  BY DEF Passed
<1>4. days \in Nat /\ days < 365 + leap /\ leap \in {0, 1}
  OBVIOUS
<1>5. Lefts(left)
  <2> DEFINE g == [m \in 0..11 |-> days - Passed(m, leap)]
  <2> HIDE DEF leap
  <2>1. ASSUME NEW m \in 0..11, m # 0
        PROVE  g[m] = g[m - 1] - Calendar!mdays(year)[m]
    <3>1. m - 1 \in 0..11 /\ (m - 1) + 1 = m
      BY <2>1
    <3>2. g[m] = days - Passed(m, leap) /\ g[m - 1] = days - Passed(m - 1, leap)
      BY <3>1
    <3> HIDE DEF g
    <3>3. /\ Passed(m - 1, leap) \in Nat /\ Calendar!mdays(year)[m] \in 28..31
          /\ Passed(m, leap) = Passed(m - 1, leap) + Calendar!mdays(year)[m]
      BY <1>2, <3>1
    <3>4. QED
      BY <1>4, <3>2, <3>3
  <2>2. g[0] = days
    BY <1>3, <1>4
  <2>3. g = [m \in 0..11 |-> g[m]]
    OBVIOUS
  <2> HIDE DEF g
  <2>4. Lefts(g)
    BY <2>1, <2>2, <2>3
  <2> HIDE DEF Lefts
  <2>5. QED
    BY <2>4
<1> HIDE DEF left, leap
<1>6. left[0] = days /\ \A m \in 0..10 : left[m + 1] = left[m] - Calendar!mdays(year)[m + 1]
  BY <1>5
<1>7. \A m \in 0..11 : left[m] = days - Passed(m, leap)
  <2> DEFINE S == {m \in 0..11 : left[m] = days - Passed(m, leap)}
  <2>1. 0 \in S
    BY <1>3, <1>4, <1>6
  <2>2. ASSUME NEW m \in 0..(11 - 1), m \in S
        PROVE  m + 1 \in S
    <3>1. m \in 0..11 /\ m + 1 \in 0..11 /\ m \in 0..10
      OBVIOUS
    <3>2. left[m] = days - Passed(m, leap)
      BY <2>2
    <3>3. left[m + 1] = days - Passed(m + 1, leap)
      BY <1>2, <1>4, <1>6, <3>1, <3>2
    <3>4. QED
      BY <3>1, <3>3
  <2> HIDE DEF S
  <2>3. 0..11 \subseteq S
    BY <2>1, <2>2, UpTo
  <2>4. QED
    BY <2>3 DEF S
<1>8. \E m \in 0..11 : Passed(m, leap) <= days /\ days < Passed(m + 1, leap)
  <2> DEFINE S == {m \in 0..12 : days < Passed(m, leap)}
  <2>1. 12 \in S /\ S \in SUBSET Nat
    BY <1>3, <1>4
  <2>2. PICK m \in S : \A k \in S : m <= k
    BY <2>1, LeastOf
  <2>3. m # 0 /\ m \in 1..12 /\ days < Passed(m, leap)
    BY <1>3, <1>4
  <2>4. m - 1 \in 0..11 /\ m - 1 \notin S /\ (m - 1) + 1 = m
    BY <2>2, <2>3
  <2>5. Passed(m - 1, leap) <= days
    BY <1>2, <1>4, <2>4
  <2>6. QED
    BY <2>3, <2>4, <2>5
<1>9. \E m \in 0..11 : Ends(m)
  <2>1. PICK m \in 0..11 : Passed(m, leap) <= days /\ days < Passed(m + 1, leap)
    BY <1>8
  <2>2. /\ Passed(m, leap) \in Nat /\ Calendar!mdays(year)[m + 1] \in 28..31
        /\ Passed(m + 1, leap) = Passed(m, leap) + Calendar!mdays(year)[m + 1]
    BY <1>2
  <2>3. left[m] = days - Passed(m, leap)
    BY <1>7
  <2>4. Ends(m)
    BY <1>4, <2>1, <2>2, <2>3
  <2>5. QED
    BY <2>4
<1>10. end \in 0..11 /\ Ends(end)
  <2> HIDE DEF Ends
  <2>1. QED
    BY <1>9
<1> HIDE DEF end
<1>11. left[end] = days - Passed(end, leap) /\ left[end] + 1 \in 1..31
  <2>1. Passed(end, leap) \in Nat /\ Calendar!mdays(year)[end + 1] \in 28..31
    BY <1>2, <1>10
  <2>2. left[end] = days - Passed(end, leap)
    BY <1>7, <1>10
  <2>3. QED
    BY <1>10, <2>1, <2>2
<1>12. days = Passed(end, leap) + (left[end] + 1) - 1
  BY <1>2, <1>4, <1>10, <1>11
<1>13. QED
  BY <1>1, <1>10, <1>11, <1>12 DEF leap

LEMMA NumberOf ==
  ASSUME NEW year \in Nat, year >= 1, NEW mon \in 0..11, NEW mday \in 1..31
  PROVE  Calendar!DayNumber(year, mon, mday)
            = Before(year) + Passed(mon, Calendar!is_leap_year(year)) + mday - 1
<1> DEFINE leap == Calendar!is_leap_year(year)
<1>1. leap \in {0, 1} /\ Before(year) \in Int /\ Before(year + 1) = Before(year) + 365 + leap
  BY BeforeNext
<1>2. 365 * year + (year \div 4) - (year \div 100) + (year \div 400) = Before(year + 1) + 719162
  BY DEF Before
<1>3. 365 * (year - 1) + ((year - 1) \div 4) - ((year - 1) \div 100) + ((year - 1) \div 400)
        = Before(year) + 719162
  BY DEF Before
<1>4. mon \in {0, 1, 2, 3, 4, 5, 6, 7, 8, 9, 10, 11}
  OBVIOUS
<1> HIDE DEF leap
<1>5. CASE mon < 2
  <2>1. Calendar!DayNumber(year, mon, mday)
          = 365 * (year - 1) + ((year - 1) \div 4) - ((year - 1) \div 100) + ((year - 1) \div 400)
            + ((153 * ((mon + 10) % 12) + 2) \div 5) + mday - 719469
    BY <1>5 DEF Calendar!DayNumber
  <2>2. (153 * ((mon + 10) % 12) + 2) \div 5 = 306 + Passed(mon, leap)
    BY <1>4, <1>5 DEF Passed
  <2>3. Passed(mon, leap) \in Int
    BY <1>5 DEF Passed
  <2>4. QED
    BY <1>1, <1>3, <2>1, <2>2, <2>3 DEF leap
<1>6. CASE ~(mon < 2)
  <2>1. Calendar!DayNumber(year, mon, mday)
          = 365 * year + (year \div 4) - (year \div 100) + (year \div 400)
            + ((153 * ((mon + 10) % 12) + 2) \div 5) + mday - 719469
    BY <1>6 DEF Calendar!DayNumber
  <2>2. (153 * ((mon + 10) % 12) + 2) \div 5 = Passed(mon, leap) - 59 - leap
    BY <1>1, <1>4, <1>6 DEF Passed
  <2>3. Passed(mon, leap) \in Int
    BY <1>1, <1>6 DEF Passed
  <2>4. QED
    BY <1>1, <1>2, <2>1, <2>2, <2>3 DEF leap
<1>7. QED
  BY <1>5, <1>6
LEMMA Divide ==
  ASSUME NEW a \in Nat, NEW b \in Nat \ {0}
  PROVE  a \div b \in Nat /\ a % b \in 0..(b - 1) /\ (a \div b) * b + (a % b) = a
OBVIOUS

LEMMA Quotient ==
  ASSUME NEW a \in Int, NEW b \in Nat \ {0}, NEW q \in Int, NEW r \in 0..(b - 1), q * b + r = a
  PROVE  a \div b = q
OBVIOUS

(* The time that was asked for, and what no_locks_localtime said of it. *)
Said(time) ==
    <<time, Calendar!no_locks_localtime(time), Calendar!getDay(time, Calendar!no_locks_localtime(time))>>

CalendarKept ==
    /\ dst \in {0, 1} /\ _daylight_active \in {0, 1} /\ _current_timezone \in Zones
    /\ told # <<>> => \E time \in Instants : told = Said(time)

(* The broken-down time, from the days and the seconds of the last day. *)
LEMMA BrokenDown ==
  ASSUME NEW days \in Nat, NEW year, NEW month, year = Calendar!YearOf(days),
         month = Calendar!MonthOf(year.yday, year.year)
  PROVE  /\ month.mon \in 0..11 /\ month.mday \in 1..31
         /\ year.year \in Nat
         /\ Calendar!DayNumber(year.year, month.mon, month.mday) = days
         /\ year.yday = days - Calendar!DayNumber(year.year, 0, 1)
<1>1. /\ year.year \in Nat /\ year.year >= 1970 /\ year.yday = days - Before(year.year)
      /\ year.yday \in 0..(364 + Calendar!is_leap_year(year.year))
  BY YearRight
<1>2. Calendar!is_leap_year(year.year) \in {0, 1} /\ Before(year.year) \in Int
  BY <1>1, BeforeNext
<1>3. /\ month.mon \in 0..11 /\ month.mday \in 1..31
      /\ year.yday = Passed(month.mon, Calendar!is_leap_year(year.year)) + month.mday - 1
  BY <1>1, <1>2, MonthRight
<1>4. Calendar!DayNumber(year.year, month.mon, month.mday)
         = Before(year.year) + Passed(month.mon, Calendar!is_leap_year(year.year)) + month.mday - 1
  BY <1>1, <1>3, NumberOf
<1>5. Calendar!DayNumber(year.year, 0, 1) = Before(year.year)
  <2>1. Calendar!DayNumber(year.year, 0, 1)
           = Before(year.year) + Passed(0, Calendar!is_leap_year(year.year)) + 1 - 1
    BY <1>1, NumberOf
  <2>2. Passed(0, Calendar!is_leap_year(year.year)) = 0
    BY DEF Passed
  <2>3. QED
    BY <1>2, <2>1, <2>2
<1>6. \A mon \in 0..11, leap \in {0, 1} : Passed(mon, leap) \in Int
  BY DEF Passed
<1>7. Calendar!DayNumber(year.year, month.mon, month.mday) = days
  <2> DEFINE b == Before(year.year)
             p == Passed(month.mon, Calendar!is_leap_year(year.year))
  <2>1. b \in Int /\ p \in Int
    BY <1>2, <1>3, <1>6
  <2>2. /\ Calendar!DayNumber(year.year, month.mon, month.mday) = b + p + month.mday - 1
        /\ year.yday = days - b /\ year.yday = p + month.mday - 1
    BY <1>1, <1>3, <1>4
  <2> HIDE DEF b, p
  <2>3. \A d, y, m \in Int : y = d - b /\ y = p + m - 1 => b + p + m - 1 = d
    BY <2>1
  <2>4. days \in Int /\ year.yday \in Int /\ month.mday \in Int
    BY <1>3, <2>1, <2>2
  <2>5. QED
    BY <2>2, <2>3, <2>4
<1>8. QED
  BY <1>1, <1>3, <1>5, <1>7

(* The hour, the minute and the second are those of the seconds of a day. *)
LEMMA Clock ==
  ASSUME CalendarUsed, NEW seconds \in Nat
  PROVE  LET hour == seconds \div secs_hour
             rest == seconds % secs_hour
         IN  /\ hour \in Nat /\ rest \in 0..(secs_hour - 1)
             /\ hour * secs_hour + rest = seconds
             /\ hour * secs_hour + (rest \div secs_min) * secs_min + (rest % secs_min) = seconds
             /\ hour = 0 => seconds < secs_hour
             /\ hour # 0 => secs_hour <= seconds
<1> DEFINE hour == seconds \div secs_hour
           rest == seconds % secs_hour
<1>1. secs_hour \in Nat \ {0} /\ secs_min \in Nat \ {0}
  BY DEF CalendarUsed
<1>2. hour \in Nat /\ rest \in 0..(secs_hour - 1) /\ hour * secs_hour + rest = seconds
  BY <1>1, Divide
<1>3. rest \in Nat
  BY <1>1, <1>2
<1> HIDE DEF hour, rest
<1>4. /\ rest \div secs_min \in Nat /\ rest % secs_min \in 0..(secs_min - 1)
      /\ (rest \div secs_min) * secs_min + (rest % secs_min) = rest
  BY <1>1, <1>3, Divide
<1>5. hour * secs_hour + (rest \div secs_min) * secs_min + (rest % secs_min) = seconds
  <2>1. ASSUME NEW x \in Int, NEW y \in Int, NEW z \in Int, x + rest = seconds, y + z = rest
        PROVE  x + y + z = seconds
    BY <1>3, <2>1
  <2>2. /\ hour * secs_hour \in Int /\ (rest \div secs_min) * secs_min \in Int
        /\ rest % secs_min \in Int
    BY <1>1, <1>2, <1>3, <1>4
  <2>3. QED
    BY <1>2, <1>4, <2>1, <2>2, Zenon
<1>6. hour = 0 => seconds < secs_hour
  BY <1>1, <1>2
<1>7. hour # 0 => secs_hour <= seconds
  <2> SUFFICES ASSUME hour # 0 PROVE secs_hour <= seconds
    OBVIOUS
  <2>1. PICK n \in Nat : hour = n + 1
    <3>1. hour - 1 \in Nat /\ hour = (hour - 1) + 1
      BY <1>2
    <3>2. QED
      BY <3>1
  <2>2. hour * secs_hour = n * secs_hour + secs_hour /\ n * secs_hour \in Nat
    BY <1>1, <2>1
  <2>3. QED
    BY <1>1, <1>2, <2>2
<1>8. QED
  BY <1>2, <1>5, <1>6, <1>7 DEF hour, rest
(* The date of a moment t, in the zone and with the hour it was told with.   *)
LEMMA DateRight ==
  ASSUME CalendarUsed, CalendarKept, NEW time \in Instants, NEW tm,
         tm = Calendar!no_locks_localtime(time)
  PROVE  LET t == time - _current_timezone + secs_hour * _daylight_active
             day == Calendar!DayNumber(tm.tm_year + 1900, tm.tm_mon, tm.tm_mday)
             daytime == tm.tm_hour * secs_hour + tm.tm_min * secs_min + tm.tm_sec
         IN  /\ day \in Nat /\ daytime \in 0..(secs_day - 1) /\ t \in Nat
             /\ day * secs_day + daytime = t
             /\ tm.tm_mon \in 0..11 /\ tm.tm_mday \in 1..31
             /\ tm.tm_wday = (day + 4) % 7
             /\ tm.tm_yday = day - Calendar!DayNumber(tm.tm_year + 1900, 0, 1)
             /\ IF tm.tm_hour = 0 THEN daytime < secs_hour ELSE secs_hour <= daytime
             /\ tm.tm_gmtoff = -_current_timezone
<1> DEFINE t == time - _current_timezone + secs_hour * _daylight_active
           days == t \div secs_day
           seconds == t % secs_day
           year == Calendar!YearOf(days)
           month == Calendar!MonthOf(year.yday, year.year)
           hour == seconds \div secs_hour
           rest == seconds % secs_hour
<1>1. tm = [tm_isdst |-> _daylight_active, tm_hour |-> hour,
            tm_min |-> rest \div secs_min, tm_sec |-> rest % secs_min,
            tm_gmtoff |-> -_current_timezone, tm_wday |-> (days + 4) % 7, tm_yday |-> year.yday,
            tm_mon |-> month.mon, tm_mday |-> month.mday, tm_year |-> year.year - 1900]
  BY DEF Calendar!no_locks_localtime
<1>2. t \in Nat
  <2>1. time - _current_timezone \in Nat /\ time \in Int /\ _current_timezone \in Int
    BY DEF CalendarUsed, CalendarKept
  <2>2. secs_hour * _daylight_active \in Nat
    BY DEF CalendarUsed, CalendarKept
  <2>3. QED
    BY <2>1, <2>2
<1>3. secs_day \in Nat \ {0}
  BY DEF CalendarUsed
<1> HIDE DEF t
<1>4. days \in Nat /\ seconds \in 0..(secs_day - 1) /\ days * secs_day + seconds = t
  BY <1>2, <1>3, Divide
<1> HIDE DEF days, seconds
<1>5. seconds \in Nat
  BY <1>3, <1>4
<1>6. /\ hour \in Nat
      /\ hour * secs_hour + (rest \div secs_min) * secs_min + (rest % secs_min) = seconds
      /\ hour = 0 => seconds < secs_hour
      /\ hour # 0 => secs_hour <= seconds
  BY <1>5, Clock
<1>7. /\ month.mon \in 0..11 /\ month.mday \in 1..31 /\ year.year \in Nat
      /\ Calendar!DayNumber(year.year, month.mon, month.mday) = days
      /\ year.yday = days - Calendar!DayNumber(year.year, 0, 1)
  BY <1>4, BrokenDown
<1> HIDE DEF year, month, hour, rest
<1>8. /\ tm.tm_hour = hour /\ tm.tm_min = rest \div secs_min /\ tm.tm_sec = rest % secs_min
      /\ tm.tm_gmtoff = -_current_timezone /\ tm.tm_wday = (days + 4) % 7 /\ tm.tm_yday = year.yday
      /\ tm.tm_mon = month.mon /\ tm.tm_mday = month.mday /\ tm.tm_year = year.year - 1900
  BY <1>1
<1>9. tm.tm_hour * secs_hour + tm.tm_min * secs_min + tm.tm_sec = seconds
  BY <1>6, <1>8
<1>10. tm.tm_year + 1900 = year.year
  BY <1>7, <1>8
<1>11. Calendar!DayNumber(tm.tm_year + 1900, tm.tm_mon, tm.tm_mday) = days
  BY <1>7, <1>8, <1>10
<1>12. tm.tm_yday = days - Calendar!DayNumber(tm.tm_year + 1900, 0, 1)
  BY <1>7, <1>8, <1>10
<1>13. IF tm.tm_hour = 0 THEN seconds < secs_hour ELSE secs_hour <= seconds
  BY <1>6, <1>8
<1>14. QED
  BY <1>2, <1>4, <1>7, <1>8, <1>9, <1>11, <1>12, <1>13 DEF t

(* The day that getDay counts, from the one that is told. *)
LEMMA DayRight ==
  ASSUME CalendarUsed, NEW days \in Nat, NEW daytime \in 0..(secs_day - 1), NEW active \in {0, 1},
         NEW moment \in Int, days * secs_day + daytime = moment + secs_hour * active
  PROVE  /\ active = 1 /\ daytime < secs_hour => moment \div secs_day = days - 1
         /\ ~(active = 1 /\ daytime < secs_hour) => moment \div secs_day = days
<1>1. secs_day \in Nat \ {0} /\ secs_hour \in Nat \ {0} /\ secs_day = 24 * secs_hour
  BY DEF CalendarUsed
<1>2. ASSUME active = 1, daytime < secs_hour
      PROVE  moment \div secs_day = days - 1
  <2>1. secs_day + daytime - secs_hour \in 0..(secs_day - 1)
    BY <1>1, <1>2
  <2>2. (days - 1) * secs_day = days * secs_day - secs_day /\ days * secs_day \in Int
    BY <1>1
  <2>3. (days - 1) * secs_day + (secs_day + daytime - secs_hour) = moment
    BY <1>1, <1>2, <2>2
  <2>4. QED
    BY <1>1, <2>1, <2>3, Quotient
<1>3. ASSUME active = 1, ~(daytime < secs_hour)
      PROVE  moment \div secs_day = days
  <2>1. daytime - secs_hour \in 0..(secs_day - 1)
    BY <1>1, <1>3
  <2>2. days * secs_day \in Int
    BY <1>1
  <2>3. days * secs_day + (daytime - secs_hour) = moment
    BY <1>1, <1>3, <2>2
  <2>4. QED
    BY <1>1, <2>1, <2>3, Quotient
<1>4. ASSUME active = 0
      PROVE  moment \div secs_day = days
  <2>1. days * secs_day + daytime = moment
    BY <1>1, <1>4
  <2>2. QED
    BY <1>1, <2>1, Quotient
<1>5. QED
  BY <1>2, <1>3, <1>4

LEMMA CalendarStep ==
  ASSUME CalendarKept, [Calendar!Next]_(Calendar!vars)
  PROVE  CalendarKept'
<1>1. CASE Calendar!Switch \/ Calendar!local_time_init
  BY <1>1 DEF Calendar!Switch, Calendar!local_time_init, CalendarKept
<1>2. ASSUME NEW time \in Instants, Calendar!Ask(time)
      PROVE  CalendarKept'
  <2>1. /\ told' = Said(time)
        /\ UNCHANGED <<dst, _current_timezone, _daylight_active>>
    BY <1>2 DEF Calendar!Ask, Said
  <2>2. Said(time)' = Said(time)
    BY <2>1 DEF Said, Calendar!no_locks_localtime, Calendar!getDay
  <2>3. QED
    BY <2>1, <2>2 DEF CalendarKept
<1>3. CASE UNCHANGED Calendar!vars
  <2>1. UNCHANGED <<dst, _current_timezone, _daylight_active, told>>
    BY <1>3 DEF Calendar!vars
  <2>2. \A time : Said(time)' = Said(time)
    BY <2>1 DEF Said, Calendar!no_locks_localtime, Calendar!getDay
  <2>3. QED
    BY <2>1, <2>2 DEF CalendarKept
<1>4. QED
  BY <1>1, <1>2, <1>3 DEF Calendar!Next

(* Every time since 1970, in any zone, is told as the one date it has in the *)
(* calendar, right but for the hour by which daylight saving has changed     *)
(* since the start; and the day the log counts is that date, but in the hour *)
(* that daylight saving has moved to the next day.                           *)
THEOREM Dates == ASSUME CalendarUsed PROVE Calendar!Spec => []Calendar!DatesRight
<1>1. Calendar!Init => CalendarKept
  BY DEF Calendar!Init, CalendarKept
<1>2. CalendarKept /\ [Calendar!Next]_(Calendar!vars) => CalendarKept'
  BY CalendarStep
<1>3. CalendarUsed /\ CalendarKept => Calendar!DatesRight
  <2> SUFFICES ASSUME CalendarUsed, CalendarKept, told # <<>>
               PROVE  Calendar!DatesRight
    BY DEF Calendar!DatesRight
  <2>1. PICK time \in Instants : told = Said(time)
    BY DEF CalendarKept
  <2> DEFINE tm == Calendar!no_locks_localtime(time)
             day == Calendar!DayNumber(tm.tm_year + 1900, tm.tm_mon, tm.tm_mday)
             daytime == tm.tm_hour * secs_hour + tm.tm_min * secs_min + tm.tm_sec
             moment == time - _current_timezone
  <2>2. told[1] = time /\ told[2] = tm /\ told[3] = Calendar!getDay(time, tm)
    BY <2>1 DEF Said
  <2>3. /\ day \in Nat /\ daytime \in 0..(secs_day - 1)
        /\ day * secs_day + daytime = moment + secs_hour * _daylight_active
        /\ tm.tm_mon \in 0..11 /\ tm.tm_mday \in 1..31
        /\ tm.tm_wday = (day + 4) % 7
        /\ tm.tm_yday = day - Calendar!DayNumber(tm.tm_year + 1900, 0, 1)
        /\ IF tm.tm_hour = 0 THEN daytime < secs_hour ELSE secs_hour <= daytime
        /\ tm.tm_gmtoff = -_current_timezone
    BY DateRight
  <2>4. /\ dst \in {0, 1} /\ _daylight_active \in {0, 1} /\ time \in Int /\ _current_timezone \in Int
        /\ moment \in Int /\ secs_hour \in Nat \ {0} /\ secs_day \in Nat \ {0}
    BY DEF CalendarUsed, CalendarKept
  <2>5. told[3] = moment \div secs_day
    BY <2>2, <2>3, <2>4 DEF Calendar!getDay, Calendar!getGMTOff
  <2> HIDE DEF tm, day, daytime, moment
  <2>6. IF _daylight_active = 1 /\ tm.tm_hour = 0 THEN told[3] = day - 1 ELSE told[3] = day
    <3>0. daytime \in Int /\ secs_hour \in Int
      BY <2>3, <2>4
    <3>1. daytime < secs_hour <=> tm.tm_hour = 0
      BY <2>3, <3>0
    <3>2. /\ _daylight_active = 1 /\ daytime < secs_hour => moment \div secs_day = day - 1
          /\ ~(_daylight_active = 1 /\ daytime < secs_hour) => moment \div secs_day = day
      <4>1. /\ day \in Nat /\ daytime \in 0..(secs_day - 1)
            /\ day * secs_day + daytime = moment + secs_hour * _daylight_active
        BY <2>3
      <4>2. moment \in Int /\ _daylight_active \in {0, 1}
        BY <2>4
      <4>3. QED
        BY <4>1, <4>2, DayRight, Zenon
    <3>3. CASE _daylight_active = 1 /\ tm.tm_hour = 0
      BY <2>5, <3>1, <3>2, <3>3
    <3>4. CASE ~(_daylight_active = 1 /\ tm.tm_hour = 0)
      BY <2>5, <3>1, <3>2, <3>4
    <3>5. QED
      BY <3>3, <3>4
  <2>7. day * secs_day + daytime - (moment + secs_hour * dst) = secs_hour * (_daylight_active - dst)
    <3>1. day * secs_day \in Int
      BY <2>3, <2>4
    <3>2. secs_hour * (_daylight_active - dst) = secs_hour * _daylight_active - secs_hour * dst
      BY <2>4
    <3>3. secs_hour * _daylight_active \in Int /\ secs_hour * dst \in Int /\ daytime \in Int
      <4>1. daytime \in Int
        BY <2>3, <2>4
      <4>2. QED
        BY <2>4, <4>1
    <3>4. day * secs_day + daytime = moment + secs_hour * _daylight_active
      BY <2>3
    <3>5. \A x, c, m, a, d \in Int : x + c = m + a => x + c - (m + d) = a - d
      OBVIOUS
    <3>6. day * secs_day + daytime - (moment + secs_hour * dst) = secs_hour * _daylight_active - secs_hour * dst
      BY <2>4, <3>1, <3>3, <3>4, <3>5
    <3>7. QED
      BY <3>2, <3>6
  <2>8. moment + secs_hour * dst = time - _current_timezone + secs_hour * dst
    BY DEF moment
  <2>9. QED
    BY <2>2, <2>3, <2>6, <2>7, <2>8 DEF tm, day, daytime, Calendar!DatesRight
<1>4. QED
  BY <1>1, <1>2, <1>3, PTL DEF Calendar!Spec
=============================================================================
