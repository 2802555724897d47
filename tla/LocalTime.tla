------------------------------- MODULE LocalTime -------------------------------
(***************************************************************************)
(* src/Util/local_time.cpp: the calendar, computed without locks from the  *)
(* time zone and from whether daylight saving was in effect when the       *)
(* program was started; and the days of the log (src/Util/logger.cpp),     *)
(* which are counted without daylight saving while its files are named     *)
(* with it.                                                                *)
(***************************************************************************)
EXTENDS Integers, Sequences

CONSTANTS
    secs_min, secs_hour, secs_day,      \* 60, 3600 and 86400 in the code
    Zones,                              \* BOUND: time zones, in seconds west
    Instants                            \* BOUND: times, in seconds since 1970

LocalTimeAssumption ==
    /\ secs_min \in Nat \ {0} /\ secs_hour \in Nat \ {0} /\ secs_day = 24 * secs_hour
    /\ secs_hour % secs_min = 0
    /\ Zones \subseteq Int /\ Instants \subseteq Int
    /\ \A zone \in Zones, t \in Instants : t - zone \in Nat     \* nothing before 1970

VARIABLES
    dst,                 \* 1 while daylight saving is in effect, else 0
    _current_timezone,
    _daylight_active,    \* dst as local_time_init found it
    told                 \* the last time asked for, with what it was said to be

vars == <<dst, _current_timezone, _daylight_active, told>>

-----------------------------------------------------------------------------
(* Mutation: the simple rule. *)
LeapEveryFourth(year) == IF year % 4 # 0 THEN 0 ELSE 1

is_leap_year(year) ==
    IF year % 4 # 0 THEN 0 ELSE IF year % 100 # 0 THEN 1 ELSE IF year % 400 # 0 THEN 0 ELSE 1

mdays(year) == <<31, 28 + is_leap_year(year), 31, 30, 31, 30, 31, 31, 30, 31, 30, 31>>

(* The year, and what is left of the days: years are taken off until one is *)
(* longer than that.                                                        *)
YearOf(days) ==
    LET left[n \in 0..(days \div 365)] ==
            IF n = 0 THEN days ELSE left[n - 1] - 365 - is_leap_year(1969 + n)
        n == CHOOSE n \in DOMAIN left : left[n] \in 0..(364 + is_leap_year(1970 + n))
    IN  [year |-> 1970 + n, yday |-> left[n]]

(* The month and the day of it. *)
MonthOf(days, year) ==
    LET left[m \in 0..11] == IF m = 0 THEN days ELSE left[m - 1] - mdays(year)[m]
        m == CHOOSE m \in 0..11 : left[m] \in 0..(mdays(year)[m + 1] - 1)
    IN  [mon |-> m, mday |-> left[m] + 1]

no_locks_localtime(time) ==
    LET t == time - _current_timezone + secs_hour * _daylight_active
        days == t \div secs_day
        seconds == t % secs_day
        year == YearOf(days)
        month == MonthOf(year.yday, year.year)
    IN  [tm_isdst |-> _daylight_active,
         tm_hour |-> seconds \div secs_hour, tm_min |-> (seconds % secs_hour) \div secs_min,
         tm_sec |-> (seconds % secs_hour) % secs_min,
         tm_gmtoff |-> -_current_timezone,
         tm_wday |-> (days + 4) % 7, tm_yday |-> year.yday,
         tm_mon |-> month.mon, tm_mday |-> month.mday, tm_year |-> year.year - 1900]

(* getGMTOff is the offset of a broken-down time. *)
getGMTOff(tm) == tm.tm_gmtoff
getDay(time, tm) == (time + getGMTOff(tm)) \div secs_day

-----------------------------------------------------------------------------
Init ==
    /\ dst \in {0, 1} /\ _current_timezone \in Zones
    /\ _daylight_active = dst
    /\ told = <<>>

(* Daylight saving begins or ends. *)
Switch == dst' = 1 - dst /\ told' = <<>> /\ UNCHANGED <<_current_timezone, _daylight_active>>

(* local_time_init, when the program is started again. *)
local_time_init == _daylight_active' = dst /\ told' = <<>> /\ UNCHANGED <<dst, _current_timezone>>

Ask(time) ==
    /\ told = <<>>
    /\ told' = <<time, no_locks_localtime(time), getDay(time, no_locks_localtime(time))>>
    /\ UNCHANGED <<dst, _current_timezone, _daylight_active>>

Next == Switch \/ local_time_init \/ \E time \in Instants : Ask(time)

Spec == Init /\ [][Next]_vars

-----------------------------------------------------------------------------
(* Days from 1 January 1970 to a date, from the rule of the calendar: the years *)
(* that begin in March have their leap days at their ends.                       *)
DayNumber(year, mon, mday) ==
    LET y == IF mon < 2 THEN year - 1 ELSE year
        months == (mon + 10) % 12
    IN  365 * y + (y \div 4) - (y \div 100) + (y \div 400) + ((153 * months + 2) \div 5) + mday - 719469

(* Every time is given the one date, day of the week and time of day it has in *)
(* the calendar, as long as daylight saving is as it was when the program was  *)
(* started, and else those of an hour earlier or later; and the day the log    *)
(* counts is the one its files are named after, except in the hour that        *)
(* daylight saving has made the first of the next.                             *)
DatesRight ==
    told # <<>> =>
        LET time == told[1]
            tm == told[2]
            day == DayNumber(tm.tm_year + 1900, tm.tm_mon, tm.tm_mday)
            clock == tm.tm_hour * secs_hour + tm.tm_min * secs_min + tm.tm_sec
            true == time - _current_timezone + secs_hour * dst
        IN  /\ tm.tm_mon \in 0..11 /\ tm.tm_mday \in 1..31 /\ clock \in 0..(secs_day - 1)
            /\ tm.tm_wday = (day + 4) % 7
            /\ tm.tm_yday = day - DayNumber(tm.tm_year + 1900, 0, 1)
            /\ day * secs_day + clock - true = secs_hour * (_daylight_active - dst)
            /\ IF _daylight_active = 1 /\ tm.tm_hour = 0 THEN told[3] = day - 1 ELSE told[3] = day
===============================================================================
