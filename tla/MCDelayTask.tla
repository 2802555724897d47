----------------------------- MODULE MCDelayTask -----------------------------
(* Two timers, delays of none and of one tick, a clock that may drop two  *)
(* ticks, and a real time that goes on until every deadline has passed.    *)
EXTENDS DelayTask

CONSTANTS t1, t2

MCTimers == {t1, t2}
=============================================================================
