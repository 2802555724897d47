SPECIFICATION Spec
CONSTANTS
    t1 = t1
    t2 = t2
    Timers <- MCTimers
    Delays = {0, 1}
    Limit = 2
    MaxLost = 2
    MaxBusy = 1
    Horizon = 3
    MaxTime = 8
INVARIANTS
    NeverEarly
    DeadlineOrder
PROPERTIES
    EveryTimerFires
