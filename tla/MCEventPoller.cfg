CONSTANTS
    c1 = c1
    c2 = c2
    t1 = t1
    t2 = t2
    t3 = t3
    Loop = Loop
    Owner = Owner
    Clients <- MCClients
    Tasks <- MCTasks
    ExitTask = ExitTask
    NoTask = NoTask
    PipeCap = 2
    ReadChunk = 1
    MaxBreaks = 1
SPECIFICATION Spec
INVARIANTS
    NoLostWakeup
    OneThreadRuns
PROPERTIES
    ExecutorSpec
