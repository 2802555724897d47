CONSTANTS
    w1 = w1
    w2 = w2
    c1 = c1
    c2 = c2
    t1 = t1
    t2 = t2
    t3 = t3
    Workers <- MCWorkers
    Clients <- MCClients
    Tasks <- MCTasks
    NoTask = NoTask
    AutoRun = TRUE
SPECIFICATION Spec
INVARIANTS
    PermitBalance
    JoinedDrained
PROPERTIES
    ExecutorSpec
    SyncReturns
