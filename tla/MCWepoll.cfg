CONSTANTS
    w = w
    c = c
    s1 = s1
    s2 = s2
    Threads <- MCThreads
    Loops <- MCLoops
    Socks <- MCSocks
    Changing <- MCChanging
    Asks <- MCAsks
    Events <- MCEvents
    Ids <- MCIds
    NoThread = NoThread
    MaxGroup = 1
    MaxEvents = 1
    MaxCtl = 3
SPECIFICATION Spec
INVARIANTS
    MemorySafe
    Armed
PROPERTIES
    EventReported
    CloseReturns
