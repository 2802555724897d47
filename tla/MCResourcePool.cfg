SPECIFICATION Spec
CHECK_DEADLOCK FALSE
CONSTANTS
    a = a
    b = b
    o1 = o1
    o2 = o2
    o3 = o3
    Owner = Owner
    Threads <- MCThreads
    Scheduled <- MCScheduled
    Objects <- MCObjects
    Sizes = {1, 2}
    MaxRefs = 2
INVARIANTS
    SingleOwner
    PoolOutlivesUse
PROPERTIES
    NobodyWaits
