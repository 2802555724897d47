SPECIFICATION Spec
CONSTANTS
    x1 = x1
    x2 = x2
    l1 = l1
    l2 = l2
    l3 = l3
    p = p
    q = q
    d1 = d1
    d2 = d2
    d3 = d3
    Activities <- MCActivities
    Listeners <- MCListeners
    Tags <- MCTags
    Tag <- MCTag
    Dispatchers <- MCDispatchers
    NoDispatcher = NoDispatcher
INVARIANT
    StaysUntilDeleted
