SPECIFICATION Spec
CONSTANTS
    p1 = p1
    p2 = p2
    a = a
    b = b
    Producers <- MCProducers
    Texts <- MCTexts
    NoMessage = NoMessage
    MaxMessages = 4
    MaxWriters = 2
INVARIANTS
    InOrder
    AllReported
PROPERTIES
    EachHandled
