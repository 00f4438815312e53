SPECIFICATION FairSpec
CONSTANTS
    p1 = p1
    p2 = p2
    c1 = c1
    c2 = c2
    a = a
    b = b
    Producers = {p1, p2}
    Consumers = {c1, c2}
    Elems = {a, b}
    NoElem = NoElem
    Nobody = Nobody
    Capacity = 2
INVARIANTS
    TypeOK
    NoLostWakeup
PROPERTIES
    ImplementsFifo
    EventuallyDequeued
