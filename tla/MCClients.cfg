CONSTANTS
    c1 = c1
    c2 = c2
    c3 = c3
    c4 = c4
    c5 = c5
    c6 = c6
    w1 = w1
    w2 = w2
    b1 = b1
    b2 = b2
    Clients = {c1, c2, c3, c4, c5, c6}
    Workers = {w1, w2}
    BoxNames = {b1, b2}
    Unset = unset
    NULL = null
    NUL = "nul"
    MessageSize = 4
    Scenarios <- MCScenarios
SPECIFICATION MCSpec
CHECK_DEADLOCK FALSE
INVARIANTS
    TypeOK
    ServedAsSent
    TextsArriveInOrder
    ManagersSeeTheOutcome
    BrokerEndsForAReason
PROPERTIES
    ShutOutPublishersStop
    
    
