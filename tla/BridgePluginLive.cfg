SPECIFICATION FairSpec
CONSTANTS
    p1 = p1
    p2 = p2
    w1 = w1
    w2 = w2
    a1 = a1
    a2 = a2
    Programs <- MCPrograms
    Workers <- MCWorkers
    Addrs <- MCOneAddr
    MaxActivations = 1
    MaxWrites = 1

CHECK_DEADLOCK FALSE
PROPERTIES
    EventThreadReturns
    RequestsAnswered
