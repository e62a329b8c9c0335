SPECIFICATION Spec
CONSTANTS
    p1 = p1
    p2 = p2
    w1 = w1
    w2 = w2
    a1 = a1
    a2 = a2
    Programs <- MCPrograms
    Workers <- MCWorkers
    Addrs <- MCAddrs
    MaxActivations = 2
    MaxWrites = 2
VIEW View
SYMMETRY Symmetry
INVARIANTS TypeOK ServedProgramIsOpen CodeShowsOwnSymbols NoEarlierProgram
PROPERTY ImplementsServiceSpec
CHECK_DEADLOCK FALSE
