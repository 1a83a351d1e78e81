CONSTANTS
    p1 = p1
    p2 = p2
    t1 = t1
    t2 = t2
    a1 = a1
    a2 = a2
    a3 = a3
    a4 = a4
    Null = Null
    Free = Free
    Root = p1
    Procs <- TwoProcs
    Threads <- TwoThreads
    Addrs <- FourAddrs
    Pids <- TwoPids
    HandlerRuns <- AlwaysRuns
    PidReuse = TRUE
    MaxGeneration = 1
    MaxCells = 2
SPECIFICATION FairSpec
INVARIANTS
    TypeOK
    NoDangling
PROPERTIES
    ImplementsOnce
    CallsReturn
CHECK_DEADLOCK FALSE
