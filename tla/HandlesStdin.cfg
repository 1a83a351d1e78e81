CONSTANTS
    p1 = p1
    p2 = p2
    t1 = t1
    t2 = t2
    NoThread = NoThread
    Nobody = Nobody
    Root = p1
    Procs <- TwoProcs
    Threads <- TwoThreads
    Pids <- TwoPids
    HandlerRuns <- AlwaysRuns
    PidReuse = TRUE
    MaxGeneration = 1
SPECIFICATION Spec
INVARIANTS
    NilMeansNotPiped
CHECK_DEADLOCK FALSE
