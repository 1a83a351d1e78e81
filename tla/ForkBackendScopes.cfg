CONSTANTS
    p1 = p1
    p2 = p2
    p3 = p3
    t1 = t1
    cloud = cloud
    Ladder = Ladder
    NoBackend = NoBackend
    NoScope = NoScope
    NoIdentity = NoIdentity
    Root = p1
    Procs <- TwoProcs
    Pids <- TwoPids
    Threads <- OneThread
    Explicit <- OneExplicit
    Fragile <- LadderAndCloud
    HandlerRuns <- AlwaysRuns
    PidReuse = TRUE
    MaxGeneration = 1
    MaxTokens = 2
    MaxBuilt = 4
    MaxBroken = 1
    TrapForks = FALSE
    Interrupts = FALSE
SPECIFICATION Spec
VIEW NotLast
INVARIANTS
    TypeOK
    RecordMatchesDefault
PROPERTIES
    ScopeRestored
    NeverStuckOnInherited
CHECK_DEADLOCK FALSE
