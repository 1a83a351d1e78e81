CONSTANTS
    p1 = p1
    p2 = p2
    p3 = p3
    t1 = t1
    cloud = cloud
    Ladder = Ladder
    NoBackend = NoBackend
    NoScope = NoScope
    NoIdentity = NoIdentity
    Root = p1
    Procs <- ThreeProcs
    Pids <- TwoPids
    Threads <- OneThread
    Explicit <- OneExplicit
    Fragile <- NoneFragile
    HandlerRuns <- AlwaysRuns
    PidReuse = TRUE
    MaxGeneration = 2
    MaxTokens = 1
    MaxBuilt = 2
    MaxBroken = 1
    TrapForks = FALSE
    Interrupts = TRUE
SPECIFICATION Spec
INVARIANTS
    IdentityTellsApart
    ForeignNeverTouched
CHECK_DEADLOCK FALSE
