CONSTANTS
    Threads = {t1, t2, t3}
    MaxCalls = 4
    MaxRaises = 2
    NoThread = NoThread
SPECIFICATION FairSpec
INVARIANTS
    TypeOK
    ReadyMeansUsable
    ProvisionedOnce
PROPERTIES
    LockObtained
CHECK_DEADLOCK FALSE
