CONSTANTS
    MaxAttempts = 3
    MaxInterrupts = 3
    Forms = {"plain", "create", "connect"}
SPECIFICATION FairSpec
INVARIANTS
    TypeOK
    NeverLost
    StoppedOnRaise
    Propagates
PROPERTIES
    EntrySettles
    AbandonedGoesDown
CHECK_DEADLOCK FALSE
