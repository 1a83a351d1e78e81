CONSTANTS
    Threads = {t1, t2, t3}
    MaxAsked = 5
    MaxInterrupts = 2
SPECIFICATION SessionSpec
INVARIANTS
    SessionTypeOK
    Reachable
    SameAnswer
CHECK_DEADLOCK FALSE
