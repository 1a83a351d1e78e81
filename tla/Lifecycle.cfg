CONSTANTS
    Callers = {c1, c2}
    MaxId = 2
    MaxRun = 2
    MaxCalls = 3
SPECIFICATION LifecycleSpec
INVARIANT LifecycleTypeOK
PROPERTIES
    OwnIdentityOnly
    UnaskedStops
    StopsReturn
CHECK_DEADLOCK FALSE
