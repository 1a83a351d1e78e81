CONSTANTS
    Platforms = {darwin, linux}
    MaxRuns = 4
    MaxChanges = 2
    NoTree = NoTree
    NoFile = NoFile
SPECIFICATION Spec
INVARIANTS
    TypeOK
    PackagedReviewed
    TouchedOnlyWhenVerified
    AcceptsOnlyWhole
CHECK_DEADLOCK FALSE
