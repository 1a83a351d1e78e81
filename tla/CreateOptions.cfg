CONSTANTS
    Cidrs <- MCCidrs
    Dirs = {"here", "there"}
    Requests <- MCRequests
    Flows <- MCFlows
SPECIFICATION Spec
INVARIANTS
    TypeOK
    PathsAnchored
    RefusedCleanly
    PolicyAsMeant
