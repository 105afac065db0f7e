SPECIFICATION Spec
CONSTANTS
    c1 = c1
    c2 = c2
    Connectors <- OneConnector
    Keys = {k1, k2}
    MaxJobs = 3
    Cap = 1
    MaxOther = 0
    MaxStops = 1
    MaxCancels = 1
    LookupMayFail = FALSE
    TornWrites = FALSE
    Free = Free
    Dead = Dead
INVARIANTS LedgerBound NoExecutableOrphans
CHECK_DEADLOCK FALSE
