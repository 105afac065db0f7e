SPECIFICATION Spec
CONSTANTS
    c1 = c1
    c2 = c2
    Connectors <- TwoConnectors
    Keys = {k1}
    MaxJobs = 2
    Cap = 1
    MaxOther = 0
    MaxStops = 1
    MaxCancels = 1
    LookupMayFail = TRUE
    TornWrites = TRUE
    Free = Free
    Dead = Dead
INVARIANTS CancelledNeverPublishes TypeOK
 
SYMMETRY Symmetry
CHECK_DEADLOCK FALSE
