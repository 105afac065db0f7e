SPECIFICATION FairSpec
CONSTANTS
    c1 = c1
    c2 = c2
    Connectors <- OneConnector
    Keys = {k1}
    MaxJobs = 1
    Cap = 1
    MaxOther = 1
    MaxStops = 2
    MaxCancels = 2
    LookupMayFail = FALSE
    TornWrites = FALSE
    Free = Free
    Dead = Dead
INVARIANTS OutcomeMatchesPublication
PROPERTIES JobsSettle
CHECK_DEADLOCK FALSE
