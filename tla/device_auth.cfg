SPECIFICATION Spec
CONSTANTS
    p1 = p1
    p2 = p2
    Procs <- TwoProcs
    Modes = {TRUE, FALSE}
    MaxLogins = 2
    MaxIds = 4
    MaxGen = 2
    MaxCommands = 3
    MaxClosed = 1
    MaxFaults = 1
    None = None
INVARIANTS TypeOK NoFalseReuse LostAnswerRecoverable SealedForItsGeneration ConfirmedLogoutOnly
PROPERTIES NeverRolledBack
SYMMETRY Symmetry
CHECK_DEADLOCK FALSE
