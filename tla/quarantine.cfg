SPECIFICATION Spec
CONSTANTS
    c1 = c1
    c2 = c2
    Callers <- TwoCallers
    Slots = 1
    MaxEdits = 1
    MaxAborts = 1
    None = None
    Torn = Torn
    Unseen = Unseen
INVARIANTS
    TypeOK
    ReceiptsFaithful
    CallsAgree
    MovesHaveIntent
PROPERTIES
    NothingOverwritten
    LateCallsMoveNothing
SYMMETRY Symmetry
CHECK_DEADLOCK FALSE
