SPECIFICATION Spec
CONSTANTS
    f1 = f1
    f2 = f2
    w1 = w1
    w2 = w2
    Files <- TwoFiles
    Workers <- TwoWorkers
    Slow = FALSE
    MaxAttempts = 2
    MaxRuns = 3
    MaxFaults = 3
    None = None
INVARIANTS TypeOK  UploadRecognised FinalizeAnswersAgree
SYMMETRY Symmetry
CHECK_DEADLOCK FALSE
