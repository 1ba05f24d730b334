CONSTANTS
    Worker = {w1, w2, w3}
    Phases <- SearchInsert
    Batch = 2
    Seconds = 2
    MaxCalls = 2
SPECIFICATION FairSpec
INVARIANTS
    StartTogether
    WorkersAreGone
    ReportIsTrue
PROPERTY Finishes
CHECK_DEADLOCK FALSE
