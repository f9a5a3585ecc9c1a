SPECIFICATION Spec
CONSTANTS
    Chunks = {c1, c2}
    Workers = {w1, w2}
    MaxAttempts = 2
    max_items = 2
    SlowWorkers = TRUE
    None = None
INVARIANTS
    TypeOK
    NothingLost
    ProcessedIsStored
PROPERTIES
    Drained
CHECK_DEADLOCK FALSE
