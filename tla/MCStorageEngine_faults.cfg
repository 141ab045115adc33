SPECIFICATION FairSpec
CONSTANTS
    w1 = w1
    k1 = k1
    NoThread = NoThread
    Threads = {w1, k1}
    CallsOf <- WriterAndKeeper
    MaxBatch = 2
    MaxCalls = 4
    MaxCrashes = 1
    Faults = {"open", "schema", "prepare", "begin", "step", "step_rollback", "commit_left_open", "commit_rollback"}
INVARIANTS
    TypeOK
    HandlesAgree
    RefusedNeverStored
    BatchAllOrNothing
    OnlyLeftOpenLoses
PROPERTIES
    ImplementsStore
    CallsReturn
CHECK_DEADLOCK FALSE
