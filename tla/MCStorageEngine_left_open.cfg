SPECIFICATION Spec
CONSTANTS
    w1 = w1
    k1 = k1
    NoThread = NoThread
    Threads = {w1}
    CallsOf <- OneThread
    MaxBatch = 1
    MaxCalls = 3
    MaxCrashes = 0
    Faults = {"commit_left_open"}
INVARIANTS
    AckedIsDurable
CHECK_DEADLOCK FALSE
