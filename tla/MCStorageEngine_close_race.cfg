SPECIFICATION Spec
CONSTANTS
    w1 = w1
    k1 = k1
    NoThread = NoThread
    Threads = {w1, k1}
    CallsOf <- WriterAndCloser
    MaxBatch = 1
    MaxCalls = 2
    MaxCrashes = 0
    Faults = {}
INVARIANTS
    NoNullStatement
CHECK_DEADLOCK FALSE
