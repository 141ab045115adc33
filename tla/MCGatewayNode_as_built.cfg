SPECIFICATION NodeSpec
CONSTANTS
    e = e
    w = w
    Executor = e
    Worker = w
    NoThread = NoThread
    Threads = {e, w}
    CallsOf <- NodeCalls
    MaxBatch = 0
    MaxCalls = 7
    MaxCrashes = 0
    Faults = {}
    Word = 5
    Mantissa = 3
    SingleMantissa = 2
    One = 4
    Micro = 2
    Now = 7
    DecryptOrder = "defined"
    max_capacity_ = 1
    Packets <- AllPackets
    MaxPackets = 1
INVARIANTS
    GenuineAccepted
CHECK_DEADLOCK FALSE
