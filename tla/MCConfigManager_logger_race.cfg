SPECIFICATION Services
CONSTANTS
    a = a
    b = b
    Threads = {a, b}
    Starter = a
    InitiallyRunning = {a, b}
    SinksMayFail = FALSE
    MaxInits = 0
    NoThread = NoThread
    NoDocument = NoDocument
    Documents = {}
    Paths = {}
    Types = {}
INVARIANTS
    NoDestroyedLogger
CHECK_DEADLOCK FALSE
