SPECIFICATION Services
CONSTANTS
    a = a
    b = b
    Threads = {a, b}
    Starter = a
    InitiallyRunning = {a}
    SinksMayFail = TRUE
    MaxInits = 1
    NoThread = NoThread
    NoDocument = NoDocument
    Documents <- AllDocuments
    Paths <- AllPaths
    Types = {"int", "string"}
INVARIANTS
    ServicesTypeOK
    NoDestroyedLogger
    AnswersFromLastLoad
PROPERTIES
    ConfigCallsReturn
CHECK_DEADLOCK FALSE
