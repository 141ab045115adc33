SPECIFICATION FairProgram
CONSTANTS
    m = m
    w1 = w1
    w2 = w2
    w3 = w3
    NoThread = NoThread
    Main = m
    Threads = {m, w1, w2, w3}
    CallsOf <- ProgramCalls
    MaxBatch = 0
    MaxCalls = 15
    MaxCrashes = 1
    MaxRuns = 2
    Faults = {"open", "step"}
INVARIANTS
    NoNullStatement
    AckedIsDurable
PROPERTIES
    ImplementsSoundStore
    RunEnds
CHECK_DEADLOCK FALSE
