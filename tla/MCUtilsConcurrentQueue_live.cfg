SPECIFICATION FairSpec
CONSTANTS
    p1 = p1
    p2 = p2
    c1 = c1
    c2 = c2
    s1 = s1
    NoThread = NoThread
    Producers = {p1}
    Consumers = {c1, c2}
    Closers = {s1}
    max_capacity_ = 1
    MaxPushes = 2
PROPERTIES
    ShutdownUnblocks
    PopForReturns
    WaitersServed
CHECK_DEADLOCK FALSE
