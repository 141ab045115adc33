SPECIFICATION Spec
CONSTANTS
    p1 = p1
    p2 = p2
    c1 = c1
    c2 = c2
    s1 = s1
    NoThread = NoThread
    Producers = {p1, p2}
    Consumers = {c1, c2}
    Closers = {s1}
    max_capacity_ = 2
    MaxPushes = 4
INVARIANTS
    TypeOK
    ExactlyOnceInOrder
    NoLostWakeupOfConsumer
    NoLostWakeupOfProducer
    ShutdownReachesWaiters
PROPERTIES
    ImplementsFifo
CHECK_DEADLOCK FALSE
