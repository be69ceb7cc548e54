SPECIFICATION Spec
CONSTANTS
    t1 = t1
    t2 = t2
    NoTask = NoTask
    Writers <- MCWriters
    Others <- MCOthers
    RingSize = 2
    FifoSize = 1
    Tries = 1
    MaxWrite = 3
    MaxBytes = 3
    WrapTo = 2
    MaxEvents = 1
    MaxOther = 0
PROPERTIES
    FlushReturns
    WrittenReachesHost
CHECK_DEADLOCK FALSE
