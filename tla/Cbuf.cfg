SPECIFICATION Spec
CONSTANTS
    c1 = c1
    c2 = c2
    p1 = p1
    NoTask = NoTask
    Consumers <- MCConsumers
    Producers <- MCProducers
    Sizes = {1, 2}
    MaxCount = 2
    Modulus = 4
SYMMETRY Symmetry
INVARIANTS
    TypeOK
    NoOverrun
    AvailableIsExact
    MutexIsGivenBack
PROPERTIES
    IsFifo
CHECK_DEADLOCK FALSE
