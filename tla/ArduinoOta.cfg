SPECIFICATION Spec
CONSTANTS
    MaxTries = 8
    ResultTries = 6
    ReAcks = 3
    Pending = 2
    Chunks = 2
    MaxFaults = 3
INVARIANTS
    SuccessMeansInstalled
    FaultlessUploadInstalls
    LossIsSurvived
PROPERTIES
    NobodyWaitsForever
CHECK_DEADLOCK FALSE
