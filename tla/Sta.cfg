SPECIFICATION Spec
CONSTANTS
    NoEvent = NoEvent
    Reasons = {"AUTH_FAIL", "AUTH_EXPIRE", "ASSOC_FAIL"}
    MaxDrops = 2
    MaxCalls = 3
INVARIANTS
    BitsAreCurrent
    StatusIsCurrent
PROPERTIES
    Reconnects
CHECK_DEADLOCK FALSE
