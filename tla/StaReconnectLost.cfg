SPECIFICATION Spec
CONSTANTS
    NoEvent = NoEvent
    Reasons <- MCReasons
    MaxDrops = 2
    MaxCalls = 2
PROPERTIES
    ReconnectsAlways
CHECK_DEADLOCK FALSE
