SPECIFICATION SpecBegun
CONSTANTS
  Pins <- MCPins
  ValidPins <- MCPins
  DriverTypes <- MCTypes2
  Buses <- MCBuses
  NULL = NULL
  Tasks = {"t1", "t2"}
  Uarts <- MCUarts
  Roles <- MCRoles2
  Foreign = i2c
  DefaultPin <- MCDefaultPin
  Wants <- MCWantsTaken
  Requests <- MCEndWhileSetPins
INVARIANTS
  NoDeadlock
CHECK_DEADLOCK FALSE
