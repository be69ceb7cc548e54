SPECIFICATION SpecBegun
CONSTANTS
  Pins <- MCPins
  ValidPins <- MCPins
  DriverTypes <- MCTypes2
  Buses <- MCBuses
  NULL = NULL
  Tasks = {"t1"}
  Uarts <- MCUarts
  Roles <- MCRoles2
  Foreign = i2c
  DefaultPin <- MCDefaultPin
  Wants <- MCWants2
  Requests <- MCEveryRequest
INVARIANTS
  OwnedPinsAreKnown
  DriverOwnsItsPins
  DeinitsInForce
PROPERTIES
  WorkingDriverIsKept
  UselessDriverIsEnded
CHECK_DEADLOCK FALSE
