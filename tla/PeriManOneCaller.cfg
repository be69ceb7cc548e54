SPECIFICATION Spec
CONSTANTS
  Pins = {p1, p2, bad}
  ValidPins = {p1, p2}
  DriverTypes = {"UART_RX"}
  Buses = {b1, b2}
  NULL = NULL
  Callers = {c1}
  MaxDepth = 3
INVARIANTS
  TypeOK
  AssignmentsAreWellFormed
  NoReleasedBusOnPin
PROPERTIES
  NoSilentTakeover
