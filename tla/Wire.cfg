SPECIFICATION Spec
CONSTANTS
  Pins <- MCPins
  ValidPins <- MCPins
  DriverTypes = {"SDA", "SCL"}
  Buses <- MCBuses
  NULL = NULL
  Tasks = {t1, t2}
  Ports <- MCPorts
  Gpio = gpio
  Wants <- MCWants
  Refusing <- MCPorts
  Devices = {dev1, dev2}
  BufferSize = 1
  Requests <- MCRequests
  Claims = {1}
SYMMETRY Symmetry
INVARIANTS
  TypeOK
  NoDeadlock
  DriverOutlivesTransfer
  StartedPortOwnsItsPins
  TransferHasItsBuffers
  TransactionIsOneTasks
  WireIsGivenBack
CHECK_DEADLOCK FALSE
