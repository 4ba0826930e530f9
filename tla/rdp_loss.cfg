CONSTANTS
  Node = {1, 2}
  MAX_WINDOW_SIZE = 2
  RDPMaxAckPending = 1
  RDPMaxRetransCount = 0
  ConnId = {0, 1, 2, 3, 4}
  FirstToSend = {0}
  FirstExpected = {7}
  MaxMsg <- TwoZero
  NetCap = 2
  Fault = {}
  MaxFault = 0
  Environ <- EnvironInside
SPECIFICATION Spec
INVARIANTS TypeOK WindowAccounting PendingCounted SequenceNumbers NoSilentLoss InStep DeletedFirst
PROPERTIES ImplementsLink
CHECK_DEADLOCK FALSE
