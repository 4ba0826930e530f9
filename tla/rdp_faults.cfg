CONSTANTS
  Node = {1, 2}
  MAX_WINDOW_SIZE = 2
  RDPMaxAckPending = 1
  RDPMaxRetransCount = 0
  ConnId = {0, 1, 2, 3, 4}
  FirstToSend = {0}
  FirstExpected = {7}
  MaxMsg <- TwoZero
  NetCap = 1
  Fault = {"restart", "icmp", "address", "close"}
  MaxFault = 2
  Environ <- EnvironForget
SPECIFICATION Spec
INVARIANTS InOrderOnce ActiveIsTold
CHECK_DEADLOCK FALSE
