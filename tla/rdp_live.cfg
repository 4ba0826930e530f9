CONSTANTS
  Node = {1, 2}
  MAX_WINDOW_SIZE = 1
  RDPMaxAckPending = 1
  RDPMaxRetransCount = 0
  ConnId = {0, 1, 2, 3, 4}
  FirstToSend = {0}
  FirstExpected = {7}
  MaxMsg <- OneZero
  NetCap = 2
  Fault = {"reorder"}
  MaxFault = 2
  Environ <- EnvironQuiet
SPECIFICATION FairSpec
PROPERTIES Resolved WindowReopens
CHECK_DEADLOCK FALSE
