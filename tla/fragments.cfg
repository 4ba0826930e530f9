CONSTANTS
  Node = {1, 2}
  Sender = {1, 11}
  Client = {11}
  Recv = {1, 2}
  Home <- HomeOf
  InPsid = {1, 2}
  Script <- Script0
  FragNums = 3
  MaxLost = 2
SPECIFICATION Spec
INVARIANTS TypeOK Whole Delivered BuffersFreed
CHECK_DEADLOCK FALSE
