CONSTANTS
  Node = {1, 2}
  Task = {11, 21}
  Home <- Place
  Dest <- To21
  Fd = {0}
  Started <- By1
  Window <- OneSlot
  SockCap = 1
  MaxMsg <- Two11Daemon
  Exits = {11}
  MaxLost = 2
SPECIFICATION Spec
INVARIANTS TypeOK StoredOnlyIfFull Accounted
CHECK_DEADLOCK FALSE
