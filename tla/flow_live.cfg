CONSTANTS
  Node = {1, 2}
  Task = {11, 12, 21}
  Home <- Place
  Dest <- To12
  Fd = {0, 1}
  Started <- By1
  Window <- Wide
  SockCap = 1
  MaxMsg <- Three11One21
  Exits = {12}
  MaxLost = 0
SPECIFICATION FairSpec
PROPERTIES Continued
CHECK_DEADLOCK FALSE
