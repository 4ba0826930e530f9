CONSTANTS
  Node = {1, 2}
  Task = {11, 21, 22}
  Home <- Place
  Dest <- ToNode2
  Fd = {0, 1}
  Started <- By1
  Window <- Wide
  SockCap = 1
  MaxMsg <- Four11One22
  Exits = {}
  MaxLost = 0
SPECIFICATION Spec
INVARIANTS StopsBalanced AcksCounted InOrder QuietMeansGoing
CHECK_DEADLOCK FALSE
