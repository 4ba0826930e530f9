CONSTANTS
  Task = {1, 2, 3, 4}
  Node = {0, 1}
  Home <- Together
  Parent <- Fork
  Late = {2, 3, 4}
  Client = {1}
  Asks = {}
  Fails = {}
  Mortal = {}
  None = 0
SPECIFICATION Spec
INVARIANTS OrphansSignalled
CHECK_DEADLOCK FALSE
