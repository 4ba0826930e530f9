CONSTANTS
  Task = {1, 2, 3, 4}
  Node = {0, 1, 2}
  Home <- Mixed
  Parent <- Fork
  Late = {3}
  Client = {1, 2, 3}
  Asks = {1, 2, 3}
  Fails = {}
  Mortal = {1}
  None = 0
SPECIFICATION Spec
INVARIANTS TypeOK PendingCounted AnsweredOnce Forgotten FamilyAgrees
CHECK_DEADLOCK FALSE
