CONSTANTS
  N = 3
  DeadLimit = 1
  maxStatusBcasts = 1
  MAX_WRONG_CLIENTS = 0
  ListLen = 1
  Calls = 1
  Initial = {0, 2}
  Starts <- SecondOnce
  Stops = {0}
  Mortal = {}
  MaxCrash = 1
  MaxCut = 0
  Flaky = {}
  PingCap = 0
  MissCap = 2
SPECIFICATION Spec
INVARIANTS MasterIsLowest MasterHasSpace UnknownIsAlone
CHECK_DEADLOCK FALSE
