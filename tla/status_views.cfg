CONSTANTS
  N = 3
  DeadLimit = 1
  maxStatusBcasts = 1
  MAX_WRONG_CLIENTS = 0
  ListLen = 1
  Calls = 1
  Initial = {0, 1, 2}
  Starts <- Never
  Stops = {}
  Mortal = {0, 1}
  MaxCrash = 1
  MaxCut = 1
  Flaky = {0}
  PingCap = 0
  MissCap = 2
SPECIFICATION FairSpec
INVARIANTS TypeOK
PROPERTIES Converges
CHECK_DEADLOCK FALSE
