CONSTANTS
  Plugin = {1, 2, 3}
  Async = {1, 2}
  Faulty = {1}
  Graphs <- TidyLoops
  Patient = TRUE
SPECIFICATION FairSpec
INVARIANTS TypeOK RefsMatch Provided NeverStuck
PROPERTIES ForcedOut ShutdownEnds
CHECK_DEADLOCK FALSE
