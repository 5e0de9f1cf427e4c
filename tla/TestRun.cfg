SPECIFICATION FairSpec
CONSTANTS
  Kinds = {"run", "try"}
  LoggerTo = {"stdout"}
  Budget = 3
  BadUpdates = FALSE
  SlowTasks = FALSE
INVARIANTS TypeOK EndsReported OneRun OutputComplete
PROPERTIES LoadTestExits
CHECK_DEADLOCK FALSE
