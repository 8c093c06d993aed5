SPECIFICATION Spec
CONSTANTS
  MaxTasks = 2
CHECK_DEADLOCK FALSE
INVARIANTS
  RunningHasWorker
