CONSTANTS
  MaxCommands = 1
  MaxLink = 2
  MaxCycles = 1
  Initially <- MCInitially
  Submissions <- MCSubmissions
SPECIFICATION ApplyFairSpec
INVARIANTS OperationIsHonest FullFrameKeepsRate ValidIsCurrent AppliedIsTrue
PROPERTY OperationsEnd
CHECK_DEADLOCK FALSE
