SPECIFICATION FairSpec
CONSTANTS MaxCommands = 2 MaxExternal = 1 MaxInFlight = 2 Slow = TRUE IgnoredWrites = FALSE
CHECK_DEADLOCK FALSE
INVARIANTS CalibrationIsOwned StopOkMeansReleased WritesWereAsked
PROPERTIES StopCompletes OperationEnds
