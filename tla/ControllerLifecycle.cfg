SPECIFICATION FairSpec
CONSTANTS MaxTasks = 2
CHECK_DEADLOCK FALSE
INVARIANTS StopOkReleases RunningHasWorkerUnlessAborted MagneticFailureIsReported
PROPERTIES CancelledEnds
