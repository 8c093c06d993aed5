SPECIFICATION FairSpec
CONSTANTS
  StaleAfter = 3
  OscInterval = 2
  DolbyInterval = 1
  MaxTime = 3
  MaxSession = 2
  MaxSample = 2
CHECK_DEADLOCK FALSE
INVARIANTS OutputsRateLimited SamplesAccounted ReferenceIsSound
PROPERTIES DeadlinesServed
