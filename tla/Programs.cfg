SPECIFICATION FairSpec
CONSTANTS
  d = d
  Devices <- MCDevices
  MaxSessions = 2
  MaxSamples = 2
  MaxCalls = 4
  MaxGrowth = 3
INVARIANTS ExitIsHonest
PROPERTIES SaveFollowsStop ConsumerFollows ProgramsEnd
