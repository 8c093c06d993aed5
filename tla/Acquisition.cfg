SPECIFICATION FairAcquisition
CONSTANTS
  QuatPeriod = 1
  QuatRetry = 2
  StaleAfter = 2
  BatteryFirst = 2
  WriteTimeout = 3
  ResponseTimeout = 3
  Silence = 4
  BatteryPoll = 6
  MaxPause = 2
  MaxAnswers = 1
  PolledModes = {TRUE,FALSE}
  Prompt = TRUE
CHECK_DEADLOCK FALSE
INVARIANTS OneRequestAtATime FreshIsConnected
PROPERTIES PollingContinues BatteryKeepsNothingAlive
