SPECIFICATION FairSpec
CONSTANTS
  a = a
  b = b
  Devices <- MCDevices
  MaxRequests = 3
  MaxQueue = 2
  MaxExternal = 1
INVARIANTS StartedIsGuarded OneDeviceOwes IdleIsQuiet
CHECK_DEADLOCK FALSE
PROPERTY WaitingEnds
