SPECIFICATION SweepsSpec
CONSTANTS
  Capacity = 3
  MaxReadings = 6
  MaxActions = 4
INVARIANTS SweepsDoNotMix ComparesOneCalibration EndVerifiedIsHonest
CHECK_DEADLOCK FALSE
