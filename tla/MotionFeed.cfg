SPECIFICATION Spec
CONSTANTS
  Readers = {a, b}
  Capacity = 2
  MaxBatch = 2
  MaxSample = 5
  MaxDelivery = 3
  MaxId = 4
  Header = 0
  FrameLength <- MCFrameLength
  Checked = {2}
  Damaged = 9
  NsPerMs = 2
  Tolerance = 1
  InfoPeriod = 3
  StatusPeriod = 2
  BatteryStale = 3
CHECK_DEADLOCK FALSE
PROPERTIES
  ImplementsFeed
  LatestIsCurrent
