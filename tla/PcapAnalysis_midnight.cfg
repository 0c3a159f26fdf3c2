CONSTANTS
  Mbit = 1
  Threshold = 1
  Day = 4
  Pause = 2
  Sizes = {1, 3}
  Grouping = FALSE
  Start = 2
  MaxClock = 6
  MaxPackets = 3
SPECIFICATION Spec
INVARIANT FingerprintInArrivalOrder
CHECK_DEADLOCK FALSE
