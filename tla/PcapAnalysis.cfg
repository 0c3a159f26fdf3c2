CONSTANTS
  Mbit = 1
  Threshold = 1
  Day = 6
  Pause = 2
  Sizes = {1, 3}
  Grouping = TRUE
  Start = 2
  MaxClock = 8
  MaxPackets = 4
SPECIFICATION Spec
INVARIANTS TypeOK OnlyBadCapturesFail GroupsPartitionCapture GroupsCutAtPauses
CHECK_DEADLOCK FALSE
