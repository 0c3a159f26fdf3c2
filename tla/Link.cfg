CONSTANTS
  Capacity = 2
  SleepinessTrigger = 1
  MaxPackets = 3
SPECIFICATION FairSpec
INVARIANTS TypeOK NeverStalls InOrder
PROPERTIES PriorityKept EveryPacketLeaves ImplementsDirection
CHECK_DEADLOCK FALSE
