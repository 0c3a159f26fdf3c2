CONSTANTS
  a = a
  b = b
  s = s
  client = client
  Instance = {client}
  Addr = {a, b, s}
  StaticIP = s
  Traffic <- AllPaths
  Mbit = 2
  BurstThreshold = 10
  ObservationThreshold = 4
  LowRateLimit = 115
  BehaviorDefinitions <- Library
  MaxTime = 6
  MaxRate = 26
  MaxWindow = 5
  AnalysisThreshold = 15
  Header = 1
  Printed <- LengthsPrinted
  Outgoing <- Reply
  MaxOutgoing = 1
SPECIFICATION CaptureSpec
INVARIANTS
  StringsAlign
  DetectionFollowsBurst
CHECK_DEADLOCK FALSE
