CONSTANTS
  a = a
  b = b
  s = s
  client = client
  server = server
  Instance = {client}
  Addr = {a, b, s}
  StaticIP = s
  Traffic <- MixedTraffic
  Mbit = 2
  BurstThreshold = 2
  ObservationThreshold = 2
  LowRateLimit = 1
  BehaviorDefinitions <- Definitions
  MaxTime = 5
  MaxRate = 7
  MaxWindow = 4
SPECIFICATION Spec
PROPERTY
  ReportListsFlagged
CHECK_DEADLOCK FALSE
