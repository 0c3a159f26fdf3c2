CONSTANTS
  a = a
  b = b
  s = s
  client = client
  Instance = {client}
  Addr = {a, b, s}
  StaticIP = s
  Traffic <- Download
  Mbit = 2
  BurstThreshold = 10
  ObservationThreshold = 30
  LowRateLimit = 115
  BehaviorDefinitions = {}
  MaxTime = 4
  MaxRate = 90
  MaxWindow = 6
  AnalysisThreshold = 15
  Header = 1
  Printed <- LengthsPrinted
  Outgoing = {}
  MaxOutgoing = 0
SPECIFICATION CaptureSpec
INVARIANT FingerprintIsBehavior
CHECK_DEADLOCK FALSE
