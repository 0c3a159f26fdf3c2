CONSTANTS
  a = a
  b = b
  s = s
  client = client
  server = server
  Instance = {client, server}
  Addr = {a, b, s}
  StaticIP = s
  Traffic <- Conversation
  Mbit = 2
  BurstThreshold = 2
  ObservationThreshold = 2
  LowRateLimit = 2
  BehaviorDefinitions <- BurstDefinition
  MaxTime = 4
  MaxRate = 7
  MaxWindow = 3
SPECIFICATION Spec
INVARIANTS
  FlagsSymmetric
  FlagHasExpiry
  DetectionLostOnlyToPeer
PROPERTY
  FileLostOnlyToPeer
CHECK_DEADLOCK FALSE
