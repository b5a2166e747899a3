SPECIFICATION FairSpec
CONSTANTS
  fake = fake
  c1 = c1
  Device <- OneDevice
  Registered <- OneDevice
  Battery = {}
  Conn <- OneConn
  BusCap = 1
  ClientBuffer = 1
  BroadcastCap = 1
  MaxTicks = 2
CHECK_DEADLOCK FALSE
INVARIANT
  BridgeKeepsOrder
PROPERTIES
  ViewRefined
  ProcessExits
  PublishedIsFannedOut
