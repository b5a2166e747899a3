SPECIFICATION Spec
CONSTANTS
  c1 = c1
  c2 = c2
  Conn <- MCConn
  ClientBuffer = 1
  BroadcastCap = 1
  MaxEvents = 3
SYMMETRY ConnSymmetry
CHECK_DEADLOCK FALSE
INVARIANTS
  TypeOK
  NoUseOfClosedChannel
  ClientsAreSubscribers
  InOrder
  NoSilentGap
  BurstAbsorbed
