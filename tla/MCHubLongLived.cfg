SPECIFICATION Spec
CONSTANTS
  c1 = c1
  c2 = c2
  Conn <- OneConn
  ClientBuffer = 1
  BroadcastCap = 1
  MaxEvents = 3
CHECK_DEADLOCK FALSE
INVARIANT
  LongLived
