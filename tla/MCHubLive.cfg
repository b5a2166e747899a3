SPECIFICATION RunFairSpec
CONSTANTS
  c1 = c1
  c2 = c2
  Conn <- OneConn
  ClientBuffer = 2
  BroadcastCap = 2
  MaxEvents = 4
CHECK_DEADLOCK FALSE
PROPERTIES
  FeedRefined
  BroadcastProgress
  RunStops
  DepartedHandlerEnds
