SPECIFICATION FairSpec
CONSTANTS
  fake = fake
  hour = hour
  day = day
  Device <- OneDevice
  deviceId = fake
  Interval <- TwoIntervals
  Hour = hour
  MaxCycles = 2
  MaxClicks = 2
  MaxLosses = 1
CHECK_DEADLOCK FALSE
INVARIANTS
  TypeOK
  ReadingsMatchInterval
  CardsFollowHeader
PROPERTIES
  HeaderMovesForward
  SkeletonGoes
