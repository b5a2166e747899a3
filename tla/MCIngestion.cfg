SPECIFICATION FairSpec
CONSTANTS
  enphase = enphase
  fake = fake
  Device <- BothProviders
  Registered <- FakeOnly
  Battery <- FakeOnly
  BusCap = 1
  MaxTicks = 3
  MaxCrashes = 1
CHECK_DEADLOCK FALSE
INVARIANTS
  TypeOK
  UnregisteredBacksOffForever
  PublishedArePersisted
  PublishedInOrder
  AtMostOneRowAfterCancel
PROPERTIES
  LogRefined
  CycleEnds
  PollersStop
