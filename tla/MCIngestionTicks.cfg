SPECIFICATION Spec
CONSTANTS
  enphase = enphase
  fake = fake
  Device <- BothProviders
  Registered <- BothProviders
  Battery <- FakeOnly
  BusCap = 1
  MaxTicks = 2
  MaxCrashes = 0
CHECK_DEADLOCK FALSE
INVARIANT
  EveryTickPollsEveryProvider
