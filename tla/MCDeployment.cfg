SPECIFICATION FairSpec
CONSTANTS
  s1 = s1
  s2 = s2
  Seeder <- TwoRuns
  Days <- DayAndInstant
  Interval = 2
  Hour = 4
  Day = 8
  FirstClock = 11
  MaxClock = 12
  MaxCrashes = 1
  MaxPolls = 1
  MaxDelay = 2
CHECK_DEADLOCK FALSE
INVARIANTS
  ServedSchemaIsComplete
  BatteryRowsJoin
  SeededChartHasNoHole
  NoRowFromTheFuture
PROPERTIES
  ServerServes
  PollsResume
