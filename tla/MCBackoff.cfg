SPECIFICATION Spec
CONSTANT
  MaxFailures = 70
INVARIANTS
  SleepsOnSchedule
  NeverLongerThanMax
