SPECIFICATION Spec
CONSTANT
  MaxFailures = 70
INVARIANT
  NeverShorterThanMin
