SPECIFICATION FairAccount
CONSTANTS
  MaxGrants = 4
  MaxRestarts = 2
  MaxCallbacks = 3
INVARIANTS
  TypeOK
  SessionKept
  ExpiryCostsNoCall
PROPERTIES
  Heals
  CommandEnds
