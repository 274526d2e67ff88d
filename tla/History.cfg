SPECIFICATION Spec
CONSTANTS
  Attempts = 2
  MaxEntries = 3
  MaxWrites = 3
  MaxGen = 2
  MaxTroubles = 1
 
PROPERTIES AppendsAreIndexed
CHECK_DEADLOCK FALSE
