SPECIFICATION FairSpec
CONSTANTS
  a = a
  b = b
  c = c
  NoId = NoId
  Ids = {a, b, c}
  Parent <- MCParent
  MaxResident = 2
  MaxStarts = 1
  MaxWork = 2
  MaxTroubles = 2
INVARIANTS ActivityIsTrue
PROPERTIES WorkIsTaken
CHECK_DEADLOCK FALSE
