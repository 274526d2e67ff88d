SPECIFICATION FairSpec
CONSTANTS
  u = u
  v = v
  b = b
  c = c
  Inputs = {c, b}
  Internal = {b}
  Commands = {c}
  PendingLimit = 2
  MaxGen = 2
  MaxTroubles = 1
PROPERTIES FailedWakeIsShown ImplementsContract NoInputForgotten
CHECK_DEADLOCK FALSE
