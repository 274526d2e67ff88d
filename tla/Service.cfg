SPECIFICATION Spec
CONSTANTS
  a = a
  b = b
  x = x
  Procs = {a, b}
  Old = x
  MaxAttempts = 5
  MaxKills = 1
  MaxMessages = 1
  MaxDeltas = 1
  MaxTurns = 2
  MaxGen = 2
  MaxPipe = 1
  MaxRing = 2
  MaxQueue = 2
  MaxTroubles = 1
INVARIANTS  FeedIsExact ViewIsExact
PROPERTIES  ClientRecovers
CHECK_DEADLOCK FALSE
