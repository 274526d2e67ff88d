SPECIFICATION PartsSpec
CONSTANTS
  r = r
  c = c
  NoSession = NoSession
  Sessions = {r, c}
  Parent <- MCParent
  Home = NoSession
  Messages = {m1}
  m1 = m1
  m2 = m2
  Reach <- MCBoth
  PendingLimit = 1
  MaxAttempts = 1
  MaxGen = 2
  MaxTroubles = 1
  MaxTurns = 2
  MaxTurnTroubles = 2
INVARIANTS ReportsAreTrue
PROPERTIES ImplementsMailbox  FailuresAreHeard
CHECK_DEADLOCK FALSE
