SPECIFICATION FairSpec
CONSTANTS
  f1 = f1
  u1 = u1
  c1 = c1
  c2 = c2
  Inputs = {u1, f1}
  FollowUps = {f1}
  NextTurns = {}
  Customs = {f1}
  Calls = {c1, c2}
  MaxRetries = 1
  MaxTroubles = 1
INVARIANTS EffectsOnce ReportIsConservative
PROPERTIES RetriesAreSafe QueuedInputsArrive
CHECK_DEADLOCK FALSE
