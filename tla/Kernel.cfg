SPECIFICATION PartsSpec
CONSTANTS
  c1 = c1
  c2 = c2
  Cells = {c1, c2}
  Modes = {"native", "plain"}
  SlowOrphans = FALSE
  MaxTroubles = 3
  Runners = {c1, c2}
  MaxMishaps = 2
INVARIANTS RecoveryIsHonest  ToldByReplacement
PROPERTIES RestartEnds
CHECK_DEADLOCK FALSE
