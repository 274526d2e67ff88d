SPECIFICATION PartsSpec
CONSTANTS
  a = a
  b = b
  origin = origin
  Origin = origin
  Jobs = {a}
  OriginJobs = {a}
  Conditional = {a}
  Silent = {}
  Repeats = {1}
  MaxParallel = 1
  MaxChecks = 1
  AlertAfter = 2
  MaxTime = 2
  MaxManual = 1
  MaxCommands = 1
  MaxTroubles = 1
  Models = {a, b}
  None = None
  SharedChunks = FALSE
  MaxChoices = 2
  MaxLaunches = 2
  MaxFaults = 2
INVARIANTS OccurrencesAreKept CompletedWasAnswered 
PROPERTIES RunsEnd ChoiceArrives
CHECK_DEADLOCK FALSE
