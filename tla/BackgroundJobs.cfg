SPECIFICATION FairJobs
CONSTANTS
  a = a
  r = r
  s = s
  Jobs = {a}
  Sessions = {r, s}
  Owner <- MCOwner
  MaxRunning = 2
  MaxRead = 1
  LateLaunch = FALSE
  MaxFailures = 1
PROPERTIES ReportedOnce  CompletionsArrive
CHECK_DEADLOCK FALSE
