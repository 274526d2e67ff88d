SPECIFICATION Spec
CONSTANTS
  MaxEntries = 5
  MaxInputs = 2
  MaxCustom = 1
  MaxTroubles = 2
CHECK_DEADLOCK FALSE
INVARIANTS
  ReadsAgree
  CallsAreAttended
PROPERTIES
  SpansStayWhole
