SPECIFICATION Spec
CONSTANTS
  Followed = {"ask"}
  Attempts = 2
  MaxEpisodes = 2
  MaxTriggers = 2
  MaxTroubles = 1
PROPERTIES
  UserWorkIsAnnounced
  
CHECK_DEADLOCK FALSE
