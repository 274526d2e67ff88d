SPECIFICATION PartsSpec
CONSTANTS
  t = t
  h = h
  c = c
  z = z
  i = i
  j = j
  Texts = {t, z}
  Thoughts = {h}
  Calls = {c}
  Opted = {c}
  Retired = {z}
  MaxBlocks = 3
  MaxBacklog = 2
  MaxTroubles = 1
  Mutations = {t, h}
  Original = z
  Changes = {i, j}
  MaxMeddling = 2
INVARIANTS AnswerIsWhole CallsAreRun 
CHECK_DEADLOCK FALSE
