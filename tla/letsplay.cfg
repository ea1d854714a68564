\* Searches, fetches and summaries overlap; the second day may be long after.
CONSTANTS
  g1 = g1
  v1 = v1
  v2 = v2
  w1 = w1
  w2 = w2
  None = None
  Game = {g1}
  Video = {v1, v2}
  GameOf <- MCGameOf
  Worker = {w1, w2}
  Units = 2
  Limit = 5
  MaxCopy = 1
  MaxDay = 2

SPECIFICATION FairSpec
CHECK_DEADLOCK FALSE

INVARIANTS
  TypeOK

PROPERTIES
  OverrunOnlyByOverlap
  LostOnlyToOverlap
  DeferredReturns
