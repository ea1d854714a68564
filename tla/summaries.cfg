\* Two workers, a ceiling of one call an hour, a history of one.
CONSTANTS
  critic = critic
  user = user
  r1 = r1
  r2 = r2
  w1 = w1
  w2 = w2
  v1 = v1
  v2 = v2
  Review = {r1, r2}
  Audience = {critic, user}
  User = user
  Recipe = {v1, v2}
  None = None
  Worker = {w1, w2}
  Threshold <- MCThreshold
  MinNew = 2
  MinNewPercent = 60
  Keep = 1
  MaxCalls = 1
  CostLimit = 2
  MaxStarts = 3
  MaxChanges = 3

SPECIFICATION Spec
CONSTRAINT OneBoundMet
SYMMETRY Symmetric
CHECK_DEADLOCK FALSE

INVARIANTS
  TypeOK
  OneCurrent
  HistoryOrdered
  CitationsResolve

PROPERTY ImplementsShown
