\* The first requests ever, failures, and a circuit that opens.
CONSTANTS
  p1 = p1
  p2 = p2
  Process = {p1, p2}
  Rate = 1
  Burst = 1
  MaxRetries = 1
  FailThreshold = 2
  ResetTimeout = 2
  MaxBackoff = 1
  MaxTime = 4
  Seeded = FALSE

SPECIFICATION Spec
SYMMETRY Symmetric
CHECK_DEADLOCK FALSE

INVARIANTS
  TypeOK
  OvergrantExplained

PROPERTY SilentWhileOpen
