\* One worker is enough; a threshold of two.
CHECK_DEADLOCK FALSE
SPECIFICATION Spec
CONSTANTS
  Writer = {w1}
  Name = {"schema.ok", "schema.drift", "schema.drift_circuit_open"}
  MaxId = 4
  Threshold = 2
INVARIANT StoppedByDrift
