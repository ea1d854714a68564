\* Handlers may outlive their lease, so stale workers exist.
CONSTANTS
  tick = tick
  sync = sync
  summary = summary
  w1 = w1
  w2 = w2
  w3 = w3
  NoJob = NoJob
  Job = {sync}
  Worker <- MCPool
  Serves <- MCPoolServes
  Keeper <- MCKeeper
  MaxAttempts <- MCPoolAttempts
  Priority <- MCPriority
  FailureKinds <- MCPoolFailures
  SlowHandlers = TRUE
  MaxFaults = 3

SPECIFICATION FairSpec

INVARIANTS
  AttemptBound
  CommitsWithinAttempts

PROPERTY EventuallySettled
