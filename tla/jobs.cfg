\* Handlers finish within their lease; every kind of failure, crashes.
CONSTANTS
  tick = tick
  sync = sync
  summary = summary
  w1 = w1
  w2 = w2
  w3 = w3
  NoJob = NoJob
  Job = {tick, sync, summary}
  Worker <- MCWorker
  Serves <- MCServes
  Keeper <- MCKeeper
  MaxAttempts <- MCMaxAttempts
  Priority <- MCPriority
  FailureKinds <- MCFailures
  SlowHandlers = FALSE
  MaxFaults = 3

SPECIFICATION FairSpec

INVARIANTS
  TypeOK
  SingleExecutor
  CommittedOnce
  LeaseIffRunning

PROPERTY ImplementsDelivery
