CONSTANTS
  w1 = w1
  w2 = w2
  d1 = d1
  d2 = d2
  Worker = {w1, w2}
  Dispatcher = {d1, d2}
  Requests <- MCRequests
  MAX_MSG_COUNT = 1
  MQ_PRIO_MAX = 32768
  MaxRuns <- MCRuns
  MaxSignals = 2
  MaxCrashes = 1
SPECIFICATION FairSpec
INVARIANTS
  LastWorkerCleansUp
  ListensToName
PROPERTIES
  ImplementsPromise
  EveryTaskIsProcessed
CHECK_DEADLOCK FALSE
