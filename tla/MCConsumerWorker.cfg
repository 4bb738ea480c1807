CONSTANTS
  m1 = m1
  Messages = {m1}
  Concurrency = 2
  MaxDeliver = 3
  AckWait = 3
  Period = 1
  PanicPolicies = {"FailWorker", "LogAndContinue", "Propagate"}
SPECIFICATION FairSpec
INVARIANTS
  OnlyHandlersSettle
  NoOverlap
PROPERTIES
  ImplementsBoundedWorker
  DrainEnds
  EveryMessageSettles
