CONSTANTS
  r1 = r1
  r2 = r2
  r3 = r3
  Requests = {r1, r2, r3}
  Concurrency = 2
  PanicPolicies = {"FailWorker", "LogAndContinue", "Propagate"}
SPECIFICATION FairSpec
INVARIANTS
  LateAdmission
  GaugeAccounting
PROPERTIES
  ImplementsBoundedWorker
  ShutdownSeen
  DrainEnds

