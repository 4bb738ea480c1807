CONSTANTS
  r1 = r1
  r2 = r2
  Concurrency = 2
  Requests = {r1, r2}
  PanicPolicies = {"FailWorker", "LogAndContinue", "Propagate"}
SPECIFICATION Spec
INVARIANT GaugeMatchesInFlight
