CONSTANTS
  m1 = m1
  m2 = m2
  m3 = m3
  Messages = {m1, m2, m3}
  Concurrency = 2
  PanicPolicies = {"FailWorker", "LogAndContinue", "Propagate"}
SPECIFICATION Spec
PROPERTY ImplementsBoundedWorker
