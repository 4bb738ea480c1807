CONSTANTS
  s1 = s1
  s2 = s2
  r1 = r1
  r2 = r2
  r3 = r3
  c1 = c1
  None = None
  Services = {s1, s2}
  Workers = {r1, r2, r3, c1}
  Startup <- MCStartup
  ServiceOf <- MCServiceOf
  WorkerFailures = {"Ignore", "ShutdownApp", "Restart"}
SPECIFICATION AppFairSpec
INVARIANTS
  AbortsReported
PROPERTIES
  ShutdownCompletes
  FailureStopsApp
  NoOrphans
  ImplementsLifecycle
