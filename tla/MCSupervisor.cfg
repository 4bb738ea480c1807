CONSTANTS
  InitialBackoff = 1
  MaxBackoff = 3
  MaxRestarts = 2
  Window = 9
  Policies = {"Ignore", "ShutdownApp", "Restart"}
  MaxTime = 22
SPECIFICATION FairSpec
INVARIANTS
  RestartRate
  GivesUpWhenExhausted
  BackoffGrows
PROPERTIES
  StopsOnShutdown
  ImplementsWorkerTask
