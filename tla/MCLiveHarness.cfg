CONSTANTS
  Tests <- MCTests
  None = None
  p1 = p1
  p2 = p2
  Ports = {p1, p2}
  MaxRestarts = 2
SPECIFICATION FairSpec
INVARIANTS
  NothingLeft
  UrlStays
PROPERTIES
  ServerOutlivesApp
  EveryTestEnds
