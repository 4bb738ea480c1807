CONSTANTS
  d1 = d1
  d2 = d2
  m1 = m1
  m2 = m2
  p1 = p1
  p2 = p2
  None = None
  Durables = {d1, d2}
  Messages = {m1, m2}
  Runners = {p1, p2}
  Accepts <- MCAccepts
  MaxDeliver <- MCMaxDeliver
  AckWait <- MCAckWait
  Backoff <- MCBackoff
  DeadLetters = {d1}
  Delays = {1}
  MaxTimeouts = 1
SPECIFICATION FairSpec
INVARIANTS
  OnePlace
  DeadLettersExact
PROPERTIES
  FirstAttemptsInOrder
  ImplementsDurable
  EveryCopySettles
CHECK_DEADLOCK FALSE
