CONSTANTS
  None = None
  Malformed = {"", "{id"}
  Numerals = {"0", "1"}
  Sources <- MCSources
  Tokens <- MCTokens
  Numbers = {"7", "1", "5"}
  Values = {"x", "odd"}
  WireKinds = {"MISSING", "INTERNAL_ERROR"}
  Unserialisable = {"odd"}
SPECIFICATION Spec
INVARIANTS
  AcceptedIsServable
  AuthEnforced
  ArgumentsArrive
  ResponsesArrive
  ErrorsArrive
CHECK_DEADLOCK FALSE
