SPECIFICATION Spec
CONSTANTS
  Messages = {"data", "error", "goaway", "malformed", "unclosed"}
  MaxReconnects = 2
  MaxSent = 4
INVARIANT
  MalformedJsonRaises
\* The stream may have ended.
CHECK_DEADLOCK FALSE
