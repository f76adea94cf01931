SPECIFICATION FairSpec
CONSTANTS
  Messages = {"data", "error", "goaway", "malformed", "unclosed"}
  MaxReconnects = 2
  MaxSent = 4
INVARIANTS
  TypeOK
  ReconnectBudget
  WholeBudgetPerOutage
  EndDeliversAll
PROPERTY
  OutageEnds
\* The stream may have ended.
CHECK_DEADLOCK FALSE
