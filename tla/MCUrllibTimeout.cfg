SPECIFICATION FairSpec
CONSTANTS
  QueueMax = 2
  ReadSize = 2
  MaxSent = 5
PROPERTY
  TimeoutLosesNothing
\* The stream may be over.
CHECK_DEADLOCK FALSE
