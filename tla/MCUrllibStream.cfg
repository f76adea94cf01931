SPECIFICATION FairSpec
CONSTANTS
  QueueMax = 2
  ReadSize = 2
  MaxSent = 5
INVARIANTS
  TypeOK
  EndIsTheEnd
  ErrorComesLast
PROPERTIES
  NoGap
  NothingLeaks
\* The stream may be over.
CHECK_DEADLOCK FALSE
