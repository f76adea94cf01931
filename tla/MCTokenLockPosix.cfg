\* Two processes where open files can be renamed and removed.
CONSTANTS
  Procs = {p1, p2}
  NoPid = NoPid
  NoFile = NoFile
  Initial = Initial
  Anything = Anything
  OpenFilesPinned = FALSE
  MaxWaits = 1
SPECIFICATION FairSpec
PROPERTY OnlyStaleLocksStolen
\* The processes may all be dead.
CHECK_DEADLOCK FALSE
