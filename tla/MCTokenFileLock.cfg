\* Two processes where open files are pinned; either of them may crash.
CONSTANTS
  Procs = {p1, p2}
  NoPid = NoPid
  NoFile = NoFile
  Initial = Initial
  Anything = Anything
  OpenFilesPinned = TRUE
  MaxWaits = 1
SPECIFICATION FairSpec
INVARIANTS TypeOK MutualExclusion
PROPERTIES ImplementsStore AcquisitionEndsOrOthersChurn
\* The processes may all be dead.
CHECK_DEADLOCK FALSE
