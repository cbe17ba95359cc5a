SPECIFICATION FairSpec
CONSTANTS
  Requests = {"r1", "r2"}
  N = 2
  MaxEdits = 1
  MaxCrashes = 2
INVARIANT SkippedIsCurrent
CHECK_DEADLOCK FALSE
