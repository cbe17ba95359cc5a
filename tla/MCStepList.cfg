SPECIFICATION Spec
CONSTANTS
  Problems <- MCProblems
  Starts <- MCStarts
  MAX_FREE = 2
  MAX_TIED = 40
  MAX_TURNS = 18
  MAX_TURNS_PHASED = 20
  MaxPhases = 2
  MaxNested = 3
INVARIANTS OpenedIsFilled ClosedIsWhole RightListOffered
PROPERTIES StaysWritable Ends
CHECK_DEADLOCK FALSE
