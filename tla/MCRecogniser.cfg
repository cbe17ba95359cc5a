SPECIFICATION Spec
CONSTANTS
  Problems <- MCProblems
  MaxPattern = 4
  MaxSequence = 3
  MaxStream = 6
INVARIANTS MachineRecognises ListedIsReached Forced
PROPERTY Derived
CHECK_DEADLOCK FALSE
