SPECIFICATION Spec
CONSTANTS
  Problems <- HeldInside
  MaxPattern = 1
  MaxSequence = 1
  MaxStream = 6
INVARIANT AcceptedIsRecognised
CHECK_DEADLOCK FALSE
