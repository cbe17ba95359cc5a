CONSTANTS
  Facts <- MCFacts
  ActionDefs <- MCActionDefs
  MethodDefs <- MCMethodDefs
  Root = "top"
  InitialFacts <- MCInitialFacts
  Mode = "protected"
SPECIFICATION TSpec
INVARIANTS
  HoldsThroughout
  ChecksTellHistory
PROPERTY ImplementsAtStart
CHECK_DEADLOCK FALSE
