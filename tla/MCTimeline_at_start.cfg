CONSTANTS
  Facts <- MCFacts
  ActionDefs <- MCActionDefs
  MethodDefs <- MCMethodDefs
  Root = "top"
  InitialFacts <- MCInitialFacts
  Mode = "at_start"
SPECIFICATION TSpec
INVARIANTS
  TypeOK
  EdgesMirrored
  OrderingsAcyclic
  CheckedBeforeStart
  HoldsAtStart
  RestrictionLosesNoPlan
PROPERTY ImplementsCompiled
CHECK_DEADLOCK FALSE
