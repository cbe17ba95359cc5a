CONSTANTS
  Facts <- RFacts
  ActionDefs <- RActionDefs
  MethodDefs <- RMethodDefs
  Root = "top"
  InitialFacts = {}
  Mode = "at_start"
  MaxDepth = 6
  Starts <- RStarts
  Longest = 8
SPECIFICATION RFairSpec
INVARIANTS
  RefutedIsProof
  ScoredPlanReplays
  PlanRestored
PROPERTY Terminates
CHECK_DEADLOCK FALSE
