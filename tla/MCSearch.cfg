CONSTANTS
  Facts <- SFacts
  ActionDefs <- SActionDefs
  MethodDefs <- SMethodDefs
  Root = "top"
  InitialFacts = {}
  Mode = "compiled"
  MaxDepth = 3
  Nodes <- MCNodes
  Start <- MCStart
  RootTID = 0
  Tasks <- MCTasks
  NextTID <- MCNextTID
  Expand <- MCExpand
  Outcomes <- MCOutcomes
  HasPlan <- MCHasPlan
  MaxIterations = 5
  Timed = TRUE
  MaxDecisions = 6
  StuckLimit = 3
  EarlyCommit = TRUE
SPECIFICATION FairSpec
INVARIANTS
  TaskTreeIsDerivation
  DeadendIsProof
PROPERTIES GivesUpUnvisited SearchEnds
CHECK_DEADLOCK FALSE
