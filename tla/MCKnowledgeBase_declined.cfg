SPECIFICATION Spec
CONSTANTS
  States = {0, 1, 2}
  Root = 0
  Predicates = {"at", "room"}
  Tuples = {"a", "b"}
  Facts <- MCFacts
  Extension <- MCExtension
  Declined <- MCDeclined
  Stale = Stale
INVARIANT EnginesAgree
VIEW MCView
CHECK_DEADLOCK FALSE
