SPECIFICATION Spec
CONSTANTS
  States = {0, 1, 2}
  Root = 0
  Predicates = {"at", "room"}
  Tuples = {"a", "b"}
  Facts <- MCFacts
  Extension <- MCExtension
  Declined = {}
  Stale = Stale
INVARIANTS TypeOK EnginesAgree CountsFacts
PROPERTIES Independent SharesUntouched
VIEW MCView
CHECK_DEADLOCK FALSE
