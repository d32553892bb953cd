SPECIFICATION Spec
CONSTANTS
  Files <- LoopsOverAggregates
  CollectWhileHeld = FALSE
  MaxOut = 20
INVARIANTS
  LoopsVisitTheElements
