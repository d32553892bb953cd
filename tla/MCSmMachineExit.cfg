SPECIFICATION Spec
CONSTANTS
  Files <- ExitsElsewhere
  CollectWhileHeld = FALSE
  MaxOut = 20
INVARIANTS
  ExitLeavesItsLoop
