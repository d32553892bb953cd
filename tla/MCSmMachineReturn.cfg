SPECIFICATION Spec
CONSTANTS
  Files <- ReturnsInFor
  CollectWhileHeld = FALSE
  MaxOut = 20
INVARIANTS
  ReturnIsDefined
