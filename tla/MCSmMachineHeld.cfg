SPECIFICATION Spec
CONSTANTS
  Files <- ReturnsInFor
  CollectWhileHeld = TRUE
  MaxOut = 20
INVARIANTS
  NoStalePointer
