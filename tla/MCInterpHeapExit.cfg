SPECIFICATION Spec
CONSTANTS
  Names = {"x"}
  Threshold = 2
  MaxObjects = 2
  MaxElements = 1
  MaxFrames = 4
  MaxActive = 3
  MaxSteps = 4
INVARIANTS
  EveryStatementStartsGlobal
