SPECIFICATION Spec
CONSTANTS
  Names = {"x"}
  Threshold = 2
  MaxObjects = 3
  MaxElements = 1
  MaxFrames = 3
  MaxActive = 2
  MaxSteps = 4
INVARIANTS
  LoopsMeetTheirEnd
