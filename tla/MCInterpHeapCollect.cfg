SPECIFICATION FairSpec
CONSTANTS
  Names = {"x", "y"}
  Threshold = 1
  MaxObjects = 2
  MaxElements = 1
  MaxFrames = 4
  MaxActive = 3
  MaxSteps = 4
INVARIANTS
  TypeOK
  TranslatedOnce
  ToSpaceNeverGrows
  CopiesAreTheLive
  StatementsStartGlobal
  MemoryInv
  ReachedInv
PROPERTIES
  CollectionsAreUnseen
  CollectionEnds
