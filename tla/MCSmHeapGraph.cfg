SPECIFICATION FairSpec
CONSTANTS
  SpaceWords = 13
  MaxRoots = 3
  Scalars = {"Int"}
  Aggregates = {"Ref", "Tuple", "Func"}
  MaxElements = 2
INVARIANTS
  TypeOK
  HeapInv
  NoDangling
  EvacuationFits
  CopiesAreExactlyTheLive
  NestedNeverFinishes
  CopiesInv
  CellsInv
  NestedInv
PROPERTIES
  ImplementsObjectStore
  CollectionEnds
