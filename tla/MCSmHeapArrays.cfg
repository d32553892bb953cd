SPECIFICATION Spec
CONSTANTS
  SpaceWords = 18
  MaxRoots = 3
  Scalars = {}
  Aggregates = {"Ref", "Array"}
  MaxElements = 1
INVARIANTS
  WellTyped
  RefChainsEnd
PROPERTIES
  ImplementsObjectStore
