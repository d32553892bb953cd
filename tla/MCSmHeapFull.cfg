SPECIFICATION FairSpec
CONSTANTS
  SpaceWords = 11
  MaxRoots = 3
  Scalars = {"Int"}
  Aggregates = {"Ref"}
  MaxElements = 1
PROPERTIES
  AllocationEnds
