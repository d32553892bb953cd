SPECIFICATION Spec
CONSTANTS
  Files <- Everything
  CollectWhileHeld = FALSE
  MaxOut = 20
INVARIANTS
  TypeOK
  RootsAreTheSlots
  CompiledCodeIsVerified
  OperandsAsCompiled
  SameOutput
  ReferencesEnd
PROPERTIES
  AssignmentsReachAliases
  ObjectsStay
