\* Nested statements, with returns and declarations anywhere in them.
SPECIFICATION Spec
CONSTANTS
  Null = Null
  VarNames = {"c", "v", "w", "x", "y"}
  FuncNames = {"main", "<", "+"}
  Programs <- NestedPrograms
INVARIANTS
  TypeOK
  LookupsSucceed
  BlocksTerminated
  BlocksAreConnected
  StorageDominatesUses
  VerifiedIffClean
