\* A bool function that need not return.
SPECIFICATION Spec
CONSTANTS
  Null = Null
  VarNames = {"c", "v", "w", "x", "y"}
  FuncNames = {"main", "<", "+"}
  Programs <- MissingReturn
INVARIANTS
  ModuleVerifies
