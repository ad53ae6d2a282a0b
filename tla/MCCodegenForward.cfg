\* A call of a function that is declared but not defined.
SPECIFICATION Spec
CONSTANTS
  Null = Null
  VarNames = {"c", "v", "w", "x", "y"}
  FuncNames = {"main", "f", "+"}
  Programs <- CallOfForward
INVARIANTS
  LookupsSucceed
