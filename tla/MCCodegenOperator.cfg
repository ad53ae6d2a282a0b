\* A call of an operator that the program defines.
SPECIFICATION Spec
CONSTANTS
  Null = Null
  VarNames = {"c", "v", "w", "x", "y"}
  FuncNames = {"main", "f", "+"}
  Programs <- CallOfOperator
INVARIANTS
  DefinitionsAreCalled
