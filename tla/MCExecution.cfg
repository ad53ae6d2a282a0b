\* The code of functions of two levels of nested statements is run.
SPECIFICATION ExecSpec
CONSTANTS
  Null = Null
  VarNames = {"v", "w", "c", "x", "y"}
  FuncNames = {"main", "<", "+"}
  Programs <- RunPrograms
  MaxBlocks = 9
INVARIANTS
  DefinedIsStored
PROPERTIES
  ImplementsSource
  CallsReturn
