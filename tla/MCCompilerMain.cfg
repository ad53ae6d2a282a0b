\* The signature of the function that the driver calls.
SPECIFICATION Spec
CONSTANTS
  Null = Null
  Ids = {"main", "f", "x", "y"}
  Nums = {"1"}
  VarNames = {"main", "f", "x", "y"}
  FuncNames = {"main", "f", "x", "y", "+", "-", "*", "/", "%", "==", "!=", "<", "<=", ">", ">=", "&&", "||", "!", "bool", "int"}
  Builtins <- GetBuiltins
  MaxNodes = 100
  Heads <- SomeHeads
  Bodies <- MainBodies
  Seconds <- SomeSeconds
  Source <- SomeSource
INVARIANTS
  MainTakesTheInput
