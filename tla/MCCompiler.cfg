\* Texts of up to two functions: overloads and duplicates of main, operators,
\* declarations, bodies of the wrong type, and all of these cut short.
SPECIFICATION Spec
CONSTANTS
  Null = Null
  Ids = {"main", "f", "x", "y"}
  Nums = {"1"}
  VarNames = {"main", "f", "x", "y"}
  FuncNames = {"main", "f", "x", "y", "+", "-", "*", "/", "%", "==", "!=", "<", "<=", ">", ">=", "&&", "||", "!", "bool", "int"}
  Builtins <- GetBuiltins
  MaxNodes = 100
  Heads <- SomeHeads
  Bodies <- SomeBodies
  Seconds <- SomeSeconds
  Source <- SomeSource
INVARIANTS
  TypeOK
  BuiltinsAreDeclared
  AbortsIffNotDefined
  VerifiedIffClean
  OperandsAreTyped
  CallsReachTheirDefinitions
PROPERTIES
  Finishes
