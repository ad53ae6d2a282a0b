\* Products of the documented grammar.
SPECIFICATION Spec
CONSTANTS
  Null = Null
  Ids = {"f", "x"}
  Nums = {}
  VarNames = {"f", "x"}
  FuncNames = {"f", "x", "+", "-", "*", "/", "%", "==", "!=", "<", "<=", ">", ">=", "&&", "||", "!", "bool", "int"}
  ExpTokens = {}
  StmtTokens = {}
  MaxExp = 0
  MaxStmt = 0
  MaxOps = 0
  Supply <- ProductText
INVARIANTS
  ModIsMulOp
