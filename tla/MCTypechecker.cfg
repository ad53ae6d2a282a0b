\* Scoping and overloading: nested sequences, shadowing, declarations as branch
\* statements; several functions, duplicates and builtins.
SPECIFICATION Spec
CONSTANTS
  Null = Null
  VarNames = {"x", "y"}
  FuncNames = {"main", "f", "==", "!"}
  Builtins <- MCBuiltins
  UserDefs <- AllDefs
  StmtKinds <- Kinds
  CallNames <- Calls
  MaxFuncs = 3
  MaxNodes = 12
  MaxArgs = 2
INVARIANTS
  TypeOK
  ScopeChainIsLexical
  LinksAreLexical
  LinksSuffice
  CallsLinkToFirstMatch
PROPERTIES
  VisitRestoresScope
