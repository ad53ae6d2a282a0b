\* All sequences of tokens of an expression and of a function body, and
\* sentences of the grammar.
SPECIFICATION Spec
CONSTANTS
  Null = Null
  Ids = {"f", "g", "h", "k", "x"}
  Nums = {"1"}
  VarNames = {"f", "g", "h", "k", "x"}
  FuncNames = {"f", "g", "h", "k", "x", "+", "-", "*", "/", "%", "==", "!=", "<", "<=", ">", ">=", "&&", "||", "!", "bool", "int"}
  ExpTokens = {"x", "(", ")", ",", "-", "*", "<", "||", ";", "}"}
  StmtTokens = {"x", "int", "=", ";", "if", "else", "while", "return", "(", ")", "{", "}"}
  MaxExp = 7
  MaxStmt = 9
  MaxOps = 4
  Supply <- SomeText
INVARIANTS
  TypeOK
  TreeIsTheText
  PrecedenceClimbs
  ElseIsNearest
  StopsAtEnd
  DumpIsTheText
  SentencesAreParsed
PROPERTIES
  Terminates
