--------------------------- MODULE CompilerProofs ---------------------------
(***************************************************************************)
(* Proofs about Compiler, for every text and every set of builtins: the    *)
(* passes hand on to each other what they rely on.  The typechecker keeps  *)
(* its invariants on whatever tree the parser has built, so that the links *)
(* of a program that typechecks suffice for the code generator, which then *)
(* fails only where a definition is missing.                               *)
(***************************************************************************)
EXTENDS Compiler, TLAPS

\* The passes, with what has been proved about each of them.
PBP == INSTANCE ParserProofs WITH status <- parsed, Supply <- BuiltinSource
PP  == INSTANCE ParserProofs WITH status <- parsed, Supply <- Source
TCP == INSTANCE TypecheckerProofs WITH frames <- visits, status <- checked,
         Builtins <- <<>>, UserDefs <- {}, StmtKinds <- AnyStmt, CallNames <- NoCall,
         MaxFuncs <- 0, MaxArgs <- MaxNodes
CGP == INSTANCE VerifierProofs WITH Programs <- {}, status <- generated

-----------------------------------------------------------------------------
(* The assumptions of the passes hold of the constants that they are given. *)

LEMMA ParserAssumptions ==
  /\ PP!NullNotADecl
  /\ Ids \cap (Nums \cup PP!Keywords \cup PP!Operators \cup PP!Punctuation \cup {PP!EOF}) = {}
  /\ Nums \cap (PP!Keywords \cup PP!Operators \cup PP!Punctuation \cup {PP!EOF}) = {}
  /\ Ids \subseteq VarNames \cap FuncNames
  /\ PP!OperatorNames \subseteq FuncNames
<1>1. PP!NullNotADecl
  BY NullAssumption DEF NullNotADecl, PP!NullNotADecl, VarDecls, PP!VarDecls, FuncDefs,
     PP!FuncDefs, Params, PP!Params, Types, PP!Types
<1>2. /\ PP!Keywords = Keywords /\ PP!Operators = Operators /\ PP!Punctuation = Punctuation
      /\ PP!EOF = EOF /\ PP!OperatorNames = OperatorNames
  BY DEF Keywords, PP!Keywords, Operators, PP!Operators, Punctuation, PP!Punctuation, EOF, PP!EOF,
         OperatorNames, PP!OperatorNames, InfixOps, PP!InfixOps
<1>. QED  BY <1>1, <1>2, TokensAssumption

LEMMA BuiltinParserAssumptions ==
  /\ PBP!NullNotADecl
  /\ Ids \cap (Nums \cup PBP!Keywords \cup PBP!Operators \cup PBP!Punctuation \cup {PBP!EOF}) = {}
  /\ Nums \cap (PBP!Keywords \cup PBP!Operators \cup PBP!Punctuation \cup {PBP!EOF}) = {}
  /\ Ids \subseteq VarNames \cap FuncNames
  /\ PBP!OperatorNames \subseteq FuncNames
<1>1. PBP!NullNotADecl
  BY NullAssumption DEF NullNotADecl, PBP!NullNotADecl, VarDecls, PBP!VarDecls, FuncDefs,
     PBP!FuncDefs, Params, PBP!Params, Types, PBP!Types
<1>2. /\ PBP!Keywords = Keywords /\ PBP!Operators = Operators /\ PBP!Punctuation = Punctuation
      /\ PBP!EOF = EOF /\ PBP!OperatorNames = OperatorNames
  BY DEF Keywords, PBP!Keywords, Operators, PBP!Operators, Punctuation, PBP!Punctuation, EOF, PBP!EOF,
         OperatorNames, PBP!OperatorNames, InfixOps, PBP!InfixOps
<1>. QED  BY <1>1, <1>2, TokensAssumption

LEMMA CheckerAssumptions ==
  /\ TCP!NullNotADecl
  /\ <<>> \in Seq(TCP!FuncDefs) /\ {} \subseteq TCP!FuncDefs
  /\ 0 \in Nat /\ MaxNodes \in Nat
<1>1. TCP!NullNotADecl
  BY NullAssumption DEF NullNotADecl, TCP!NullNotADecl, VarDecls, TCP!VarDecls, FuncDefs,
     TCP!FuncDefs, Params, TCP!Params, Types, TCP!Types
<1>. QED  BY <1>1, CompilerAssumption

LEMMA CoderAssumptions == CGP!NullNotADecl /\ {} \subseteq Seq(CGP!Nodes)
  BY NullAssumption DEF NullNotADecl, CGP!NullNotADecl, VarDecls, CGP!VarDecls, FuncDefs,
     CGP!FuncDefs, Params, CGP!Params, Types, CGP!Types

(* What a pass means by a name is what the compiler means by it: the       *)
(* operators of the modules are the same, whatever the variables are       *)
(* called.                                                                 *)
LEMMA SameParser ==
  P!Next <=> PP!Next
  BY ZenonT(60) DEF P!Args, PP!Args, P!AssignOrCall, PP!AssignOrCall, P!Body, PP!Body,
    P!CallNode, PP!CallNode, P!Condition, PP!Condition, P!Do, PP!Do, P!Doing, PP!Doing,
    P!EOF, PP!EOF, P!Else, PP!Else, P!Emit, PP!Emit, P!EmitNode, PP!EmitNode, P!End, PP!End,
    P!Exp, PP!Exp, P!FuncId, PP!FuncId, P!Go, PP!Go, P!InfixOps, PP!InfixOps, P!IsOperator,
    PP!IsOperator, P!Keywords, PP!Keywords, P!Last, PP!Last, P!Local, PP!Local, P!Mark,
    PP!Mark, P!MoreArgs, PP!MoreArgs, P!Next, PP!Next, P!NextFuncDef, PP!NextFuncDef,
    P!OperatorId, PP!OperatorId, P!OperatorNames, PP!OperatorNames, P!Operators,
    PP!Operators, P!ParamList, PP!ParamList, P!ParseArgs, PP!ParseArgs, P!ParseAssignOrCall,
    PP!ParseAssignOrCall, P!ParseBody, PP!ParseBody, P!ParseElse, PP!ParseElse,
    P!ParseError, PP!ParseError, P!ParseExpression, PP!ParseExpression, P!ParseFuncDef,
    PP!ParseFuncDef, P!ParseFuncId, PP!ParseFuncId, P!ParseFunction, PP!ParseFunction,
    P!ParseLocal, PP!ParseLocal, P!ParseMoreArgs, PP!ParseMoreArgs, P!ParseOperatorId,
    PP!ParseOperatorId, P!ParseParams, PP!ParseParams, P!ParsePrimary, PP!ParsePrimary,
    P!ParseRemaining, PP!ParseRemaining, P!ParseRightOf, PP!ParseRightOf, P!ParseSeq,
    PP!ParseSeq, P!ParseStatement, PP!ParseStatement, P!ParseStmt, PP!ParseStmt,
    P!ParseStmts, PP!ParseStmts, P!ParseUnaryOp, PP!ParseUnaryOp, P!ParseVarDecl,
    PP!ParseVarDecl, P!ParseVarId, PP!ParseVarId, P!ParseVarOrCall, PP!ParseVarOrCall,
    P!Precedence, PP!Precedence, P!Primary, PP!Primary, P!Program, PP!Program,
    P!Punctuation, PP!Punctuation, P!Remaining, PP!Remaining, P!RightOf, PP!RightOf,
    P!Signature, PP!Signature, P!Skip, PP!Skip, P!SkipToken, PP!SkipToken, P!Take, PP!Take,
    P!TakeError, PP!TakeError, P!Tokens, PP!Tokens, P!Types, PP!Types, P!VarDecl,
    PP!VarDecl, P!VarId, PP!VarId, P!VarOrCall, PP!VarOrCall

LEMMA SameBuiltinParser ==
  PB!Next <=> PBP!Next
  BY ZenonT(60) DEF PB!Args, PBP!Args, PB!AssignOrCall, PBP!AssignOrCall, PB!Body, PBP!Body,
    PB!CallNode, PBP!CallNode, PB!Condition, PBP!Condition, PB!Do, PBP!Do, PB!Doing,
    PBP!Doing, PB!EOF, PBP!EOF, PB!Else, PBP!Else, PB!Emit, PBP!Emit, PB!EmitNode,
    PBP!EmitNode, PB!End, PBP!End, PB!Exp, PBP!Exp, PB!FuncId, PBP!FuncId, PB!Go, PBP!Go,
    PB!InfixOps, PBP!InfixOps, PB!IsOperator, PBP!IsOperator, PB!Keywords, PBP!Keywords,
    PB!Last, PBP!Last, PB!Local, PBP!Local, PB!Mark, PBP!Mark, PB!MoreArgs, PBP!MoreArgs,
    PB!Next, PBP!Next, PB!NextFuncDef, PBP!NextFuncDef, PB!OperatorId, PBP!OperatorId,
    PB!OperatorNames, PBP!OperatorNames, PB!Operators, PBP!Operators, PB!ParamList,
    PBP!ParamList, PB!ParseArgs, PBP!ParseArgs, PB!ParseAssignOrCall, PBP!ParseAssignOrCall,
    PB!ParseBody, PBP!ParseBody, PB!ParseElse, PBP!ParseElse, PB!ParseError, PBP!ParseError,
    PB!ParseExpression, PBP!ParseExpression, PB!ParseFuncDef, PBP!ParseFuncDef,
    PB!ParseFuncId, PBP!ParseFuncId, PB!ParseFunction, PBP!ParseFunction, PB!ParseLocal,
    PBP!ParseLocal, PB!ParseMoreArgs, PBP!ParseMoreArgs, PB!ParseOperatorId,
    PBP!ParseOperatorId, PB!ParseParams, PBP!ParseParams, PB!ParsePrimary, PBP!ParsePrimary,
    PB!ParseRemaining, PBP!ParseRemaining, PB!ParseRightOf, PBP!ParseRightOf, PB!ParseSeq,
    PBP!ParseSeq, PB!ParseStatement, PBP!ParseStatement, PB!ParseStmt, PBP!ParseStmt,
    PB!ParseStmts, PBP!ParseStmts, PB!ParseUnaryOp, PBP!ParseUnaryOp, PB!ParseVarDecl,
    PBP!ParseVarDecl, PB!ParseVarId, PBP!ParseVarId, PB!ParseVarOrCall, PBP!ParseVarOrCall,
    PB!Precedence, PBP!Precedence, PB!Primary, PBP!Primary, PB!Program, PBP!Program,
    PB!Punctuation, PBP!Punctuation, PB!Remaining, PBP!Remaining, PB!RightOf, PBP!RightOf,
    PB!Signature, PBP!Signature, PB!Skip, PBP!Skip, PB!SkipToken, PBP!SkipToken, PB!Take,
    PBP!Take, PB!TakeError, PBP!TakeError, PB!Tokens, PBP!Tokens, PB!Types, PBP!Types,
    PB!VarDecl, PBP!VarDecl, PB!VarId, PBP!VarId, PB!VarOrCall, PBP!VarOrCall

LEMMA SameParserInv ==
  PBP!IInv <=> PP!IInv
  BY ZenonT(60) DEF PBP!AfterMinus, PP!AfterMinus, PBP!Args, PP!Args, PBP!AssignOrCall,
    PP!AssignOrCall, PBP!Base, PP!Base, PBP!Body, PP!Body, PBP!EOF, PP!EOF, PBP!Else,
    PP!Else, PBP!ElsesHaveIf, PP!ElsesHaveIf, PBP!Emit, PP!Emit, PBP!Forms, PP!Forms,
    PBP!FuncDefs, PP!FuncDefs, PBP!FuncId, PP!FuncId, PBP!Goals, PP!Goals, PBP!HasIf,
    PP!HasIf, PBP!IInv, PP!IInv, PBP!InfixOps, PP!InfixOps, PBP!Keywords, PP!Keywords,
    PBP!Local, PP!Local, PBP!Marks, PP!Marks, PBP!MoreArgs, PP!MoreArgs, PBP!OperatorId,
    PP!OperatorId, PBP!Operators, PP!Operators, PBP!Owners, PP!Owners, PBP!ParamList,
    PP!ParamList, PBP!Params, PP!Params, PBP!Precedences, PP!Precedences, PBP!Primary,
    PP!Primary, PBP!Program, PP!Program, PBP!Punctuation, PP!Punctuation, PBP!Remaining,
    PP!Remaining, PBP!RightOf, PP!RightOf, PBP!Skip, PP!Skip, PBP!StopsAtEnd, PP!StopsAtEnd,
    PBP!Tokens, PP!Tokens, PBP!TreeNodes, PP!TreeNodes, PBP!TypeOK, PP!TypeOK, PBP!Types,
    PP!Types, PBP!VarDecl, PP!VarDecl, PBP!VarId, PP!VarId, PBP!VarOrCall, PP!VarOrCall

LEMMA SameOpened ==
  P!Opened <=> PP!Opened
  BY ZenonT(60) DEF P!Do, PP!Do, P!EOF, PP!EOF, P!InfixOps, PP!InfixOps, P!Keywords,
    PP!Keywords, P!Opened, PP!Opened, P!Operators, PP!Operators, P!Program, PP!Program,
    P!Punctuation, PP!Punctuation, P!Tokens, PP!Tokens

LEMMA SameStmts ==
  TC!VisitStmt <=> TCP!VisitStmt
  BY ZenonT(60) DEF TC!After, TCP!After, TC!At, TCP!At, TC!Declares, TCP!Declares, TC!Enter,
    TCP!Enter, TC!Last, TCP!Last, TC!LocalDecl, TCP!LocalDecl, TC!Mark, TCP!Mark,
    TC!MayVisit, TCP!MayVisit, TC!More, TCP!More, TC!NewFrame, TCP!NewFrame, TC!Resume,
    TCP!Resume, TC!StmtPoints, TCP!StmtPoints, TC!TypeError, TCP!TypeError, TC!Types,
    TCP!Types, TC!VisitAssign, TCP!VisitAssign, TC!VisitCallStmt, TCP!VisitCallStmt,
    TC!VisitDecl, TCP!VisitDecl, TC!VisitExpOf, TCP!VisitExpOf, TC!VisitIf, TCP!VisitIf,
    TC!VisitReturn, TCP!VisitReturn, TC!VisitSeq, TCP!VisitSeq, TC!VisitStmt, TCP!VisitStmt,
    TC!VisitWhile, TCP!VisitWhile

LEMMA SameEnds ==
  TC!EndVisit <=> TCP!EndVisit
  BY ZenonT(60) DEF TC!At, TCP!At, TC!Declares, TCP!Declares, TC!EndAssign, TCP!EndAssign,
    TC!EndCallStmt, TCP!EndCallStmt, TC!EndDeclInit, TCP!EndDeclInit, TC!EndExp, TCP!EndExp,
    TC!EndFunction, TCP!EndFunction, TC!EndIf, TCP!EndIf, TC!EndIfCond, TCP!EndIfCond,
    TC!EndReturn, TCP!EndReturn, TC!EndSeq, TCP!EndSeq, TC!EndStmt, TCP!EndStmt,
    TC!EndVisit, TCP!EndVisit, TC!EndWhile, TCP!EndWhile, TC!EndWhileCond, TCP!EndWhileCond,
    TC!ExpDone, TCP!ExpDone, TC!Find, TCP!Find, TC!Front, TCP!Front, TC!InfixOps,
    TCP!InfixOps, TC!IsStmtCall, TCP!IsStmtCall, TC!Last, TCP!Last, TC!Mark, TCP!Mark,
    TC!Max, TCP!Max, TC!OperatorNames, TCP!OperatorNames, TC!SelectLastInSeq,
    TCP!SelectLastInSeq, TC!SetPc, TCP!SetPc, TC!TypeError, TCP!TypeError, TC!Visible,
    TCP!Visible, TC!VisitElse, TCP!VisitElse

LEMMA SameFunctions ==
  \A def : TC!CheckFunction(def) <=> TCP!CheckFunction(def)
  BY ZenonT(60) DEF TC!CheckFunction, TCP!CheckFunction, TC!ParamDecls, TCP!ParamDecls,
    TC!SameNameParams, TCP!SameNameParams, TC!TypeError, TCP!TypeError

LEMMA SameConsts ==
  \A t : TC!VisitConst(t) <=> TCP!VisitConst(t)
  BY ZenonT(60) DEF TC!At, TCP!At, TC!ExpPoints, TCP!ExpPoints, TC!Last, TCP!Last,
    TC!MayPush, TCP!MayPush, TC!More, TCP!More, TC!VisitConst, TCP!VisitConst

LEMMA SameVars ==
  \A x : TC!VisitVarExp(x) <=> TCP!VisitVarExp(x)
  BY ZenonT(60) DEF TC!At, TCP!At, TC!Declares, TCP!Declares, TC!ExpPoints, TCP!ExpPoints,
    TC!Find, TCP!Find, TC!Last, TCP!Last, TC!Max, TCP!Max, TC!MayPush, TCP!MayPush, TC!More,
    TCP!More, TC!SelectLastInSeq, TCP!SelectLastInSeq, TC!TypeError, TCP!TypeError,
    TC!Visible, TCP!Visible, TC!VisitVarExp, TCP!VisitVarExp

LEMMA SameCalls ==
  \A name, n : TC!VisitCallExp(name, n) <=> TCP!VisitCallExp(name, n)
  BY ZenonT(60) DEF TC!At, TCP!At, TC!Callable, TCP!Callable, TC!ExpPoints, TCP!ExpPoints,
    TC!FindFunc, TCP!FindFunc, TC!InfixOps, TCP!InfixOps, TC!IsStmtCall, TCP!IsStmtCall,
    TC!Last, TCP!Last, TC!MayCall, TCP!MayCall, TC!MayPush, TCP!MayPush, TC!Min, TCP!Min,
    TC!More, TCP!More, TC!OperatorNames, TCP!OperatorNames, TC!ParamTypes, TCP!ParamTypes,
    TC!SelectInSeq, TCP!SelectInSeq, TC!TypeError, TCP!TypeError, TC!VisitCallExp,
    TCP!VisitCallExp

LEMMA SameGenerator ==
  CG!Next <=> CGP!Next
  BY ZenonT(60) DEF CG!Abort, CGP!Abort, CG!Access, CGP!Access, CG!After, CGP!After,
    CG!Arith, CGP!Arith, CG!At, CGP!At, CG!BeginFunction, CGP!BeginFunction,
    CG!BranchUnlessTerminated, CGP!BranchUnlessTerminated, CG!BuiltinInstr,
    CGP!BuiltinInstr, CG!BuiltinType, CGP!BuiltinType, CG!Call, CGP!Call, CG!Compare,
    CGP!Compare, CG!CondBranch, CGP!CondBranch, CG!ConvertType, CGP!ConvertType,
    CG!EndAssign, CGP!EndAssign, CG!EndCallStmt, CGP!EndCallStmt, CG!EndDeclInit,
    CGP!EndDeclInit, CG!EndExp, CGP!EndExp, CG!EndFunction, CGP!EndFunction, CG!EndIf,
    CGP!EndIf, CG!EndIfCond, CGP!EndIfCond, CG!EndReturn, CGP!EndReturn, CG!EndSeq,
    CGP!EndSeq, CG!EndStmtExp, CGP!EndStmtExp, CG!EndVisit, CGP!EndVisit, CG!EndWhile,
    CGP!EndWhile, CG!EndWhileCond, CGP!EndWhileCond, CG!Enter, CGP!Enter, CG!ExpPoints,
    CGP!ExpPoints, CG!ExpType, CGP!ExpType, CG!Finish, CGP!Finish, CG!Front, CGP!Front,
    CG!Generate, CGP!Generate, CG!HasTerminator, CGP!HasTerminator, CG!InfixOps,
    CGP!InfixOps, CG!Instr, CGP!Instr, CG!Jump, CGP!Jump, CG!Last, CGP!Last, CG!LocalDecl,
    CGP!LocalDecl, CG!MinArgs, CGP!MinArgs, CG!NewFrame, CGP!NewFrame, CG!Next, CGP!Next,
    CG!NextExp, CGP!NextExp, CG!NextStmt, CGP!NextStmt, CG!OperatorNames, CGP!OperatorNames,
    CG!ParamDecls, CGP!ParamDecls, CG!Put, CGP!Put, CG!Reading, CGP!Reading, CG!Resume,
    CGP!Resume, CG!SetPc, CGP!SetPc, CG!StmtPoints, CGP!StmtPoints, CG!Terminators,
    CGP!Terminators, CG!VisitAssign, CGP!VisitAssign, CG!VisitCallExp, CGP!VisitCallExp,
    CG!VisitCallStmt, CGP!VisitCallStmt, CG!VisitConst, CGP!VisitConst, CG!VisitDecl,
    CGP!VisitDecl, CG!VisitElse, CGP!VisitElse, CG!VisitExp, CGP!VisitExp, CG!VisitExpOf,
    CGP!VisitExpOf, CG!VisitIf, CGP!VisitIf, CG!VisitReturn, CGP!VisitReturn, CG!VisitSeq,
    CGP!VisitSeq, CG!VisitStmt, CGP!VisitStmt, CG!VisitVarExp, CGP!VisitVarExp,
    CG!VisitWhile, CGP!VisitWhile

LEMMA SameNodes ==
  TCP!Nodes = CGP!Nodes
  BY ZenonT(60) DEF TCP!FuncDefs, CGP!FuncDefs, TCP!Marks, CGP!Marks, TCP!Nodes, CGP!Nodes,
    TCP!Params, CGP!Params, TCP!Types, CGP!Types, TCP!VarDecls, CGP!VarDecls

LEMMA SameLinks ==
  TCP!WellLinked(syntax) <=> CGP!WellLinked(syntax)
  BY ZenonT(60) DEF TCP!DeclaredBefore, CGP!DeclaredBefore, TCP!InFunction, CGP!InFunction,
    TCP!LocalDecl, CGP!LocalDecl, TCP!ParamDecls, CGP!ParamDecls, TCP!WellLinked,
    CGP!WellLinked

LEMMA SameCallCounts ==
  /\ CG!NoUserOperators => CGP!NoUserOperators
  /\ CGP!DefinitionsAreCalled => CG!DefinitionsAreCalled
  BY ZenonT(60) DEF CG!NoUserOperators, CGP!NoUserOperators, CG!OperatorNames, CGP!OperatorNames,
    CG!InfixOps, CGP!InfixOps, CG!DefinitionsAreCalled, CGP!DefinitionsAreCalled,
    CG!CallsOf, CGP!CallsOf, CG!Refers, CGP!Refers, CG!Cardinality, CGP!Cardinality

LEMMA SameTypings ==
  \A st : TCP!Typing(syntax, st) <=> CGP!Typing(syntax, st)
  BY ZenonT(60) DEF TCP!ExpNodes, CGP!ExpNodes, TCP!ExpType, CGP!ExpType, TCP!Expected,
    CGP!Expected, TCP!HasExp, CGP!HasExp, TCP!InFunction, CGP!InFunction, TCP!InfixOps,
    CGP!InfixOps, TCP!IsStmtCall, CGP!IsStmtCall, TCP!OperatorNames, CGP!OperatorNames,
    TCP!ParamTypes, CGP!ParamTypes, TCP!TypeStep, CGP!TypeStep, TCP!Types, CGP!Types,
    TCP!Typing, CGP!Typing, TCP!WaitsAt, CGP!WaitsAt

LEMMA SameOperands ==
  CGP!OperandsAreTyped <=> CG!OperandsAreTyped
  BY ZenonT(60) DEF CGP!BB, CG!BB, CGP!Builtin, CG!Builtin, CGP!Call, CG!Call,
    CGP!ConvertType, CG!ConvertType, CGP!ConvertTypes, CG!ConvertTypes, CGP!GetBuiltins,
    CG!GetBuiltins, CGP!II, CG!II, CGP!InfixOps, CG!InfixOps, CGP!Instr, CG!Instr,
    CGP!OperandsAreTyped, CG!OperandsAreTyped, CGP!OperatorCallsAreBuiltin,
    CG!OperatorCallsAreBuiltin, CGP!OperatorNames, CG!OperatorNames, CGP!ParamTypes,
    CG!ParamTypes, CGP!WellTyped, CG!WellTyped

LEMMA SameVerifier ==
  /\ CGP!VerifiedIffClean <=> CG!VerifiedIffClean
  /\ CGP!ModuleVerifies <=> CG!ModuleVerifies
  BY ZenonT(60) DEF CGP!BB, CG!BB, CGP!Builtin, CG!Builtin, CGP!Clean, CG!Clean,
    CGP!ConvertType, CG!ConvertType, CGP!ConvertTypes, CG!ConvertTypes, CGP!Follower,
    CG!Follower, CGP!Followers, CG!Followers, CGP!Following, CG!Following,
    CGP!FunctionEnd, CG!FunctionEnd, CGP!GetBuiltins, CG!GetBuiltins, CGP!HasTerminator,
    CG!HasTerminator, CGP!II, CG!II, CGP!Inert, CG!Inert, CGP!InfixOps, CG!InfixOps,
    CGP!Min, CG!Min, CGP!ModuleVerifies, CG!ModuleVerifies, CGP!OperatorCallsAreBuiltin,
    CG!OperatorCallsAreBuiltin, CGP!OperatorNames, CG!OperatorNames, CGP!ParamTypes,
    CG!ParamTypes, CGP!Passes, CG!Passes, CGP!ReturnsIn, CG!ReturnsIn, CGP!SelectInSubSeq,
    CG!SelectInSubSeq, CGP!Terminators, CG!Terminators, CGP!TerminatorsEnd,
    CG!TerminatorsEnd, CGP!Verified, CG!Verified, CGP!VerifiedIffClean,
    CG!VerifiedIffClean, CGP!WellTyped, CG!WellTyped

LEMMA SameConnections ==
  CGP!BlocksAreConnected <=> CG!BlocksAreConnected
<1>0. \A S : CGP!Cardinality(S) = CG!Cardinality(S)
  BY ZenonT(60) DEF CGP!Cardinality, CG!Cardinality
<1>1. \A k : CGP!Follower(k) = CG!Follower(k)
  BY ZenonT(60) DEF CGP!Follower, CG!Follower, CGP!Following, CG!Following, CGP!Inert,
    CG!Inert, CGP!Min, CG!Min, CGP!SelectInSubSeq, CG!SelectInSubSeq
<1>2. \A d : CGP!ReturnsIn(d) = CG!ReturnsIn(d)
  BY ZenonT(60) DEF CGP!Following, CG!Following, CGP!FunctionEnd, CG!FunctionEnd, CGP!Min,
    CG!Min, CGP!ReturnsIn, CG!ReturnsIn, CGP!SelectInSubSeq, CG!SelectInSubSeq
<1>3. \A d : CGP!Followers(d) = CG!Followers(d)
  BY <1>1, <1>2, ZenonT(60) DEF CGP!Followers, CG!Followers
<1>4. \A j, e : CGP!ElseOf(j, e) <=> CG!ElseOf(j, e)
  BY <1>0 DEF CGP!ElseOf, CG!ElseOf, CGP!Ifs, CG!Ifs
<1>5. \A d : CGP!ReturningIfs(d) = CG!ReturningIfs(d)
  BY <1>3, <1>4 DEF CGP!ReturningIfs, CG!ReturningIfs
<1>6. \A s : CGP!Range(s) = CG!Range(s)
  BY ZenonT(60) DEF CGP!Range, CG!Range
<1>. DEFINE T(bs) == UNION {UNION {CG!Range(bs[b][i].to) : i \in DOMAIN bs[b]} : b \in DOMAIN bs}
            U(bs) == UNION {UNION {CGP!Range(bs[b][i].to) : i \in DOMAIN bs[b]} : b \in DOMAIN bs}
<1>7. \A bs : U(bs) = T(bs)
  BY <1>6
<1>8. CG!BlocksAreConnected <=>
        \A f \in DOMAIN module :
          LET bs == module[f].blocks
          IN  /\ T(bs) \subseteq 2 .. Len(bs)
              /\ Len(bs) - CG!Cardinality(T(bs)) = 1 + CG!Cardinality(CG!ReturningIfs(module[f].def))
  BY DEF CG!BlocksAreConnected
<1>9. CGP!BlocksAreConnected <=>
        \A f \in DOMAIN module :
          LET bs == module[f].blocks
          IN  /\ U(bs) \subseteq 2 .. Len(bs)
              /\ Len(bs) - CGP!Cardinality(U(bs)) = 1 + CGP!Cardinality(CGP!ReturningIfs(module[f].def))
  BY DEF CGP!BlocksAreConnected
<1>. HIDE DEF T, U
<1>. QED  BY <1>0, <1>5, <1>7, <1>8, <1>9

LEMMA SameStart ==
  CG!Start <=> CGP!Start
  BY ZenonT(60) DEF CG!Start, CGP!Start

LEMMA SameParserTypes ==
  PP!TypeOK => P!TypeOK
  BY ZenonT(60) DEF PP!Args, P!Args, PP!AssignOrCall, P!AssignOrCall, PP!Body, P!Body,
    PP!EOF, P!EOF, PP!Else, P!Else, PP!Emit, P!Emit, PP!Forms, P!Forms, PP!FuncDefs,
    P!FuncDefs, PP!FuncId, P!FuncId, PP!Goals, P!Goals, PP!InfixOps, P!InfixOps,
    PP!Keywords, P!Keywords, PP!Local, P!Local, PP!Marks, P!Marks, PP!MoreArgs, P!MoreArgs,
    PP!OperatorId, P!OperatorId, PP!Operators, P!Operators, PP!Owners, P!Owners,
    PP!ParamList, P!ParamList, PP!Params, P!Params, PP!Precedences, P!Precedences,
    PP!Primary, P!Primary, PP!Program, P!Program, PP!Punctuation, P!Punctuation,
    PP!Remaining, P!Remaining, PP!RightOf, P!RightOf, PP!Skip, P!Skip, PP!Tokens, P!Tokens,
    PP!TreeNodes, P!TreeNodes, PP!TypeOK, P!TypeOK, PP!Types, P!Types, PP!VarDecl,
    P!VarDecl, PP!VarId, P!VarId, PP!VarOrCall, P!VarOrCall

LEMMA SameCheckerTypes ==
  TCP!TypeOK => TC!TypeOK
  BY ZenonT(60) DEF TCP!At, TC!At, TCP!ControlPoints, TC!ControlPoints, TCP!EndExp,
    TC!EndExp, TCP!EndIf, TC!EndIf, TCP!EndPoints, TC!EndPoints, TCP!EndSeq, TC!EndSeq,
    TCP!EndStmt, TC!EndStmt, TCP!EndWhile, TC!EndWhile, TCP!ExpPoints, TC!ExpPoints,
    TCP!Frames, TC!Frames, TCP!Front, TC!Front, TCP!FuncDefs, TC!FuncDefs, TCP!Last,
    TC!Last, TCP!Mark, TC!Mark, TCP!Marks, TC!Marks, TCP!Nodes, TC!Nodes, TCP!Params,
    TC!Params, TCP!Scopes, TC!Scopes, TCP!StmtPoints, TC!StmtPoints, TCP!TypeOK, TC!TypeOK,
    TCP!Types, TC!Types, TCP!VarDecls, TC!VarDecls

LEMMA SameGeneratorTypes ==
  CGP!TypeOK => CG!TypeOK
  BY ZenonT(60) DEF CGP!At, CG!At, CGP!Blocks, CG!Blocks, CGP!BranchUnlessTerminated,
    CG!BranchUnlessTerminated, CGP!Call, CG!Call, CGP!ControlPoints, CG!ControlPoints,
    CGP!EndExp, CG!EndExp, CGP!EndIf, CG!EndIf, CGP!EndPoints, CG!EndPoints, CGP!EndSeq,
    CG!EndSeq, CGP!EndVisit, CG!EndVisit, CGP!EndWhile, CG!EndWhile, CGP!ExpPoints,
    CG!ExpPoints, CGP!Frames, CG!Frames, CGP!Front, CG!Front, CGP!FuncDefs, CG!FuncDefs,
    CGP!HasTerminator, CG!HasTerminator, CGP!IRTypes, CG!IRTypes, CGP!Instr, CG!Instr,
    CGP!Instrs, CG!Instrs, CGP!Jump, CG!Jump, CGP!Last, CG!Last, CGP!Marks, CG!Marks,
    CGP!Nodes, CG!Nodes, CGP!Opcodes, CG!Opcodes, CGP!Params, CG!Params, CGP!Put, CG!Put,
    CGP!Reading, CG!Reading, CGP!StmtPoints, CG!StmtPoints, CGP!Terminators, CG!Terminators,
    CGP!TypeOK, CG!TypeOK, CGP!Types, CG!Types, CGP!VarDecls, CG!VarDecls
-----------------------------------------------------------------------------
(* The invariant                                                           *)

\* What has been proved of each pass holds in every phase.
CheckerInv == TCP!IInv /\ TCP!LexInv /\ TCP!OkAtEnd /\ TCP!AssignsLocal(syntax)
                /\ TCP!TypingInv
CoderInv   == CGP!IInv /\ CGP!LookupInv /\ CGP!CallsOK /\ CGP!CallsInv /\ CGP!OperandInv
                /\ CGP!VerifierInv /\ CGP!NestedCode

\* No code is generated before a program has been accepted.
BeforeCode == {"start", "parseBuiltins", "checkBuiltins", "parse", "typecheck"}

\* ... and the module is complete when it is verified, and after that.
AfterCode == {"verify", "construct", "addModule", "findSymbol", "callMain"}

\* ... and the verifier has accepted it before it is optimized and run.
AfterVerify == {"construct", "addModule", "findSymbol", "callMain"}

PhasesOK ==
  /\ phase \in Phases /\ exit \in {Null, "0", "-1"} /\ jit \in BOOLEAN
  /\ phase \in BeforeCode => CG!Start
  /\ phase \in {"parse", "codegen"} => checked = "ok"
  /\ phase \in AfterCode => generated = "done"
  /\ phase \in AfterVerify => CG!ModuleVerifies

IInv ==
  /\ PhasesOK
  /\ PP!IInv
  /\ CheckerInv
  /\ CG!Start \/ (checked = "ok" /\ CoderInv)

-----------------------------------------------------------------------------
(* The passes keep their invariants                                        *)

LEMMA ParserKeeps ==
  ASSUME PP!IInv, PB!Next \/ P!Next \/ P!Opened \/ UNCHANGED parserVars
  PROVE  PP!IInv'
<1>1. CASE P!Next
  BY <1>1, SameParser, PP!StepInv, ParserAssumptions
<1>2. CASE PB!Next
  <2>1. PBP!IInv
    BY SameParserInv
  <2>2. PBP!IInv'
    BY <1>2, <2>1, SameBuiltinParser, PBP!StepInv,
           BuiltinParserAssumptions
  <2>. QED  BY <2>2, SameParserInv, PTL
<1>3. CASE P!Opened
  BY <1>3, SameOpened, PP!OpenedInv, ParserAssumptions
<1>4. CASE UNCHANGED parserVars
  BY <1>4, PP!StepInv, ParserAssumptions DEF parserVars, PP!vars
<1>. QED  BY <1>1, <1>2, <1>3, <1>4

(* The other passes leave the typechecker's state alone.                   *)
LEMMA CheckerKeeps ==
  ASSUME CheckerInv, TCP!AnyNext
  PROVE  CheckerInv'
BY CheckerAssumptions, TCP!Inductive, TCP!NextLex, TCP!OkIsLast, TCP!AssignsStay,
     TCP!NextTyping DEF CheckerInv

LEMMA CheckerUnchanged ==
  ASSUME CheckerInv, UNCHANGED tcVars
  PROVE  CheckerInv'
BY CheckerKeeps DEF tcVars, TCP!AnyNext, TCP!vars

LEMMA CoderStarts ==
  ASSUME CheckerInv, CG!Start
  PROVE  CoderInv
<1>1. syntax \in Seq(CGP!Nodes)
  BY SameNodes DEF CheckerInv, TCP!IInv, TCP!TypeOK
<1>. QED  BY <1>1, SameStart, CGP!StartInv, CGP!StartLookup, CGP!StartCalls, CGP!StartCount,
             CGP!StartOperand, CGP!StartVerifier, CGP!StartNesting, CoderAssumptions
          DEF CoderInv

LEMMA CoderKeeps ==
  ASSUME CoderInv, CG!Next \/ UNCHANGED <<syntax, cgVars>>
  PROVE  CoderInv'
<1>1. CGP!Next \/ UNCHANGED CGP!vars
  BY SameGenerator DEF cgVars, CGP!vars, CGP!genVars
<1>2. CGP!TypeInv
  BY DEF CoderInv, CGP!IInv
<1>. QED  BY <1>1, <1>2, CGP!StepInv, CGP!NextLookup, CGP!CallsNext, CGP!NextCount,
             CGP!NextOperand, CGP!NextVerifier, CGP!NextNesting, CoderAssumptions
          DEF CoderInv

-----------------------------------------------------------------------------
(* What the typechecker visits                                             *)

(* Whatever the node that the parser has built, the typechecker makes one  *)
(* of its steps: a call of something that is no function is an error.      *)
LEMMA VisitIsAny ==
  ASSUME TCP!IInv, NEW node \in P!TreeNodes, node.n # "Paren", VisitNode(node)
  PROVE  TCP!AnyNext
<1>1. CASE node.n = "Func"
  <2>1. node.def \in TCP!FuncDefs
    BY <1>1 DEF P!TreeNodes, P!Marks, P!FuncDefs, P!Params, P!Types,
                TCP!FuncDefs, TCP!Params, TCP!Types
  <2>. QED  BY <1>1, <2>1, SameFunctions DEF VisitNode, TCP!AnyNext
<1>2. CASE node.n = "Const"
  <2>1. ConstType(node.text) \in TCP!Types
    BY DEF ConstType, TCP!Types
  <2>. QED  BY <1>2, <2>1, SameConsts DEF VisitNode, TCP!AnyNext
<1>3. CASE node.n = "Var"
  <2>1. node.name \in VarNames
    BY <1>3 DEF P!TreeNodes, P!Marks
  <2>. QED  BY <1>3, <2>1, SameVars DEF VisitNode, TCP!AnyNext
<1>4. CASE node.n = "Call"
  <2>1. node.args \in Nat
    BY <1>4 DEF P!TreeNodes, P!Marks
  <2>2. TCP!VisitCallExp(node.name, node.args)
    BY <1>4, SameCalls DEF VisitNode
  <2>. QED  BY <2>1, <2>2, TCP!CallOfOther, CheckerAssumptions DEF TCP!AnyNext
<1>5. CASE node.n \in {"CallStmt", "Return", "While", "Seq", "Assign", "If", "Decl"}
  <2>1. /\ node.n = "Assign" => node.name \in VarNames
        /\ node.n = "If" => node.else \in BOOLEAN
        /\ node.n = "Decl" => /\ node.name \in VarNames /\ node.type \in TC!Types
                              /\ node.init \in BOOLEAN
    BY DEF P!TreeNodes, P!Marks, P!Types, TC!Types
  <2>2. TC!VisitStmt
    BY <1>5, <2>1 DEF VisitNode, TC!VisitStmt
  <2>. QED  BY <2>2, SameStmts DEF TCP!AnyNext
<1>6. CASE node.n \in {"EndFunc", "Else", "EndIf", "EndWhile", "EndSeq", "EndExp"}
  <2>1. TC!EndVisit
    BY <1>6 DEF VisitNode, TC!EndVisit
  <2>. QED  BY <2>1, SameEnds DEF TCP!AnyNext
<1>. QED  BY <1>1, <1>2, <1>3, <1>4, <1>5, <1>6 DEF P!TreeNodes, P!Marks

-----------------------------------------------------------------------------
(* The phases                                                              *)

LEMMA InitInv == ASSUME Init PROVE IInv
<1>1. PP!IInv
  <2>1. PBP!Init
    BY DEF Init, PB!Init, PBP!Init, PB!Do, PBP!Do, PB!Program, PBP!Program,
           PB!Tokens, PBP!Tokens, PB!Keywords, PBP!Keywords, PB!Operators, PBP!Operators,
           PB!Punctuation, PBP!Punctuation, PB!EOF, PBP!EOF, PB!InfixOps, PBP!InfixOps
  <2>. QED  BY <2>1, PBP!InitInv, BuiltinParserAssumptions, SameParserInv
<1>2. CheckerInv
  <2>1. TCP!Init
    BY DEF Init, TC!Init, TCP!Init
  <2>. QED  BY <2>1, CheckerAssumptions, TCP!InitInv, TCP!InitLex, TCP!InitOk, TCP!InitAssigns,
               TCP!InitTyping
            DEF CheckerInv
<1>. QED  BY <1>1, <1>2 DEF Init, IInv, PhasesOK, Phases, AfterCode, AfterVerify

\* Code generation has not started, or nothing that it reads changes.
LEMMA CodeKept ==
  ASSUME IInv, UNCHANGED cgVars, CG!Start \/ UNCHANGED <<syntax, checked>>
  PROVE  CG!Start' \/ (checked' = "ok" /\ CoderInv')
<1>1. CG!Start => CG!Start'
  BY DEF CG!Start, cgVars
<1>2. CASE UNCHANGED <<syntax, checked>> /\ CoderInv /\ checked = "ok"
  BY <1>2, CoderKeeps
<1>. QED  BY <1>1, <1>2 DEF IInv

\* The driver goes on from one phase to another.
LEMMA DriverKeeps ==
  ASSUME IInv, UNCHANGED <<parserVars, tcVars, cgVars>>, PhasesOK'
  PROVE  IInv'
<1>1. UNCHANGED <<syntax, checked>>
  BY DEF tcVars
<1>. QED  BY <1>1, ParserKeeps, CheckerUnchanged, CodeKept DEF IInv

(* The verdict of the verifier is about the program and the module.        *)
LEMMA VerdictStays ==
  ASSUME UNCHANGED <<syntax, module>>
  PROVE  CG!ModuleVerifies' <=> CG!ModuleVerifies
  BY DEF CG!ModuleVerifies, CG!Passes

LEMMA Inductive == ASSUME IInv, [Compile \/ CallMain \/ Ended]_vars PROVE IInv'
<1>1. /\ CG!Start /\ UNCHANGED cgVars => CG!Start'
      /\ phase \in BeforeCode => CG!Start
      /\ UNCHANGED tcVars => UNCHANGED <<syntax, checked>>
      /\ UNCHANGED cgVars => UNCHANGED generated
      /\ UNCHANGED <<tcVars, cgVars>> => (CG!ModuleVerifies' <=> CG!ModuleVerifies)
  BY VerdictStays DEF IInv, PhasesOK, CG!Start, cgVars, tcVars
<1>2. CASE Start \/ CodegenReturns \/ Verify \/ ConstructJIT \/ AddModule \/ FindSymbol \/ CallMain
  <2>1. UNCHANGED <<parserVars, tcVars, cgVars>>
    BY <1>2 DEF Start, CodegenReturns, Verify, ConstructJIT, AddModule, FindSymbol, CallMain,
                GoTo, Steps, ExitWith
  <2>2. PhasesOK'
    BY <1>1, <1>2, <2>1
    DEF Start, CodegenReturns, Verify, ConstructJIT, AddModule, FindSymbol, CallMain,
        GoTo, Steps, ExitWith, IInv, PhasesOK, Phases, BeforeCode, AfterCode, AfterVerify
  <2>. QED  BY <2>1, <2>2, DriverKeeps
<1>3. CASE ParseBuiltins \/ Parse
  <2>1. /\ PB!Next \/ P!Next
        /\ phase \in BeforeCode /\ UNCHANGED <<phase, exit, jit, tcVars, cgVars>>
    BY <1>3 DEF ParseBuiltins, Parse, BeforeCode
  <2>2. PhasesOK'
    BY <1>1, <2>1 DEF IInv, PhasesOK, BeforeCode, AfterVerify
  <2>. QED  BY <1>1, <2>1, <2>2, ParserKeeps, CheckerUnchanged DEF IInv
<1>4. CASE ParseReturns
  <2>1. CASE phase = "parse" /\ parsed = "ok"
    <3>1. /\ syntax' = <<>> /\ funcTable' = <<>> /\ checked' = "running" /\ checked = "ok"
          /\ UNCHANGED <<parserVars, scopes, visits, types, cgVars, exit, jit>>
          /\ phase' = "typecheck"
      BY <1>4, <2>1 DEF ParseReturns, Steps, GoTo, ExitWith, IInv, PhasesOK
    <3>2. CheckerInv'
      BY <3>1, TCP!AfreshInv, TCP!AfreshTyping, CheckerAssumptions DEF IInv, CheckerInv
    <3>3. PhasesOK'
      BY <1>1, <2>1, <3>1 DEF IInv, PhasesOK, Phases, BeforeCode, AfterCode, AfterVerify
    <3>. QED  BY <1>1, <2>1, <3>1, <3>2, <3>3, ParserKeeps DEF IInv, BeforeCode
  <2>2. CASE ~ (phase = "parse" /\ parsed = "ok")
    <3>1. UNCHANGED <<parserVars, tcVars, cgVars>>
      BY <1>4, <2>2 DEF ParseReturns, GoTo, Steps, ExitWith
    <3>2. PhasesOK'
      BY <1>1, <1>4, <2>2, <3>1
      DEF ParseReturns, GoTo, Steps, ExitWith, IInv, PhasesOK, Phases, BeforeCode, AfterCode, AfterVerify
    <3>. QED  BY <3>1, <3>2, DriverKeeps
  <2>. QED  BY <2>1, <2>2
<1>5. CASE Typecheck
  <2>1. /\ phase \in {"checkBuiltins", "typecheck"}
        /\ UNCHANGED <<phase, exit, jit, parserVars, cgVars>>
    BY <1>5 DEF Typecheck, Checking
  <2>2. TCP!AnyNext
    <3>1. CASE NextNode = {}
      BY <1>5, <3>1 DEF Typecheck, TC!Finish, TCP!Finish, TCP!AnyNext
    <3>2. CASE NextNode # {}
      <4>1. PICK i \in NextNode : VisitNode(tree[i])
        BY <1>5, <3>2 DEF Typecheck
      <4>2. i \in DOMAIN tree /\ tree[i].n # "Paren"
        BY DEF NextNode, NodesOf
      <4>3. tree[i] \in P!TreeNodes
        BY <4>2, SameParserTypes DEF IInv, PP!IInv, P!TypeOK
      <4>. QED  BY <4>1, <4>2, <4>3, VisitIsAny DEF IInv, CheckerInv
    <3>. QED  BY <3>1, <3>2
  <2>3. PhasesOK'
    BY <1>1, <2>1 DEF IInv, PhasesOK, BeforeCode, AfterCode, AfterVerify
  <2>. QED  BY <1>1, <2>1, <2>2, <2>3, ParserKeeps, CheckerKeeps DEF IInv, BeforeCode
<1>6. CASE TypecheckReturns
  <2>1. CASE phase = "checkBuiltins" /\ checked = "ok"
    <3>1. P!Opened /\ phase' = "parse" /\ UNCHANGED <<exit, jit, tcVars, cgVars>>
      BY <1>6, <2>1 DEF TypecheckReturns, Steps
    <3>2. PhasesOK'
      BY <1>1, <2>1, <3>1 DEF IInv, PhasesOK, Phases, BeforeCode, AfterCode, AfterVerify
    <3>. QED  BY <1>1, <2>1, <3>1, <3>2, ParserKeeps, CheckerUnchanged DEF IInv, BeforeCode
  <2>2. CASE ~ (phase = "checkBuiltins" /\ checked = "ok")
    <3>1. UNCHANGED <<parserVars, tcVars, cgVars>>
      BY <1>6, <2>2 DEF TypecheckReturns, GoTo, Steps, ExitWith
    <3>2. PhasesOK'
      BY <1>1, <1>6, <2>2, <3>1
      DEF TypecheckReturns, GoTo, Steps, ExitWith, IInv, PhasesOK, Phases, BeforeCode, AfterCode, AfterVerify
    <3>. QED  BY <3>1, <3>2, DriverKeeps
  <2>. QED  BY <2>1, <2>2
<1>7. CASE Generate
  <2>1. /\ phase = "codegen" /\ CG!Next
        /\ UNCHANGED <<phase, exit, jit, parserVars, tcVars>>
    BY <1>7 DEF Generate
  <2>2. checked = "ok" /\ CoderInv
    BY <2>1, CoderStarts DEF IInv, PhasesOK
  <2>3. CoderInv' /\ checked' = "ok"
    BY <2>1, <2>2, CoderKeeps DEF tcVars
  <2>4. PhasesOK'
    BY <2>1, <2>3 DEF IInv, PhasesOK, BeforeCode, AfterCode, AfterVerify
  <2>. QED  BY <2>1, <2>3, <2>4, ParserKeeps, CheckerUnchanged DEF IInv
<1>8. CASE UNCHANGED vars
  <2>1. UNCHANGED <<phase, exit, jit, parserVars, tcVars, cgVars>>
    BY <1>8 DEF vars
  <2>. QED  BY <1>1, <2>1, DriverKeeps DEF IInv, PhasesOK
<1>. QED  BY <1>2, <1>3, <1>4, <1>5, <1>6, <1>7, <1>8 DEF Compile, Ended

-----------------------------------------------------------------------------
(* Results                                                                 *)

(* Whatever the text, every pass works on what it expects, and leaves to   *)
(* the next what that expects (main.cpp:42-54, 106-155).                   *)
THEOREM TypeCorrect == Spec => []TypeOK
<1>1. ASSUME IInv PROVE TypeOK
  <2>1. CG!TypeOK
    BY <1>1, CoderStarts, SameGeneratorTypes DEF IInv, CoderInv, CGP!IInv, CGP!TypeInv
  <2>. QED  BY <1>1, <2>1, SameParserTypes, SameCheckerTypes
            DEF IInv, PhasesOK, PP!IInv, CheckerInv, TCP!IInv, TypeOK
<1>. QED  BY <1>1, InitInv, Inductive, PTL DEF Spec

LEMMA MissingCalls ==
  ASSUME NEW k, CGP!NotDefined(syntax, k)
  PROVE  k \in CallsOfDeclarations \cup CallsOfOperators
BY DEF CGP!NotDefined, CallsOfDeclarations, CallsOfOperators, Calls, CGP!MinArgs, CG!MinArgs,
       CGP!OperatorNames, OperatorNames, CGP!InfixOps, InfixOps, CG!InfixOps

LEMMA CallsMissing ==
  ASSUME NEW k \in CallsOfDeclarations \cup CallsOfOperators
  PROVE  k \in DOMAIN syntax /\ CGP!NotDefined(syntax, k)
BY DEF CGP!NotDefined, CallsOfDeclarations, CallsOfOperators, Calls, CGP!MinArgs, CG!MinArgs,
       CGP!OperatorNames, OperatorNames, CGP!InfixOps, InfixOps, CG!InfixOps

(* Whatever the text, code generation of a program that typechecks fails   *)
(* if, and only if, the program calls what it only declares, or an         *)
(* operator with too few operands: nothing else that the code generator    *)
(* looks up by the links of the typechecker can be missing                 *)
(* (Codegen.cpp:107-112, 138-186, 232-237; Typechecker.cpp:68-76, 111-121, *)
(* 164-184).                                                               *)
THEOREM FailsIffNotDefined == Spec => []AbortsIffNotDefined
<1>1. ASSUME IInv PROVE AbortsIffNotDefined
  <2>1. CASE CG!Start
    BY <2>1 DEF CG!Start, AbortsIffNotDefined
  <2>2. CASE checked = "ok" /\ CoderInv
    <3>1. CGP!WellLinked(syntax)
      <4>1. TCP!LinksSuffice
        BY <1>1, TCP!LinksSufficeWhenDone, CheckerAssumptions DEF IInv, CheckerInv
      <4>. QED  BY <2>2, <4>1, SameLinks DEF TCP!LinksSuffice
    <3>2. generated = "aborted" => CGP!NotDefined(syntax, cursor)
      BY <2>2, <3>1 DEF CoderInv, CGP!LookupInv, CGP!FailsIfUndefined
    <3>3. CGP!NoneUndefined
      BY <2>2, CGP!CallsDone, CoderAssumptions DEF CoderInv, CGP!IInv, CGP!TypeInv
    <3>. QED  BY <3>2, <3>3, MissingCalls, CallsMissing DEF AbortsIffNotDefined, CGP!NoneUndefined
  <2>. QED  BY <1>1, <2>1, <2>2 DEF IInv
<1>. QED  BY <1>1, InitInv, Inductive, PTL DEF Spec

\* The main function is called only when the module is complete.
CompleteWhenCalled == phase = "callMain" => generated = "done"

(* Whatever the text, and whatever functions, overloads and duplicates of  *)
(* builtins it declares: when the main function is called, code generation *)
(* is complete, and every function of the module is called exactly as      *)
(* often as the program refers to its definition (main.cpp:111-155;        *)
(* Typechecker.cpp:78-134; Codegen.cpp:138-189).                           *)
THEOREM CallsAreFaithful == Spec => [](CallsReachTheirDefinitions /\ CompleteWhenCalled)
<1>1. ASSUME IInv PROVE CallsReachTheirDefinitions /\ CompleteWhenCalled
  <2>1. CASE CG!Start
    BY <1>1, <2>1
    DEF CG!Start, CallsReachTheirDefinitions, CG!DefinitionsAreCalled, CompleteWhenCalled,
        IInv, PhasesOK, AfterCode
  <2>2. CASE CoderInv
    <3>1. CGP!LinksByName(syntax)
      BY <1>1 DEF IInv, CheckerInv, TCP!IInv, TCP!LinksOK, TCP!LinkOK, CGP!LinksByName
    <3>2. CGP!NoUserOperators => CGP!DefinitionsAreCalled
      BY <2>2, <3>1, CGP!CountsDone, CoderAssumptions DEF CoderInv, CGP!IInv, CGP!TypeInv
    <3>. QED  BY <1>1, <3>2, SameCallCounts
              DEF CallsReachTheirDefinitions, CompleteWhenCalled, IInv, PhasesOK, AfterCode
  <2>. QED  BY <1>1, <2>1, <2>2 DEF IInv
<1>. QED  BY <1>1, InitInv, Inductive, PTL DEF Spec

(* Whatever the text: an instruction takes operands of the types that the  *)
(* typechecker has established, unless it is the return that is supplied   *)
(* to a bool function, or the text has operators of its own                *)
(* (Typechecker.cpp:84-134, 175, 201, 212; Codegen.cpp:138-189, 268-273,   *)
(* 357-366, 426-428).                                                      *)
THEOREM TypesAreSound == Spec => []OperandsAreTyped
<1>1. ASSUME IInv PROVE OperandsAreTyped
  <2>1. CASE CG!Start
    BY <2>1 DEF CG!Start, OperandsAreTyped, CG!OperandsAreTyped
  <2>2. CASE checked = "ok" /\ CoderInv
    <3>1. \E st : CGP!Typing(syntax, st)
      <4>1. TCP!WellTypedWhenDone
        BY <1>1, TCP!TypedWhenDone, CheckerAssumptions DEF IInv, CheckerInv
      <4>. QED  BY <2>2, <4>1, SameTypings DEF TCP!WellTypedWhenDone, TCP!TypedBy
    <3>2. CGP!OperandsAreTyped
      BY <2>2, <3>1, CGP!OperandsDone, CoderAssumptions DEF CoderInv, CGP!TypedCode
    <3>. QED  BY <3>2, SameOperands DEF OperandsAreTyped
  <2>. QED  BY <1>1, <2>1, <2>2 DEF IInv
<1>. QED  BY <1>1, InitInv, Inductive, PTL DEF Spec

(* Whatever the text: the verifier accepts exactly the functions in which  *)
(* every return ends a branch or the function, and which end in a return   *)
(* if they have the type bool, unless the text has operators of its own;   *)
(* so the assertion on its result says of a program that typechecks where  *)
(* its returns are, and nothing else (main.cpp:122-123;                    *)
(* Typechecker.cpp:84-134; Codegen.cpp:290-347, 426-428).                  *)
THEOREM VerifierSeesReturns == Spec => []VerifiedIffClean
<1>1. ASSUME IInv PROVE VerifiedIffClean
  <2>1. CASE CG!Start
    BY <2>1 DEF CG!Start, VerifiedIffClean, CG!VerifiedIffClean
  <2>2. CASE checked = "ok" /\ CoderInv
    <3>1. \E st : CGP!Typing(syntax, st)
      <4>1. TCP!WellTypedWhenDone
        BY <1>1, TCP!TypedWhenDone, CheckerAssumptions DEF IInv, CheckerInv
      <4>. QED  BY <2>2, <4>1, SameTypings DEF TCP!WellTypedWhenDone, TCP!TypedBy
    <3>2. CGP!VerifiedIffClean
      BY <2>2, <3>1 DEF CoderInv, CGP!VerifierInv, CGP!Typable
    <3>. QED  BY <3>2, SameVerifier DEF VerifiedIffClean
  <2>. QED  BY <1>1, <2>1, <2>2 DEF IInv
<1>. QED  BY <1>1, InitInv, Inductive, PTL DEF Spec

\* The source is clean, and its calls of operators are of builtins.
RunsCleanCode ==
  phase = "callMain" /\ CG!OperatorCallsAreBuiltin => \A f \in DOMAIN module : CG!Clean(module[f].def)

(* Whatever the text: the main function is called only if in every         *)
(* function of the program every return ends a branch or the function, and *)
(* every bool function ends in a return, unless the text has operators of  *)
(* its own (main.cpp:119-155).                                             *)
THEOREM OnlyCleanCodeRuns == Spec => []RunsCleanCode
<1>1. IInv => (phase = "callMain" => CG!ModuleVerifies)
  BY DEF IInv, PhasesOK, AfterVerify
<1>2. ASSUME VerifiedIffClean, phase = "callMain" => CG!ModuleVerifies PROVE RunsCleanCode
  BY <1>2 DEF VerifiedIffClean, CG!VerifiedIffClean, CG!ModuleVerifies, RunsCleanCode
<1>. QED  BY <1>1, <1>2, VerifierSeesReturns, InitInv, Inductive, PTL DEF Spec

(* Whatever the text: in every function that has been generated, branches  *)
(* go to blocks of that function, never to its entry; and as many blocks   *)
(* as it has ifs both of whose branches end in a return, besides the       *)
(* entry, are such that no branch goes to them (Typechecker.cpp:78-134;    *)
(* Codegen.cpp:290-347).                                                   *)
THEOREM CompiledBlocksAreConnected == Spec => []CG!BlocksAreConnected
<1>1. ASSUME IInv PROVE CG!BlocksAreConnected
  <2>1. CASE CG!Start
    BY <2>1 DEF CG!Start, CG!BlocksAreConnected
  <2>2. CASE checked = "ok" /\ CoderInv
    <3>1. \E st : CGP!Typing(syntax, st)
      <4>1. TCP!WellTypedWhenDone
        BY <1>1, TCP!TypedWhenDone, CheckerAssumptions DEF IInv, CheckerInv
      <4>. QED  BY <2>2, <4>1, SameTypings DEF TCP!WellTypedWhenDone, TCP!TypedBy
    <3>2. CGP!BlocksAreConnected
      BY <2>2, <3>1 DEF CoderInv, CGP!NestedCode, CGP!NestingInv, CGP!Typable
    <3>. QED  BY <3>2, SameConnections
  <2>. QED  BY <1>1, <2>1, <2>2 DEF IInv
<1>. QED  BY <1>1, InitInv, Inductive, PTL DEF Spec
=============================================================================
