------------------------------ MODULE Compiler ------------------------------
(***************************************************************************)
(* The driver (main.cpp) and the passes that it runs one after the other   *)
(* on one program: Parser builds the tree from the text, Typechecker       *)
(* decorates it, Codegen reads it.  The builtin declarations are parsed    *)
(* and checked first, then the source is parsed into the same program,     *)
(* which is checked as a whole.  LLVM's verifier, optimizer and JIT engine *)
(* are external.  The build has assertions (NDEBUG is not defined).        *)
(***************************************************************************)
EXTENDS Tokens, FiniteSets

CONSTANTS
  Builtins,   \* the declarations in the text of GetBuiltins
  Source(_),  \* the texts of the source file: the tokens that may follow
  MaxNodes    \* bound on the nodes of the tree

ASSUME CompilerAssumption == MaxNodes \in Nat

VARIABLES
  phase,      \* what the driver is doing
  exit,       \* the exit status, or Null
  jit,        \* m_initialized of the JIT engine
  read, lookahead, todo, tree, parsed,                  \* Parser
  syntax,     \* the tree as the typechecker has decorated it so far
  funcTable, scopes, visits, types, checked,            \* Typechecker
  cursor, frames, values, symbols, functions, blocks,   \* Codegen
  insert, module, generated

\* The text of GetBuiltins.
BuiltinText ==
  LET Typed(p)  == <<p.type, p.name>>
      Text(def) == <<def.ret, "operator", def.name, "(">> \o Typed(def.params[1])
                     \o (IF Len(def.params) = 2 THEN <<",">> \o Typed(def.params[2]) ELSE <<>>)
                     \o <<")", ";">>
      text[i \in 0 .. Len(Builtins)] ==
        IF i = 0 THEN <<>> ELSE text[i - 1] \o Text(Builtins[i])
  IN  Append(text[Len(Builtins)], EOF)

BuiltinSource(s) == {BuiltinText[Len(s) + 1]}

\* The typechecker is not given any functions to choose from: it visits the
\* tree that the parser has built (VisitNode), with statements of every kind.
NoCall(def)  == {}
AnyStmt(def) == {"CallStmt", "Assign", "Return", "If", "While", "Decl", "Seq"}

PB == INSTANCE Parser WITH status <- parsed, Supply <- BuiltinSource
P  == INSTANCE Parser WITH status <- parsed, Supply <- Source
TC == INSTANCE Typechecker WITH frames <- visits, status <- checked,
        Builtins <- <<>>, UserDefs <- {}, StmtKinds <- AnyStmt, CallNames <- NoCall,
        MaxFuncs <- 0, MaxArgs <- MaxNodes
CG == INSTANCE Codegen WITH Programs <- {}, status <- generated

parserVars == <<read, lookahead, todo, tree, parsed>>
tcVars     == <<syntax, funcTable, scopes, visits, types, checked>>
cgVars     == <<cursor, frames, values, symbols, functions, blocks, insert, module, generated>>
vars       == <<phase, exit, jit, parserVars, tcVars, cgVars>>

Phases == {"start", "parseBuiltins", "checkBuiltins", "parse", "typecheck", "codegen", "verify",
           "construct", "addModule", "findSymbol", "callMain", "exited", "aborted"}

Init ==
  /\ phase = "start" /\ exit = Null /\ jit = FALSE
  /\ PB!Init
  /\ TC!Init
  /\ CG!Start

-----------------------------------------------------------------------------
Steps(p)    == phase' = p /\ UNCHANGED <<exit, jit, cgVars>>
GoTo(p)     == Steps(p) /\ UNCHANGED <<parserVars, tcVars>>
ExitWith(c) == /\ phase' = "exited" /\ exit' = c
               /\ UNCHANGED <<jit, parserVars, tcVars, cgVars>>

\* The command line is wrong, or the file cannot be read; otherwise on to the
\* builtin declarations.
Start == phase = "start" /\ (ExitWith("-1") \/ GoTo("parseBuiltins"))

ParseBuiltins ==
  /\ phase = "parseBuiltins" /\ PB!Next
  /\ UNCHANGED <<phase, exit, jit, tcVars, cgVars>>

Parse ==
  /\ phase = "parse" /\ P!Next
  /\ UNCHANGED <<phase, exit, jit, tcVars, cgVars>>

\* Typecheck starts afresh on the whole program.  The builtin declarations are
\* asserted to be accepted.
ParseReturns ==
  \/ /\ phase = "parseBuiltins" /\ parsed # "running"
     /\ GoTo(IF parsed = "ok" THEN "checkBuiltins" ELSE "aborted")
  \/ /\ phase = "parse" /\ parsed = "ok"
     /\ syntax' = <<>> /\ funcTable' = <<>> /\ checked' = "running"
     /\ Steps("typecheck")
     /\ UNCHANGED <<parserVars, scopes, visits, types>>
  \/ /\ phase = "parse" /\ parsed = "error"
     /\ ExitWith("-1")

-----------------------------------------------------------------------------
(* Dispatch: the typechecker's visitors visit the nodes of the tree.       *)

ConstType(text) == IF text \in {"true", "false"} THEN "bool" ELSE "int"

VisitNode(node) ==
  CASE node.n = "Func"     -> TC!CheckFunction(node.def)
    [] node.n = "EndFunc"  -> TC!EndFunction
    [] node.n = "CallStmt" -> TC!VisitCallStmt
    [] node.n = "Assign"   -> TC!VisitAssign(node.name)
    [] node.n = "Return"   -> TC!VisitReturn
    [] node.n = "If"       -> TC!VisitIf(node.else)
    [] node.n = "Else"     -> TC!VisitElse
    [] node.n = "EndIf"    -> TC!EndIf
    [] node.n = "While"    -> TC!VisitWhile
    [] node.n = "EndWhile" -> TC!EndWhile
    [] node.n = "Decl"     -> TC!VisitDecl(node.name, node.type, node.init)
    [] node.n = "Seq"      -> TC!VisitSeq
    [] node.n = "EndSeq"   -> TC!EndSeq
    [] node.n = "Const"    -> TC!VisitConst(ConstType(node.text))
    [] node.n = "Var"      -> TC!VisitVarExp(node.name)
    [] node.n = "Call"     -> TC!VisitCallExp(node.name, node.args)
    [] node.n = "EndExp"   -> \/ TC!EndCallStmt \/ TC!EndAssign \/ TC!EndReturn
                              \/ TC!EndIfCond \/ TC!EndWhileCond \/ TC!EndDeclInit

Checking == phase \in {"checkBuiltins", "typecheck"} /\ checked = "running"

\* The nodes that the parser has built; parentheses leave none.  The next to
\* visit is the one behind those that have been visited.
NodesOf == {i \in DOMAIN tree : tree[i].n # "Paren"}
NextNode == {i \in NodesOf : Cardinality({k \in NodesOf : k < i}) = Len(syntax)}

Typecheck ==
  /\ Checking
  /\ IF NextNode = {} THEN TC!Finish ELSE \E i \in NextNode : VisitNode(tree[i])
  /\ UNCHANGED <<phase, exit, jit, parserVars, cgVars>>

\* After the builtins, a new token stream is opened on the source.
TypecheckReturns ==
  \/ /\ phase = "checkBuiltins" /\ checked # "running"
     /\ IF checked = "ok"
        THEN P!Opened /\ Steps("parse") /\ UNCHANGED tcVars
        ELSE GoTo("aborted")
  \/ /\ phase = "typecheck" /\ checked = "ok"
     /\ GoTo("codegen")
  \/ /\ phase = "typecheck" /\ checked = "error"
     /\ ExitWith("-1")

-----------------------------------------------------------------------------
Generate ==
  /\ phase = "codegen" /\ CG!Next
  /\ UNCHANGED <<phase, exit, jit, parserVars, tcVars>>

\* A failed assert has ended the process, or the module is complete.
CodegenReturns ==
  /\ phase = "codegen"
  /\ \/ generated = "aborted" /\ GoTo("aborted")
     \/ generated = "done"    /\ GoTo("verify")

\* assert(!verifyModule(...))
Verify ==
  /\ phase = "verify"
  /\ GoTo(IF CG!ModuleVerifies THEN "construct" ELSE "aborted")

\* The JIT engine is constructed, which may fail unnoticed; the optimizer
\* runs on the module.
ConstructJIT ==
  /\ phase = "construct"
  /\ phase' = "addModule" /\ jit' \in BOOLEAN
  /\ UNCHANGED <<exit, parserVars, tcVars, cgVars>>

\* An engine that is not initialized reports that; others may fail, too.
AddModule  == phase = "addModule" /\ (ExitWith("-1") \/ (jit /\ GoTo("findSymbol")))

\* The functions of the module that have the symbol "main": LLVM renames all
\* but the first.
Mains == {f \in functions : syntax[f].def.name = "main"}
Main  == CHOOSE f \in Mains : \A g \in Mains : f <= g

FindSymbol ==
  /\ phase = "findSymbol"
  /\ \/ ExitWith("-1")
     \/ Mains # {} /\ GoTo("callMain")

\* The called function may return, or not.
CallMain == phase = "callMain" /\ ExitWith("0")

Compile ==
  \/ Start \/ ParseBuiltins \/ Parse \/ ParseReturns \/ Typecheck \/ TypecheckReturns
  \/ Generate \/ CodegenReturns \/ Verify \/ ConstructJIT \/ AddModule \/ FindSymbol

Ended == phase \in {"exited", "aborted"} /\ UNCHANGED vars

\* The compiler is one thread that nothing stops; what it compiles may loop.
Spec == Init /\ [][Compile \/ CallMain \/ Ended]_vars /\ WF_vars(Compile)

-----------------------------------------------------------------------------
TypeOK ==
  /\ phase \in Phases
  /\ exit \in {Null, "0", "-1"}
  /\ jit \in BOOLEAN
  /\ P!TypeOK
  /\ TC!TypeOK
  /\ CG!TypeOK

(***************************************************************************)
(* Properties                                                              *)
(***************************************************************************)

Calls == {k \in DOMAIN syntax : syntax[k].n = "Call"}

\* Calls that code generation has no instruction and no function for.
CallsOfDeclarations ==
  {k \in Calls : syntax[k].name \notin OperatorNames /\ ~syntax[syntax[k].def].def.body}

CallsOfOperators ==
  {k \in Calls : /\ syntax[k].name \in OperatorNames
                 /\ syntax[k].args < CG!MinArgs(syntax[k].name)}

(* Code generation of a typechecked program fails an assertion or an       *)
(* argument access if, and only if, the program calls a function that it   *)
(* only declares, or an operator of its own with too few operands: no      *)
(* other lookup of a variable or function by the links of the typechecker  *)
(* can fail (Codegen.cpp:107-112, 138-177, 180-186, 232-237).              *)
AbortsIffNotDefined ==
  /\ generated = "aborted" => CallsOfDeclarations \cup CallsOfOperators # {}
  /\ generated = "done"    => CallsOfDeclarations \cup CallsOfOperators = {}

(* The verifier accepts the code of exactly the clean functions, whatever  *)
(* functions, overloads and conditions the typechecker has let pass        *)
(* (main.cpp:122-123).                                                     *)
VerifiedIffClean == CG!VerifiedIffClean

(* What the typechecker has checked is what the verifier asks for: however *)
(* a text is parsed and its calls are linked, an instruction whose         *)
(* operands have other types comes only from the return that is supplied   *)
(* to a bool function, or from an operator of the text's own               *)
(* (Typechecker.cpp:84-134, 175, 201, 212; Codegen.cpp:138-189).           *)
OperandsAreTyped == CG!OperandsAreTyped

(* The builtin declarations are accepted, and are the first definitions of *)
(* every program that is checked, whatever becomes of it: the assertion on *)
(* their status never fails (main.cpp:106-109, Builtins.h:4-33).           *)
BuiltinsAreDeclared ==
  /\ phase = "aborted" => parsed = "ok" /\ checked = "ok"
  /\ phase \notin {"start", "parseBuiltins", "exited", "aborted"} =>
       SubSeq(tree, 1, Len(Builtins)) = [i \in DOMAIN Builtins |-> [n |-> "Func", def |-> Builtins[i]]]

(* Whatever the text, the compiler comes to an end of it, or calls the     *)
(* main function: no pass waits for what an earlier one has not provided   *)
(* (main.cpp:106-155).                                                     *)
Finishes == <>(phase \in {"callMain", "exited", "aborted"})

(* In a program that the compiler runs, each definition is called as often *)
(* as the typechecker has chosen it: the calls of overloads, duplicates    *)
(* and builtins are counted for each definition (Codegen.cpp:180-189).     *)
CallsReachTheirDefinitions ==
  phase = "callMain" /\ CG!NoUserOperators => CG!DefinitionsAreCalled

(* The function that is called with the input value takes one int and      *)
(* returns an int (main.cpp:146-150).                                      *)
MainTakesTheInput ==
  phase = "callMain" =>
    /\ syntax[Main].def.ret = "int"
    /\ ParamTypes(syntax[Main].def) = <<"int">>
=============================================================================
