------------------------------- MODULE Syntax -------------------------------
(***************************************************************************)
(* The syntax tree that the parser hands to the typechecker and the        *)
(* typechecker to the code generator (Exp.h, Stmt.h, VarDecl.h, FuncDef.h, *)
(* Program.h), and the declarations of the builtin functions (Builtins.h). *)
(*                                                                         *)
(* Both passes are visitors that walk the tree depth first and left to     *)
(* right, so a program is kept as the sequence of its nodes in the order   *)
(* in which a visitor enters them: an expression in postfix order (a call  *)
(* after its arguments) closed by "EndExp", a statement that contains      *)
(* statements closed by a mark of its own.  The position of a node in that *)
(* sequence is the identity of the object it stands for.                   *)
(***************************************************************************)
EXTENDS Naturals, Sequences

CONSTANTS
  VarNames,   \* names of variables and parameters
  FuncNames,  \* names of functions: identifiers and operators
  Null        \* the link of a node that the typechecker has not linked

Types == {"bool", "int"}

Params == [name : VarNames, type : Types]

\* A function definition; builtin and forward declarations have no body.
FuncDefs == [name : FuncNames, ret : Types, params : Seq(Params), body : BOOLEAN]

ParamTypes(def) == [i \in DOMAIN def.params |-> def.params[i].type]

\* A VarDecl object.  A local is owned by the node of its DeclStmt, the
\* parameter at position pos by the node of its FuncDef.
VarDecls == [owner : Nat, pos : Nat, name : VarNames, type : Types,
             kind : {"kLocal", "kParam"}]

NullNotADecl == Null \notin VarDecls \cup FuncDefs
ASSUME NullAssumption == NullNotADecl

LocalDecl(owner, x, t) ==
  [owner |-> owner, pos |-> 0, name |-> x, type |-> t, kind |-> "kLocal"]

ParamDecls(owner, def) ==
  {[owner |-> owner, pos |-> i, name |-> def.params[i].name,
    type |-> def.params[i].type, kind |-> "kParam"] : i \in DOMAIN def.params}

(***************************************************************************)
(* Nodes.  The typechecker decorates Var, Assign and Call nodes with the   *)
(* definition they refer to (fields decl and def).                         *)
(***************************************************************************)
Marks == {"Seq", "EndSeq", "Return", "CallStmt", "While", "EndExp", "Else",
          "EndIf", "EndWhile", "EndFunc"}

Nodes ==
       [n : Marks]
  \cup [n : {"Func"}, def : FuncDefs]
  \cup [n : {"Decl"}, name : VarNames, type : Types, init : BOOLEAN]
  \cup [n : {"Assign"}, name : VarNames, decl : VarDecls \cup {Null}]
  \cup [n : {"If"}, else : BOOLEAN]
  \cup [n : {"Const"}, type : Types]
  \cup [n : {"Var"}, name : VarNames, decl : VarDecls]
  \cup [n : {"Call"}, name : FuncNames, args : Nat, type : Types, def : Nat]

Mark(m) == [n |-> m]

ExpNodes == {"Const", "Var", "Call"}

\* Exp::GetType of a typechecked expression.
ExpType(node) == IF node.n = "Var" THEN node.decl.type ELSE node.type

(***************************************************************************)
(* Builtin functions, in the order in which they are declared.             *)
(***************************************************************************)
Builtin(name, ret, types) ==
  [name |-> name, ret |-> ret, body |-> FALSE,
   params |-> [i \in DOMAIN types |-> [name |-> <<"x", "y">>[i], type |-> types[i]]]]

II == <<"int", "int">>
BB == <<"bool", "bool">>

GetBuiltins == <<
  Builtin("+", "int", II), Builtin("-", "int", II), Builtin("*", "int", II),
  Builtin("/", "int", II), Builtin("%", "int", II),
  Builtin("==", "bool", II), Builtin("!=", "bool", II),
  Builtin("==", "bool", BB), Builtin("!=", "bool", BB),
  Builtin("<", "bool", II), Builtin("<=", "bool", II),
  Builtin(">", "bool", II), Builtin(">=", "bool", II),
  Builtin("!", "bool", <<"bool">>), Builtin("-", "int", <<"int">>),
  Builtin("&&", "bool", BB), Builtin("||", "bool", BB),
  Builtin("bool", "bool", <<"int">>), Builtin("int", "int", <<"bool">>) >>

\* Names that are operator or conversion tokens rather than identifiers.
InfixOps == {"+", "-", "*", "/", "%", "==", "!=", "<", "<=", ">", ">=", "&&", "||"}
OperatorNames == InfixOps \cup {"!", "bool", "int"}

(***************************************************************************)
(* The calls the parser can build: an infix operator has two arguments, a  *)
(* prefix minus gives one argument to whatever token follows it, and only  *)
(* identifiers and conversions are followed by an argument list.           *)
(***************************************************************************)
Callable(name, n) ==
  \/ name \notin InfixOps \cup {"!"}
  \/ name \in InfixOps /\ n = 2
  \/ n = 1

\* The expression of a CallStmt is a call of an identifier.
IsStmtCall(node) == node.n = "Call" /\ node.name \notin OperatorNames

(***************************************************************************)
(* What the typechecker promises to the code generator, which has no       *)
(* scopes: a variable is declared before it is used, by a parameter or     *)
(* anywhere in the body of the same function; only locals are assigned to; *)
(* a call has an earlier definition.                                       *)
(***************************************************************************)
InFunction(program, f, i) ==
  /\ program[f].n = "Func"
  /\ \A k \in f + 1 .. i - 1 : program[k].n # "Func"

DeclaredBefore(program, d, i) ==
  \E f \in 1 .. i - 1 :
    /\ InFunction(program, f, i)
    /\ \/ d \in ParamDecls(f, program[f].def)
       \/ \E j \in f + 1 .. i - 1 :
            program[j].n = "Decl" /\ d = LocalDecl(j, program[j].name, program[j].type)

WellLinked(program) ==
  \A i \in DOMAIN program :
    /\ program[i].n \in {"Var", "Assign"} => DeclaredBefore(program, program[i].decl, i)
    /\ program[i].n = "Assign" => program[i].decl.kind = "kLocal"
    /\ program[i].n = "Call" => program[i].def \in 1 .. i - 1 /\ program[program[i].def].n = "Func"
=============================================================================
