------------------------------- MODULE Typing -------------------------------
(***************************************************************************)
(* The types of a decorated program, said of its nodes alone: the order in *)
(* which a program is kept is postfix, so that the types of the visited    *)
(* expressions that no call has consumed are a stack.  The typechecker     *)
(* promises that such stacks exist; the code generator, which checks no    *)
(* type, relies on it.                                                     *)
(***************************************************************************)
EXTENDS Syntax

\* The statements that contain an expression, and where their Visit functions
\* wait for it.
WaitsAt == [Decl |-> "DeclInit", Assign |-> "AssignExp", Return |-> "ReturnExp",
            CallStmt |-> "CallExp", If |-> "IfCond", While |-> "WhileCond"]

\* The expression of the statement at j is all there is before position k.
HasExp(program, j, k) ==
  /\ j \in 1 .. k - 1 /\ program[j].n \in DOMAIN WaitsAt
  /\ \A m \in j + 1 .. k - 1 : program[m].n \in ExpNodes

\* An initial or assigned value has the type of the variable, a returned one
\* the return type of the function; a call statement has a call.
Expected(program, k, t) ==
  \A j \in 1 .. k - 1 : HasExp(program, j, k) =>
    /\ program[j].n = "Decl"   => t = program[j].type
    /\ program[j].n = "Assign" => t = program[j].decl.type
    /\ program[j].n = "Return" =>
         \A f \in 1 .. j - 1 : InFunction(program, f, j) => t = program[f].def.ret
    /\ program[j].n = "CallStmt" => IsStmtCall(program[k - 1])

\* The stacks before and behind node k.
TypeStep(program, k, before, after) ==
  LET node == program[k]
      def  == program[node.def].def
  IN  CASE node.n \in {"Const", "Var"} -> after = Append(before, ExpType(node))
        [] node.n = "Call" ->
             /\ node.def \in 1 .. k - 1 /\ program[node.def].n = "Func"
             /\ node.args = Len(def.params) /\ node.type = def.ret
             /\ \E rest \in Seq(Types) : /\ before = rest \o ParamTypes(def)
                                         /\ after = Append(rest, def.ret)
        [] node.n = "EndExp" ->
             /\ \E t \in Types : before = <<t>> /\ Expected(program, k, t)
             /\ after = <<>>
        [] OTHER -> before = <<>> /\ after = <<>>

\* stacks[k] is the stack before node k.
Typing(program, stacks) ==
  /\ stacks \in [1 .. Len(program) + 1 -> Seq(Types)]
  /\ stacks[1] = <<>>
  /\ \A k \in 1 .. Len(program) : TypeStep(program, k, stacks[k], stacks[k + 1])
=============================================================================
