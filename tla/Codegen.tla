------------------------------ MODULE Codegen -------------------------------
(***************************************************************************)
(* One run of Codegen (Codegen.cpp) over a typechecked program.  The       *)
(* visitors read the nodes of syntax one after the other, following the    *)
(* links that the typechecker has stored in them, and append instructions  *)
(* to the basic block at the builder's insertion point.  Blocks are        *)
(* numbered in the order of their creation, the entry block first.         *)
(*                                                                         *)
(* A failed assert, or an uncaught std::out_of_range, ends the run with    *)
(* status "aborted".  Constant folding by the builder is abstracted: an    *)
(* operation on constants may emit no instruction, but every statement     *)
(* still emits the branch, store, call or return that ends it.             *)
(***************************************************************************)
EXTENDS Visitor, IR, FiniteSets

CONSTANT Programs  \* the programs that the code generator may be given

ASSUME CodegenAssumption == Programs \subseteq Seq(Nodes)

VARIABLES
  syntax,     \* the program, which does not change
  cursor,     \* the next node to visit
  frames,     \* the active Visit functions, innermost last
  values,     \* types of the generated values not yet consumed
  symbols,    \* m_symbols: the declarations that have a location or value
  functions,  \* m_functions: the definitions that have an LLVM function
  blocks,     \* the basic blocks of the current function
  insert,     \* the block at the builder's insertion point
  module,     \* the functions that are complete
  status      \* "running", "done" or "aborted"

genVars == <<cursor, frames, values, symbols, functions, blocks, insert, module, status>>
vars == <<syntax, genVars>>

Frames == [pc : ControlPoints, node : Nat, loop : Nat, els : Nat, join : Nat]

Start ==
  /\ cursor = 1 /\ frames = <<>> /\ values = <<>>
  /\ symbols = {} /\ functions = {}
  /\ blocks = <<>> /\ insert = 0 /\ module = <<>>
  /\ status = "running"

Init == syntax \in Programs /\ Start

-----------------------------------------------------------------------------
Reading(kind) ==
  /\ status = "running" /\ cursor <= Len(syntax) /\ syntax[cursor].n = kind

Abort ==
  /\ status' = "aborted"
  /\ UNCHANGED <<syntax, cursor, frames, values, symbols, functions, blocks, insert, module>>

\* IRBuilder: append instructions at the insertion point.
Put(instrs) == [blocks EXCEPT ![insert] = @ \o instrs]

\* Mutation of BranchUnlessTerminated: the branch is appended to any block.
BranchAlways(to) == Put(<<Jump("br", <<>>, <<to>>)>>)

\* A branch to the block, unless the current one already has a terminator.
BranchUnlessTerminated(to) ==
  IF HasTerminator(blocks[insert]) THEN blocks ELSE Put(<<Jump("br", <<>>, <<to>>)>>)

NewFrame(pc, loop) == [pc |-> pc, node |-> cursor, loop |-> loop, els |-> 0, join |-> 0]

-----------------------------------------------------------------------------
(* Functions (CodegenFunc)                                                 *)

\* Mutation of BeginFunction: declarations have an LLVM function, too.
BeginAnyFunction ==
  /\ frames = <<>> /\ Reading("Func")
  /\ cursor' = cursor + 1
  /\ functions' = functions \cup {cursor}
  /\ IF syntax[cursor].def.body
     THEN /\ symbols' = ParamDecls(cursor, syntax[cursor].def)
          /\ blocks' = << <<>> >>
          /\ insert' = 1
          /\ frames' = <<NewFrame("FuncBody", 0)>>
     ELSE UNCHANGED <<symbols, blocks, insert, frames>>
  /\ UNCHANGED <<syntax, values, module, status>>

BeginFunction ==
  /\ frames = <<>> /\ Reading("Func")
  /\ cursor' = cursor + 1
  /\ IF syntax[cursor].def.body
     THEN /\ functions' = functions \cup {cursor}
          /\ symbols' = ParamDecls(cursor, syntax[cursor].def)
          /\ blocks' = << <<>> >>
          /\ insert' = 1
          /\ frames' = <<NewFrame("FuncBody", 0)>>
     ELSE UNCHANGED <<functions, symbols, blocks, insert, frames>>
  /\ UNCHANGED <<syntax, values, module, status>>

\* Mutation of EndFunction: a missing return is not supplied.
EndFunctionOpen ==
  /\ At(frames, {"FuncEnd"}) /\ Reading("EndFunc")
  /\ cursor' = cursor + 1
  /\ module' = Append(module, [def |-> frames[1].node, blocks |-> blocks])
  /\ frames' = <<>> /\ symbols' = {} /\ blocks' = <<>> /\ insert' = 0
  /\ UNCHANGED <<syntax, values, functions, status>>

\* A missing return is supplied, whatever the type of the function.
EndFunction ==
  /\ At(frames, {"FuncEnd"}) /\ Reading("EndFunc")
  /\ cursor' = cursor + 1
  /\ LET body == IF HasTerminator(blocks[insert])
                 THEN blocks ELSE Put(<<Instr("ret", <<"i32">>)>>)
     IN  module' = Append(module, [def |-> frames[1].node, blocks |-> body])
  /\ frames' = <<>> /\ symbols' = {} /\ blocks' = <<>> /\ insert' = 0
  /\ UNCHANGED <<syntax, values, functions, status>>

Finish ==
  /\ status = "running" /\ frames = <<>> /\ cursor > Len(syntax)
  /\ status' = "done"
  /\ UNCHANGED <<syntax, cursor, frames, values, symbols, functions, blocks, insert, module>>

-----------------------------------------------------------------------------
(* Statements (CodegenStmt)                                                *)

VisitStmt(kind) == At(frames, StmtPoints) /\ Reading(kind) /\ cursor' = cursor + 1

VisitExpOf(kind, pc) ==
  /\ VisitStmt(kind)
  /\ frames' = Enter(frames, NewFrame(pc, 0))
  /\ UNCHANGED <<syntax, values, symbols, functions, blocks, insert, module, status>>

VisitReturn   == VisitExpOf("Return", "ReturnExp")
VisitCallStmt == VisitExpOf("CallStmt", "CallExp")
VisitIf       == VisitExpOf("If", "IfCond")
VisitSeq      == VisitExpOf("Seq", "Seq")

\* The location is looked up before the rvalue is generated.
VisitAssign ==
  IF Reading("Assign") /\ ~(/\ syntax[cursor].decl \in symbols
                            /\ syntax[cursor].decl.kind = "kLocal")
  THEN At(frames, StmtPoints) /\ Abort
  ELSE VisitExpOf("Assign", "AssignExp")

\* Mutation of VisitDecl: only variables with an initial value are recorded.
VisitDeclUnrecorded ==
  /\ VisitStmt("Decl")
  /\ LET node == syntax[cursor]
         decl == LocalDecl(cursor, node.name, node.type)
     IN  /\ blocks' = [blocks EXCEPT ![1] = <<Access("alloca", <<>>, decl)>> \o @]
         /\ symbols' = IF node.init THEN symbols \cup {decl} ELSE symbols
         /\ frames' = IF node.init THEN Enter(frames, NewFrame("DeclInit", 0)) ELSE Resume(frames)
  /\ UNCHANGED <<syntax, values, functions, insert, module, status>>

\* Mutation of VisitDecl: the alloca goes where the declaration stands.
VisitDeclInPlace ==
  /\ VisitStmt("Decl")
  /\ LET node == syntax[cursor]
         decl == LocalDecl(cursor, node.name, node.type)
     IN  /\ blocks' = Put(<<Access("alloca", <<>>, decl)>>)
         /\ symbols' = symbols \cup {decl}
         /\ frames' = IF node.init THEN Enter(frames, NewFrame("DeclInit", 0)) ELSE Resume(frames)
  /\ UNCHANGED <<syntax, values, functions, insert, module, status>>

\* The alloca goes to the front of the entry block.
VisitDecl ==
  /\ VisitStmt("Decl")
  /\ LET node == syntax[cursor]
         decl == LocalDecl(cursor, node.name, node.type)
     IN  /\ blocks' = [blocks EXCEPT ![1] = <<Access("alloca", <<>>, decl)>> \o @]
         /\ symbols' = symbols \cup {decl}
         /\ frames' = IF node.init THEN Enter(frames, NewFrame("DeclInit", 0)) ELSE Resume(frames)
  /\ UNCHANGED <<syntax, values, functions, insert, module, status>>

\* The loop head is a block of its own; the condition is generated in it.
VisitWhile ==
  /\ VisitStmt("While")
  /\ LET loop == Len(blocks) + 1 IN
     /\ blocks' = Append(Put(<<Jump("br", <<>>, <<loop>>)>>), <<>>)
     /\ insert' = loop
     /\ frames' = Enter(frames, NewFrame("WhileCond", loop))
  /\ UNCHANGED <<syntax, values, symbols, functions, module, status>>

EndVisit(points, mark) ==
  /\ At(frames, points) /\ Reading(mark)
  /\ cursor' = cursor + 1
  /\ UNCHANGED <<syntax, values, symbols, functions, module, status>>

EndSeq ==
  /\ EndVisit({"Seq"}, "EndSeq")
  /\ frames' = Front(frames)
  /\ UNCHANGED <<blocks, insert>>

VisitElse ==
  /\ EndVisit({"ThenEnd"}, "Else") /\ Last(frames).els # 0
  /\ blocks' = BranchUnlessTerminated(Last(frames).join)
  /\ insert' = Last(frames).els
  /\ frames' = SetPc(frames, "IfElse")

EndIf ==
  /\ \/ EndVisit({"ThenEnd"}, "EndIf") /\ Last(frames).els = 0
     \/ EndVisit({"ElseEnd"}, "EndIf")
  /\ blocks' = BranchUnlessTerminated(Last(frames).join)
  /\ insert' = Last(frames).join
  /\ frames' = Front(frames)

\* Mutation of EndWhile: the branch goes back to the body.
EndWhileToBody ==
  /\ EndVisit({"BodyEnd"}, "EndWhile")
  /\ blocks' = Put(<<Jump("br", <<>>, <<Last(frames).join - 1>>)>>)
  /\ insert' = Last(frames).join
  /\ frames' = Front(frames)

\* The branch back is appended even to a block that has a terminator.
EndWhile ==
  /\ EndVisit({"BodyEnd"}, "EndWhile")
  /\ blocks' = Put(<<Jump("br", <<>>, <<Last(frames).loop>>)>>)
  /\ insert' = Last(frames).join
  /\ frames' = Front(frames)

-----------------------------------------------------------------------------
(* Expressions (CodegenExp)                                                *)

VisitExp(kind) == At(frames, ExpPoints) /\ Reading(kind)

\* One more value, and the instructions that compute it.
Generate(vals, instrs) ==
  /\ values' = vals
  /\ blocks' = Put(instrs)
  /\ cursor' = cursor + 1
  /\ UNCHANGED <<syntax, frames, symbols, functions, insert, module, status>>

\* Mutations of VisitConst and VisitVarExp: the type is not converted.
VisitConstSourceType ==
  VisitExp("Const") /\ Generate(Append(values, syntax[cursor].type), <<>>)

VisitVarExpSourceType ==
  /\ VisitExp("Var")
  /\ LET decl == syntax[cursor].decl IN
     IF decl \in symbols
     THEN Generate(Append(values, decl.type),
                   IF decl.kind = "kLocal" THEN <<Access("load", <<>>, decl)>> ELSE <<>>)
     ELSE Abort

VisitConst ==
  VisitExp("Const") /\ Generate(Append(values, ConvertType(syntax[cursor].type)), <<>>)

VisitVarExp ==
  /\ VisitExp("Var")
  /\ LET decl == syntax[cursor].decl IN
     IF decl \in symbols
     THEN Generate(Append(values, ConvertType(decl.type)),
                   IF decl.kind = "kLocal" THEN <<Access("load", <<>>, decl)>> ELSE <<>>)
     ELSE Abort

Arith   == {"+", "-", "*", "/", "%"}
Compare == {"==", "!=", "<", "<=", ">", ">="}

\* A call is taken for a builtin by its name alone: the instruction, and the
\* type of its value, for the types of the arguments.
MinArgs(name) == IF name \in InfixOps \ {"-"} THEN 2 ELSE 1

BuiltinInstr(name, args) ==
  CASE name \in Arith   -> Instr("binary", <<args[1], args[Len(args)]>>)
    [] name \in Compare -> Instr("icmp", <<args[1], args[2]>>)
    [] name = "!"       -> Instr("icmp", <<args[1], "i1">>)
    [] name = "bool"    -> Instr("icmp", <<args[1], "i32">>)
    [] name = "&&"      -> Instr("select", <<args[1], args[2], "i1">>)
    [] name = "||"      -> Instr("select", <<args[1], "i1", args[2]>>)
    [] name = "int"     -> Instr("zext", <<args[1]>>)

BuiltinType(name, args) ==
  CASE name \in Arith -> args[1]
    [] name = "int"   -> "i32"
    [] name = "&&"    -> args[2]
    [] OTHER          -> "i1"

\* Mutation of VisitCallExp: the function is found by its signature, and the
\* last one with that signature is called.
LastAlike(f) ==
  Max({g \in functions : /\ syntax[g].def.name = syntax[f].def.name
                         /\ ParamTypes(syntax[g].def) = ParamTypes(syntax[f].def)})

VisitCallExpLastAlike ==
  /\ VisitExp("Call") /\ syntax[cursor].args <= Len(values)
  /\ LET node  == syntax[cursor]
         first == Len(values) - node.args
         args  == SubSeq(values, first + 1, Len(values))
         rest  == SubSeq(values, 1, first)
     IN  CASE node.name \in OperatorNames /\ node.args >= MinArgs(node.name) ->
                Generate(Append(rest, BuiltinType(node.name, args)),
                         IF node.name = "int" /\ args[1] = "i32"
                         THEN <<>> ELSE <<BuiltinInstr(node.name, args)>>)
           [] node.name \notin OperatorNames /\ node.def \in functions ->
                Generate(Append(rest, ConvertType(syntax[node.def].def.ret)),
                         <<Call(args, LastAlike(node.def))>>)
           [] OTHER -> Abort

VisitCallExp ==
  /\ VisitExp("Call") /\ syntax[cursor].args <= Len(values)
  /\ LET node  == syntax[cursor]
         first == Len(values) - node.args
         args  == SubSeq(values, first + 1, Len(values))
         rest  == SubSeq(values, 1, first)
     IN  CASE node.name \in OperatorNames /\ node.args >= MinArgs(node.name) ->
                Generate(Append(rest, BuiltinType(node.name, args)),
                         IF node.name = "int" /\ args[1] = "i32"
                         THEN <<>> ELSE <<BuiltinInstr(node.name, args)>>)
           [] node.name \notin OperatorNames /\ node.def \in functions ->
                Generate(Append(rest, ConvertType(syntax[node.def].def.ret)),
                         <<Call(args, node.def)>>)
           [] OTHER -> Abort

(* The value of a complete expression goes to the statement around it.     *)
EndExp(pc) ==
  /\ At(frames, {pc}) /\ Reading("EndExp") /\ values # <<>>
  /\ cursor' = cursor + 1
  /\ values' = <<>>
  /\ UNCHANGED <<syntax, symbols, functions, module, status>>

EndStmtExp(pc, instrs) ==
  /\ EndExp(pc)
  /\ blocks' = Put(instrs)
  /\ frames' = Front(frames)
  /\ UNCHANGED insert

EndCallStmt == EndStmtExp("CallExp", <<>>)
EndReturn   == EndStmtExp("ReturnExp", <<Instr("ret", <<values[1]>>)>>)
EndAssign   == EndStmtExp("AssignExp", <<Access("store", <<values[1]>>, syntax[Last(frames).node].decl)>>)

\* Mutation of EndDeclInit: the initial value is not stored.
EndDeclInitUnstored == EndStmtExp("DeclInit", <<>>)

EndDeclInit ==
  LET k == Last(frames).node IN
  EndStmtExp("DeclInit", <<Access("store", <<values[1]>>,
                                  LocalDecl(k, syntax[k].name, syntax[k].type))>>)

\* Mutation of CondBranch: the blocks are taken for each other.
CondBranchReversed(to) ==
  IF ExpType(syntax[cursor - 1]) = "bool"
  THEN <<Jump("condbr", <<values[1]>>, Reverse(to))>>
  ELSE <<Instr("icmp", <<values[1], "i32">>), Jump("condbr", <<"i1">>, Reverse(to))>>

\* Mutation of CondBranch: an int is taken for a condition.
CondBranchUncompared(to) == <<Jump("condbr", <<values[1]>>, to)>>

\* codegenCondExp and the conditional branch: an int is compared with zero.
CondBranch(to) ==
  IF ExpType(syntax[cursor - 1]) = "bool"
  THEN <<Jump("condbr", <<values[1]>>, to)>>
  ELSE <<Instr("icmp", <<values[1], "i32">>), Jump("condbr", <<"i1">>, to)>>

\* Mutation of EndIfCond: the branch passes over the else block.
EndIfCondPastElse ==
  /\ EndExp("IfCond")
  /\ LET else == syntax[Last(frames).node].else
         then == Len(blocks) + 1
         els  == IF else THEN then + 1 ELSE 0
         join == IF else THEN then + 2 ELSE then + 1
     IN  /\ blocks' = Put(CondBranch(<<then, join>>))
                        \o [b \in 1 .. IF else THEN 3 ELSE 2 |-> <<>>]
         /\ insert' = then
         /\ frames' = [frames EXCEPT ![Len(frames)] =
                         [@ EXCEPT !.pc = "IfThen", !.els = els, !.join = join]]

EndIfCond ==
  /\ EndExp("IfCond")
  /\ LET else == syntax[Last(frames).node].else
         then == Len(blocks) + 1
         els  == IF else THEN then + 1 ELSE 0
         join == IF else THEN then + 2 ELSE then + 1
     IN  /\ blocks' = Put(CondBranch(<<then, IF else THEN els ELSE join>>))
                        \o [b \in 1 .. IF else THEN 3 ELSE 2 |-> <<>>]
         /\ insert' = then
         /\ frames' = [frames EXCEPT ![Len(frames)] =
                         [@ EXCEPT !.pc = "IfThen", !.els = els, !.join = join]]

EndWhileCond ==
  /\ EndExp("WhileCond")
  /\ LET body == Len(blocks) + 1
         join == Len(blocks) + 2
     IN  /\ blocks' = Put(CondBranch(<<body, join>>)) \o << <<>>, <<>> >>
         /\ insert' = body
         /\ frames' = [frames EXCEPT ![Len(frames)] =
                         [@ EXCEPT !.pc = "WhileBody", !.join = join]]

-----------------------------------------------------------------------------
NextStmt ==
  \/ VisitReturn \/ VisitCallStmt \/ VisitIf \/ VisitSeq \/ VisitAssign \/ VisitDecl
  \/ VisitWhile \/ EndSeq \/ VisitElse \/ EndIf \/ EndWhile
  \/ EndCallStmt \/ EndReturn \/ EndAssign \/ EndDeclInit \/ EndIfCond \/ EndWhileCond

NextExp == VisitConst \/ VisitVarExp \/ VisitCallExp

Next == BeginFunction \/ EndFunction \/ NextStmt \/ NextExp \/ Finish

\* Codegen has returned, or the process is gone.
Returned == status # "running" /\ UNCHANGED vars

Spec == Init /\ [][Next \/ Returned]_vars

-----------------------------------------------------------------------------
TypeOK ==
  /\ syntax \in Seq(Nodes)
  /\ cursor \in Nat \ {0}
  /\ frames \in Seq(Frames)
  /\ values \in Seq(IRTypes)
  /\ symbols \subseteq VarDecls
  /\ functions \subseteq Nat
  /\ blocks \in Seq(Blocks)
  /\ insert \in Nat
  /\ module \in Seq([def : Nat, blocks : Seq(Blocks)])
  /\ status \in {"running", "done", "aborted"}

-----------------------------------------------------------------------------
(* When the generated code is good, said of the source program alone.      *)

\* Nodes for which nothing is appended at the insertion point.
Inert(node) ==
  node.n \in {"Seq", "EndSeq"} \/ (node.n = "Decl" /\ ~node.init)

Following(k, Test(_)) == SelectInSubSeq(syntax, k, Len(syntax), Test)

\* The first node after the return statement at k that generates code.
Follower(k) ==
  Following(Following(k, LAMBDA node : node.n = "EndExp") + 1, LAMBDA node : ~Inert(node))

FunctionEnd(f) == Following(f, LAMBDA node : node.n = "EndFunc")

ReturnsIn(f) == {k \in f .. FunctionEnd(f) : syntax[k].n = "Return"}

\* The nodes before which the code of a return was the last to be generated.
Followers(f) == {Follower(k) : k \in ReturnsIn(f)}

\* The mark at j is that of the else branch of the if that ends at e.
Ifs(m, from, to) == Cardinality({k \in from .. to : syntax[k].n = m})

ElseOf(j, e) ==
  /\ j < e /\ syntax[j].n = "Else"
  /\ Ifs("EndIf", j, e) = Ifs("If", j, e) + 1
  /\ \A i \in j .. e : Ifs("EndIf", i, e) > Ifs("If", i, e)

\* The ifs both of whose branches end in a return.
ReturningIfs(f) ==
  {e \in Followers(f) : syntax[e].n = "EndIf" /\ \E j \in Followers(f) : ElseOf(j, e)}

\* A return is the last statement of a branch or of the function, and the
\* body of a bool function ends in a return.
Clean(f) ==
  /\ \A k \in Followers(f) : syntax[k].n \in {"Else", "EndIf", "EndFunc"}
  /\ syntax[f].def.ret = "bool" => FunctionEnd(f) \in Followers(f)

NoUserOperators ==
  \A f \in DOMAIN syntax :
    syntax[f].n = "Func" /\ syntax[f].def.body => syntax[f].def.name \notin OperatorNames

\* Every call of an operator is linked to one that is a builtin, by its
\* name, its parameter types and its return type.
OperatorCallsAreBuiltin ==
  \A k \in DOMAIN syntax :
    syntax[k].n = "Call" /\ syntax[k].name \in OperatorNames =>
      LET def == syntax[syntax[k].def].def IN
      \E i \in DOMAIN GetBuiltins :
        /\ GetBuiltins[i].name = syntax[k].name /\ GetBuiltins[i].ret = def.ret
        /\ ParamTypes(GetBuiltins[i]) = ParamTypes(def)

Passes(function) ==
  Verified(function.blocks, syntax[function.def].def.ret, syntax)

(***************************************************************************)
(* Properties                                                              *)
(***************************************************************************)

(* However statements are nested, every block of a finished function ends  *)
(* in a terminator: no path through an if, a while or a missing return     *)
(* leaves a block open (Codegen.cpp:302-320, 341-347, 426-428).            *)
BlocksTerminated ==
  \A f \in DOMAIN module :
    \A b \in DOMAIN module[f].blocks : HasTerminator(module[f].blocks[b])

(* Branches go to blocks of the same function, never to the entry block.   *)
(* A block is entered by no branch only if it is the entry block, or joins *)
(* two branches that both end in a return: no other block is lost          *)
(* (Codegen.cpp:290-316, 326-347).                                         *)
BlocksAreConnected ==
  \A f \in DOMAIN module :
    LET bs == module[f].blocks
        targets == UNION {UNION {Range(bs[b][i].to) : i \in DOMAIN bs[b]} : b \in DOMAIN bs}
    IN  /\ targets \subseteq 2 .. Len(bs)
        /\ Len(bs) - Cardinality(targets) = 1 + Cardinality(ReturningIfs(module[f].def))

(* The storage of a variable that is accessed anywhere is allocated once,  *)
(* at the start of the entry block, ahead of every branch: also when the   *)
(* declaration stands in a loop, or is the branch of an if and is still in *)
(* scope after it (Codegen.cpp:252-258).                                   *)
StorageDominatesUses ==
  \A f \in DOMAIN module :
    LET bs == module[f].blocks
        AllocasOf(d) ==
          {p \in UNION {{b} \X DOMAIN bs[b] : b \in DOMAIN bs} :
             bs[p[1]][p[2]].op = "alloca" /\ bs[p[1]][p[2]].ref = d}
    IN  \A b \in DOMAIN bs : \A i \in DOMAIN bs[b] :
          bs[b][i].op \in {"load", "store"} =>
            \E j \in DOMAIN bs[1] :
              /\ AllocasOf(bs[b][i].ref) = {<<1, j>>}
              /\ \A k \in 1 .. j : bs[1][k].op = "alloca"

(* In a typechecked program that calls no operators of its own, the        *)
(* verifier accepts a function exactly when its source is clean: the types *)
(* that the typechecker has established are those of the instructions, and *)
(* returns are the only thing that can go wrong (main.cpp:122-123).        *)
VerifiedIffClean ==
  OperatorCallsAreBuiltin =>
    \A f \in DOMAIN module : Passes(module[f]) <=> Clean(module[f].def)

(* The types that the typechecker has established are those of the         *)
(* operands: in a finished function every instruction has operands of the  *)
(* types that it takes, every branch is on an i1, every call has arguments *)
(* of the types of the parameters.  The one exception is the return that   *)
(* is supplied at the end of a bool function, which returns an i32         *)
(* (Codegen.cpp:138-189, 268-273, 357-366, 426-428).                       *)
OperandsAreTyped ==
  OperatorCallsAreBuiltin =>
    \A f \in DOMAIN module :
      LET ret      == syntax[module[f].def].def.ret
          bs       == module[f].blocks
          illTyped == {p \in UNION {{b} \X DOMAIN bs[b] : b \in DOMAIN bs} :
                         ~ WellTyped(bs[p[1]][p[2]], ret, syntax)}
      IN  /\ ret = "int" => illTyped = {}
          /\ \A p \in illTyped : bs[p[1]][p[2]] = Instr("ret", <<"i32">>)
          /\ \A p, q \in illTyped : p = q

(* The verifier accepts every function of the module (main.cpp:122-123).   *)
ModuleVerifies == \A f \in DOMAIN module : Passes(module[f])

(* A call of a function that the program defines calls its code: in a      *)
(* finished module every definition is called as often as the source       *)
(* refers to it (Codegen.cpp:138-189; Token.h:114-116).                    *)
Refers(f) == {k \in DOMAIN syntax : syntax[k].n = "Call" /\ syntax[k].def = f}

CallsOf(f) ==
  UNION {UNION {{<<m, b, i>> : i \in
                   {j \in DOMAIN module[m].blocks[b] :
                      module[m].blocks[b][j].callee = f}}
                : b \in DOMAIN module[m].blocks} : m \in DOMAIN module}

DefinitionsAreCalled ==
  status = "done" =>
    \A f \in functions : Cardinality(CallsOf(f)) = Cardinality(Refers(f))

(* The links of the typechecker suffice: every declaration and definition  *)
(* that a node refers to has been processed before it, so that no lookup   *)
(* in m_symbols or m_functions fails (Codegen.cpp:110-112, 183-185).       *)
LookupsSucceed == status # "aborted"
=============================================================================
