---------------------------- MODULE Typechecker -----------------------------
(***************************************************************************)
(* One run of Typecheck (Typechecker.cpp) over a program: functions are    *)
(* entered in the function table in order, and the body of each is visited *)
(* with a chain of scopes (Scope.h).  The program is chosen as it is       *)
(* visited: every visit of a node picks that node, so that the behaviours  *)
(* are the runs over all programs within the bounds.  The variable syntax  *)
(* holds the nodes visited so far, with the links that the typechecker has *)
(* stored in them.                                                         *)
(***************************************************************************)
EXTENDS Visitor, FiniteSets

CONSTANTS
  Builtins,     \* the builtin declarations, which are the first functions
  UserDefs,     \* the function definitions that user programs may contain
  StmtKinds(_), \* the statement kinds that the body of a function may contain
  CallNames(_), \* the function names that the body of a function may call
  MaxFuncs,     \* bound on the number of user functions
  MaxNodes,     \* bound on the nodes of a program (beyond it, only what is
                \* needed to complete the statements that are open)
  MaxArgs       \* bound on the pending arguments of calls

ASSUME TypecheckerAssumption ==
  /\ Builtins \in Seq(FuncDefs)
  /\ UserDefs \subseteq FuncDefs
  /\ MaxFuncs \in Nat /\ MaxNodes \in Nat /\ MaxArgs \in Nat

VARIABLES
  syntax,     \* the nodes visited so far
  funcTable,  \* m_funcTable: the functions entered so far, in order
  scopes,     \* m_scope and its chain of parents, innermost last
  frames,     \* the active Visit functions, innermost last
  types,      \* types of the visited expressions not yet consumed by a call
  status      \* "running", or the outcome of Typecheck

vars == <<syntax, funcTable, scopes, frames, types, status>>

Frames == [pc : ControlPoints, node : Nat, scope : Nat]

\* A scope is the set of its declarations (the values of m_map).
Scopes == SUBSET VarDecls

Init ==
  /\ syntax = <<>> /\ funcTable = <<>> /\ scopes = <<>>
  /\ frames = <<>> /\ types = <<>> /\ status = "running"

-----------------------------------------------------------------------------
(* Lookup                                                                  *)

\* Scope::Find: the innermost scope that declares the name decides.
Declares(scope, x) == \E d \in scope : d.name = x

Visible(x) == \E s \in DOMAIN scopes : Declares(scopes[s], x)

\* Mutation of Find: outer scopes first.
FindOutermost(x) ==
  LET s == SelectInSeq(scopes, LAMBDA scope : Declares(scope, x))
  IN  CHOOSE d \in scopes[s] : d.name = x

Find(x) ==
  LET s == SelectLastInSeq(scopes, LAMBDA scope : Declares(scope, x))
  IN  CHOOSE d \in scopes[s] : d.name = x

\* Mutation of FindFunc: the last definition is found.
FindLastFunc(name, args) ==
  SelectLastInSeq(funcTable, LAMBDA f : /\ syntax[f].def.name = name
                                        /\ ParamTypes(syntax[f].def) = args)

\* findFunc and argsMatch: the position in the function table of the first
\* definition with that name and those parameter types, 0 if there is none.
FindFunc(name, args) ==
  SelectInSeq(funcTable, LAMBDA f : /\ syntax[f].def.name = name
                                    /\ ParamTypes(syntax[f].def) = args)

-----------------------------------------------------------------------------
(* A TypeError unwinds every active Visit function; Typecheck returns -1.  *)
TypeError ==
  /\ status' = "error"
  /\ scopes' = <<>> /\ frames' = <<>> /\ types' = <<>>
  /\ UNCHANGED <<syntax, funcTable>>

(* Functions (checkFunction and the loop of Typecheck)                     *)

SameNameParams(def) ==
  \E i, j \in DOMAIN def.params : i # j /\ def.params[i].name = def.params[j].name

CheckFunction(def) ==
  /\ status = "running" /\ frames = <<>>
  /\ IF SameNameParams(def)
     THEN TypeError
     ELSE /\ syntax' = Append(syntax, [n |-> "Func", def |-> def])
          /\ funcTable' = Append(funcTable, Len(syntax) + 1)
          /\ IF def.body
             THEN /\ scopes' = <<ParamDecls(Len(syntax) + 1, def)>>
                  /\ frames' = <<[pc |-> "FuncBody", node |-> Len(syntax) + 1, scope |-> 1]>>
             ELSE UNCHANGED <<scopes, frames>>
          /\ UNCHANGED <<types, status>>

More == Len(syntax) < MaxNodes

NextFunction ==
  LET n == Len(funcTable) IN
  IF n < Len(Builtins)
  THEN CheckFunction(Builtins[n + 1])
  ELSE n < Len(Builtins) + MaxFuncs /\ More /\ \E def \in UserDefs : CheckFunction(def)

EndFunction ==
  /\ At(frames, {"FuncEnd"})
  /\ syntax' = Append(syntax, Mark("EndFunc"))
  /\ scopes' = <<>> /\ frames' = <<>>
  /\ UNCHANGED <<funcTable, types, status>>

\* A program has at least one user function.
Finish ==
  /\ status = "running" /\ frames = <<>>
  /\ Len(funcTable) > Len(Builtins)
  /\ status' = "ok"
  /\ UNCHANGED <<syntax, funcTable, scopes, frames, types>>

-----------------------------------------------------------------------------
(* Statements (StmtTypechecker)                                            *)

\* Only a sequence may be the body of a function or exceed the node bound.
MayVisit(kind) ==
  /\ At(frames, StmtPoints)
  /\ \/ kind = "Seq" /\ Last(frames).pc # "Seq"
     \/ /\ kind \in StmtKinds(syntax[frames[1].node].def)
        /\ More /\ Last(frames).pc # "FuncBody"

NewFrame(pc) == [pc |-> pc, node |-> Len(syntax) + 1, scope |-> Len(scopes)]

\* CallStmt, AssignStmt, ReturnStmt, IfStmt and WhileStmt first visit an
\* expression in the current scope.
VisitExpOf(kind, node, pc) ==
  /\ MayVisit(kind)
  /\ syntax' = Append(syntax, node)
  /\ frames' = Enter(frames, NewFrame(pc))
  /\ UNCHANGED <<funcTable, scopes, types, status>>

VisitCallStmt   == VisitExpOf("CallStmt", Mark("CallStmt"), "CallExp")
VisitAssign(x)  == VisitExpOf("Assign", [n |-> "Assign", name |-> x, decl |-> Null], "AssignExp")
VisitReturn     == VisitExpOf("Return", Mark("Return"), "ReturnExp")
VisitIf(else)   == VisitExpOf("If", [n |-> "If", else |-> else], "IfCond")
VisitWhile      == VisitExpOf("While", Mark("While"), "WhileCond")

\* The variable is in scope in its own initializer.
VisitDecl(x, t, init) ==
  /\ MayVisit("Decl")
  /\ IF Declares(Last(scopes), x)
     THEN TypeError
     ELSE /\ syntax' = Append(syntax, [n |-> "Decl", name |-> x, type |-> t, init |-> init])
          /\ scopes' = [scopes EXCEPT ![Len(scopes)] = @ \cup {LocalDecl(Len(syntax) + 1, x, t)}]
          /\ frames' = IF init THEN Enter(frames, NewFrame("DeclInit")) ELSE Resume(frames)
          /\ UNCHANGED <<funcTable, types, status>>

VisitSeq ==
  /\ MayVisit("Seq")
  /\ syntax' = Append(syntax, Mark("Seq"))
  /\ scopes' = Append(scopes, {})
  /\ frames' = Enter(frames, NewFrame("Seq"))
  /\ UNCHANGED <<funcTable, types, status>>

\* Mutation of EndSeq: the scope that was current stays so.
EndSeqInScope ==
  /\ At(frames, {"Seq"})
  /\ syntax' = Append(syntax, Mark("EndSeq"))
  /\ frames' = Front(frames)
  /\ UNCHANGED <<funcTable, scopes, types, status>>

\* The parent scope that the frame has saved becomes the current one again.
EndSeq ==
  /\ At(frames, {"Seq"})
  /\ syntax' = Append(syntax, Mark("EndSeq"))
  /\ scopes' = SubSeq(scopes, 1, Last(frames).scope)
  /\ frames' = Front(frames)
  /\ UNCHANGED <<funcTable, types, status>>

VisitElse ==
  /\ At(frames, {"ThenEnd"}) /\ syntax[Last(frames).node].else
  /\ syntax' = Append(syntax, Mark("Else"))
  /\ frames' = SetPc(frames, "IfElse")
  /\ UNCHANGED <<funcTable, scopes, types, status>>

EndStmt(pc, mark) ==
  /\ At(frames, {pc})
  /\ syntax' = Append(syntax, Mark(mark))
  /\ frames' = Front(frames)
  /\ UNCHANGED <<funcTable, scopes, types, status>>

EndIf ==
  \/ EndStmt("ThenEnd", "EndIf") /\ ~syntax[Last(frames).node].else
  \/ EndStmt("ElseEnd", "EndIf")

EndWhile == EndStmt("BodyEnd", "EndWhile")

-----------------------------------------------------------------------------
(* Expressions (ExpTypechecker)                                            *)

\* Bound on leaves: the first leaf of an expression is always possible.
MayPush == types = <<>> \/ (More /\ Len(types) < MaxArgs)

VisitConst(t) ==
  /\ At(frames, ExpPoints) /\ MayPush
  /\ syntax' = Append(syntax, [n |-> "Const", type |-> t])
  /\ types' = Append(types, t)
  /\ UNCHANGED <<funcTable, scopes, frames, status>>

\* Mutation of VisitVarExp: a name that is not found is no error.
VisitVarExpUnlinked(x) ==
  /\ At(frames, ExpPoints) /\ MayPush
  /\ LET decl == IF Visible(x) THEN Find(x) ELSE Null IN
     /\ syntax' = Append(syntax, [n |-> "Var", name |-> x, decl |-> decl])
     /\ types' = Append(types, IF Visible(x) THEN decl.type ELSE Null)
  /\ UNCHANGED <<funcTable, scopes, frames, status>>

VisitVarExp(x) ==
  /\ At(frames, ExpPoints) /\ MayPush
  /\ IF Visible(x)
     THEN /\ syntax' = Append(syntax, [n |-> "Var", name |-> x, decl |-> Find(x)])
          /\ types' = Append(types, Find(x).type)
          /\ UNCHANGED <<funcTable, scopes, frames, status>>
     ELSE TypeError

MayCall(name, n) ==
  /\ n <= Len(types) /\ Callable(name, n)
  /\ n = 0 => MayPush
  /\ \/ n >= 2 \/ More
     \/ Last(frames).pc = "CallExp" /\ ~IsStmtCall(Last(syntax)) /\ name \notin OperatorNames

VisitCallExp(name, n) ==
  /\ At(frames, ExpPoints) /\ MayCall(name, n)
  /\ LET first == Len(types) - n
         pos   == FindFunc(name, SubSeq(types, first + 1, Len(types)))
     IN  IF pos = 0
         THEN TypeError
         ELSE LET f == funcTable[pos] IN
              /\ syntax' = Append(syntax, [n |-> "Call", name |-> name, args |-> n,
                                           type |-> syntax[f].def.ret, def |-> f])
              /\ types' = Append(SubSeq(types, 1, first), syntax[f].def.ret)
              /\ UNCHANGED <<funcTable, scopes, frames, status>>

(* The visited expression is complete, its Visit functions have returned.  *)
ExpDone(pc) == At(frames, {pc}) /\ Len(types) = 1

EndExp(fs) ==
  /\ syntax' = Append(syntax, Mark("EndExp"))
  /\ frames' = fs
  /\ types' = <<>>
  /\ UNCHANGED <<funcTable, scopes, status>>

\* A condition may have either type.
EndIfCond    == ExpDone("IfCond") /\ EndExp(SetPc(frames, "IfThen"))
EndWhileCond == ExpDone("WhileCond") /\ EndExp(SetPc(frames, "WhileBody"))
EndCallStmt  == ExpDone("CallExp") /\ IsStmtCall(Last(syntax)) /\ EndExp(Front(frames))

\* Mutation of EndReturn: a value of any type is returned.
EndReturnAnyType == ExpDone("ReturnExp") /\ EndExp(Front(frames))

EndReturn ==
  /\ ExpDone("ReturnExp")
  /\ IF types[1] = syntax[frames[1].node].def.ret THEN EndExp(Front(frames)) ELSE TypeError

EndDeclInit ==
  /\ ExpDone("DeclInit")
  /\ IF types[1] = syntax[Last(frames).node].type THEN EndExp(Front(frames)) ELSE TypeError

\* Mutation of EndAssign: the statement is not linked to the variable.
EndAssignUnlinked ==
  /\ ExpDone("AssignExp")
  /\ LET x == syntax[Last(frames).node].name IN
     IF Visible(x) /\ Find(x).type = types[1] /\ Find(x).kind = "kLocal"
     THEN EndExp(Front(frames))
     ELSE TypeError

\* Mutation of EndAssign: a parameter may be assigned to.
EndAssignToAny ==
  /\ ExpDone("AssignExp")
  /\ LET k == Last(frames).node
         x == syntax[k].name
     IN  IF Visible(x) /\ Find(x).type = types[1]
         THEN /\ syntax' = Append([syntax EXCEPT ![k].decl = Find(x)], Mark("EndExp"))
              /\ frames' = Front(frames)
              /\ types' = <<>>
              /\ UNCHANGED <<funcTable, scopes, status>>
         ELSE TypeError

\* Assignment to a parameter is prohibited.
EndAssign ==
  /\ ExpDone("AssignExp")
  /\ LET k == Last(frames).node
         x == syntax[k].name
     IN  IF Visible(x) /\ Find(x).type = types[1] /\ Find(x).kind = "kLocal"
         THEN /\ syntax' = Append([syntax EXCEPT ![k].decl = Find(x)], Mark("EndExp"))
              /\ frames' = Front(frames)
              /\ types' = <<>>
              /\ UNCHANGED <<funcTable, scopes, status>>
         ELSE TypeError

-----------------------------------------------------------------------------
VisitStmt ==
  \/ VisitCallStmt \/ VisitReturn \/ VisitWhile \/ VisitSeq
  \/ \E x \in VarNames : VisitAssign(x)
  \/ \E x \in VarNames, t \in Types, init \in BOOLEAN : VisitDecl(x, t, init)
  \/ \E else \in BOOLEAN : VisitIf(else)

VisitExp ==
  \/ \E t \in Types : VisitConst(t)
  \/ \E x \in VarNames : VisitVarExp(x)
  \/ /\ frames # <<>>
     /\ \E name \in FuncNames \cap CallNames(syntax[frames[1].node].def), n \in 0 .. MaxArgs :
          VisitCallExp(name, n)

EndVisit ==
  \/ EndSeq \/ VisitElse \/ EndIf \/ EndWhile \/ EndFunction
  \/ EndIfCond \/ EndWhileCond \/ EndCallStmt \/ EndReturn \/ EndDeclInit \/ EndAssign

Next == NextFunction \/ VisitStmt \/ VisitExp \/ EndVisit \/ Finish

\* Typecheck has returned.
Returned == status # "running" /\ UNCHANGED vars

Spec == Init /\ [][Next \/ Returned]_vars

-----------------------------------------------------------------------------
TypeOK ==
  /\ syntax \in Seq(Nodes)
  /\ funcTable \in Seq(Nat)
  /\ scopes \in Seq(Scopes)
  /\ frames \in Seq(Frames)
  /\ types \in Seq(Types)
  /\ status \in {"running", "ok", "error"}

-----------------------------------------------------------------------------
(* What lexical scoping means, said of the text of the program alone.      *)

Count(m, from, to) == Cardinality({k \in from .. to : syntax[k].n = m})

\* The sequence around the declaration at j is still open at position i.
Encloses(j, i) ==
  \A m \in j + 1 .. i - 1 : Count("EndSeq", j + 1, m) <= Count("Seq", j + 1, m)

FunctionAt(i) == SelectLastInSubSeq(syntax, 1, i - 1, LAMBDA node : node.n = "Func")

\* The declarations of x that position i is in the scope of: of nested ones
\* the last is the innermost, and locals hide parameters.
LocalsAt(x, i) ==
  {j \in FunctionAt(i) .. i - 1 :
     syntax[j].n = "Decl" /\ syntax[j].name = x /\ Encloses(j, i)}

DeclsAt(x, i) ==
  LET locals == LocalsAt(x, i)
      j      == Max(locals)
      f      == FunctionAt(i)
  IN  IF locals # {}
      THEN {LocalDecl(j, x, syntax[j].type)}
      ELSE {d \in ParamDecls(f, syntax[f].def) : d.name = x}

(***************************************************************************)
(* Properties                                                              *)
(***************************************************************************)

(* Whatever has been entered, shadowed and left so far, the chain of       *)
(* scopes resolves every name to its innermost enclosing declaration, and  *)
(* finds nothing when the text declares nothing (Scope.h:21-30, and the    *)
(* saving and restoring of m_scope in Typechecker.cpp:217-232).            *)
ScopeChainIsLexical ==
  frames # <<>> =>
    \A x \in VarNames :
      {Find(x) : y \in {z \in {x} : Visible(z)}} = DeclsAt(x, Len(syntax) + 1)

(* Once Typecheck has succeeded, every variable reference and assignment   *)
(* is linked to its innermost enclosing declaration, and no assignment has *)
(* been left unlinked: later passes need no scoping rules                  *)
(* (Typechecker.h:6-10, Typechecker.cpp:74-76 and 183-184).                *)
LinksAreLexical ==
  status = "ok" =>
    \A i \in DOMAIN syntax :
      syntax[i].n \in {"Var", "Assign"} => DeclsAt(syntax[i].name, i) = {syntax[i].decl}

(* A program that typechecks keeps the promise that code generation relies *)
(* on without asking: every name it looks up by a link has been declared   *)
(* before it in the same function, and assignments go to storage           *)
(* (Codegen.cpp:107-112, 180-185, 230-237; Typechecker.cpp:68-76, 174-184).*)
LinksSuffice == status = "ok" => WellLinked(syntax)

(* A call is never linked to a definition that an earlier definition with  *)
(* the same name and parameter types hides, nor to a later definition: the *)
(* multimap keeps the order of insertion (Typechecker.cpp:111-121,         *)
(* 275-277).                                                               *)
CallsLinkToFirstMatch ==
  \A i \in DOMAIN syntax : syntax[i].n = "Call" =>
    LET f == syntax[i].def IN
    /\ f < i /\ syntax[f].n = "Func" /\ syntax[f].def.name = syntax[i].name
    /\ \A g \in 1 .. f - 1 :
         ~ /\ syntax[g].n = "Func"
           /\ syntax[g].def.name = syntax[f].def.name
           /\ ParamTypes(syntax[g].def) = ParamTypes(syntax[f].def)

(* A Visit function that returns leaves m_scope as it found it, so that a  *)
(* declaration in a nested sequence can never outlive it                   *)
(* (Typechecker.cpp:219-231).                                              *)
VisitRestoresScope ==
  [][Len(frames') < Len(frames) /\ frames' # <<>>
       => scopes' = SubSeq(scopes, 1, Last(frames).scope)]_vars
=============================================================================
