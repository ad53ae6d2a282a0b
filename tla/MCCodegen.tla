----------------------------- MODULE MCCodegen ------------------------------
(* Instances of Codegen for TLC: programs put together from statements.    *)
EXTENDS Codegen

Decls == <<Builtin("<", "bool", II), Builtin("+", "int", II)>>
Less == 1
Plus == 2

\* The function under test: its parameter c, and a local v declared first.
F == Len(Decls) + 1
Opening(ret) ==
  <<[n |-> "Func", def |-> [name |-> "main", ret |-> ret, body |-> TRUE,
                            params |-> <<[name |-> "c", type |-> ret]>>]],
    Mark("Seq"), [n |-> "Decl", name |-> "v", type |-> "int", init |-> FALSE]>>
V == LocalDecl(F + 2, "v", "int")

C(ret) == CHOOSE d \in ParamDecls(F, Opening(ret)[1].def) : TRUE

VarOf(d) == [n |-> "Var", name |-> d.name, decl |-> d]
CallOf(f) == [n |-> "Call", name |-> Decls[f].name, args |-> 2, type |-> Decls[f].ret, def |-> f]

\* v < v, and v + v.
Test == <<VarOf(V), VarOf(V), CallOf(Less)>>
Sum  == <<VarOf(V), VarOf(V), CallOf(Plus)>>

Stmt(node, exp) == <<node>> \o exp \o <<Mark("EndExp")>>

Ret(ret) == Stmt(Mark("Return"), <<VarOf(C(ret))>>)
Assign   == Stmt([n |-> "Assign", name |-> "v", decl |-> V], Sum)
Inits    == Stmt([n |-> "Decl", name |-> "w", type |-> "int", init |-> TRUE],
                 <<[n |-> "Const", type |-> "int"]>>)
NoInit   == <<[n |-> "Decl", name |-> "w", type |-> "bool", init |-> FALSE]>>

Recur(ret) == Stmt(Mark("CallStmt"),
                   <<VarOf(C(ret)), [n |-> "Call", name |-> "main", args |-> 1, type |-> ret, def |-> F]>>)

If(ret, s)        == Stmt([n |-> "If", else |-> FALSE], <<VarOf(C(ret))>>) \o s \o <<Mark("EndIf")>>
IfElse(ret, s, t) == Stmt([n |-> "If", else |-> TRUE], Test) \o s \o <<Mark("Else")>> \o t \o <<Mark("EndIf")>>
While(s)     == Stmt(Mark("While"), Test) \o s \o <<Mark("EndWhile")>>
Seq1(s)      == <<Mark("Seq")>> \o s \o <<Mark("EndSeq")>>

Nest(ret, stmts) ==
       stmts
  \cup {If(ret, s) : s \in stmts} \cup {While(s) : s \in stmts}
  \cup {IfElse(ret, s, t) : s, t \in stmts}
  \cup {Seq1(<<>>)} \cup {Seq1(s \o t) : s, t \in stmts}

Program(ret, s) ==
  [i \in DOMAIN Decls |-> [n |-> "Func", def |-> Decls[i]]]
    \o Opening(ret) \o s \o <<Mark("EndSeq"), Mark("EndFunc")>>

Leaves(ret) == {Ret(ret), Assign, Inits, NoInit}

\* All programs of two levels of nesting, and of one level and a statement.
NestedPrograms ==
  UNION {LET one == Nest(ret, Leaves(ret))
             two == Nest(ret, one) IN
         {Program(ret, s) : s \in two}
           \cup {Program(ret, s \o t) : s \in one, t \in {Ret(ret), Recur(ret)}} : ret \in Types}

-----------------------------------------------------------------------------
(* Programs that the documentation and the assertions say are compiled.    *)

\* A bool function whose last statement is an if with no else.
MissingReturn == {Program("bool", If("bool", Ret("bool")))}

\* A forward declaration, called by the function that follows it.
Forward == [name |-> "f", ret |-> "int", params |-> <<>>, body |-> FALSE]

CallOfForward ==
  { <<[n |-> "Func", def |-> Forward],
      [n |-> "Func", def |-> [Forward EXCEPT !.name = "main", !.body = TRUE]],
      Mark("Seq"), Mark("Return"),
      [n |-> "Call", name |-> "f", args |-> 0, type |-> "int", def |-> 1],
      Mark("EndExp"), Mark("EndSeq"), Mark("EndFunc")>> }

\* bool operator+(bool x, bool y), called by the function that follows it.
Or == [name |-> "+", ret |-> "bool", body |-> TRUE,
       params |-> <<[name |-> "x", type |-> "bool"], [name |-> "y", type |-> "bool"]>>]

True == [n |-> "Const", type |-> "bool"]

CallOfOperator ==
  { <<[n |-> "Func", def |-> Or], Mark("Seq"), Mark("Return"), True,
      Mark("EndExp"), Mark("EndSeq"), Mark("EndFunc"),
      [n |-> "Func", def |-> [Forward EXCEPT !.name = "main", !.ret = "bool", !.body = TRUE]],
      Mark("Seq"), Mark("Return"), True, True,
      [n |-> "Call", name |-> "+", args |-> 2, type |-> "bool", def |-> 1],
      Mark("EndExp"), Mark("EndSeq"), Mark("EndFunc")>> }
=============================================================================
