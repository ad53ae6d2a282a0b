--------------------------- MODULE MCTypechecker ----------------------------
(* Instances of Typechecker for TLC.                                       *)
EXTENDS Typechecker

Param(x, t) == [name |-> x, type |-> t]

Fn(name, ret, params, body) ==
  [name |-> name, ret |-> ret, params |-> params, body |-> body]

\* One function with a parameter that its locals may shadow, and one whose
\* parameters collide.
ScopeDefs == {Fn("main", "int", <<Param("x", "int")>>, TRUE),
              Fn("f", "int", <<Param("x", "int"), Param("x", "bool")>>, TRUE)}

\* Overloads of f, a duplicate of one of them that differs in its return
\* type, a forward declaration, and a redefinition of a builtin.
CallDefs == {Fn("f", "int", <<Param("x", "int")>>, TRUE),
             Fn("f", "bool", <<Param("x", "int")>>, TRUE),
             Fn("f", "bool", <<Param("x", "bool")>>, FALSE),
             Fn("!", "int", <<Param("y", "bool")>>, TRUE),
             Fn("main", "int", <<>>, TRUE)}

AllDefs == ScopeDefs \cup CallDefs

MCBuiltins == <<Builtin("==", "bool", II), Builtin("==", "bool", BB),
                Builtin("!", "bool", <<"bool">>)>>

\* What the bodies of the former nest and declare, and of the latter call.
Kinds(def) ==
  IF def \in ScopeDefs THEN {"Seq", "Decl", "Assign", "If"} ELSE {"Return", "CallStmt", "While"}

Calls(def) == IF def \in ScopeDefs THEN {"=="} ELSE {"f", "==", "!"}
=============================================================================
