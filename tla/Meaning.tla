------------------------------ MODULE Meaning -------------------------------
(***************************************************************************)
(* What one call of a function of a typechecked program does, said of its  *)
(* source alone: the statements are executed in order, a condition decides *)
(* which of them, and a return ends the call (the language is a subset of  *)
(* C, README.md).  This is what code generation promises; Execution is     *)
(* shown to implement it.                                                  *)
(*                                                                         *)
(* Values are abstracted: a condition may have either outcome.  What can   *)
(* be observed of a call are its accesses to variables, its calls, the     *)
(* outcomes of its conditions, and its return.  Operands of && and || are  *)
(* both evaluated, as for any operator (Codegen.cpp:172).                  *)
(***************************************************************************)
EXTENDS Syntax, SequencesExt

VARIABLES
  syntax,   \* the program
  at,       \* the node to be executed next; 0 before the call
  defined,  \* the local variables that have a value
  event     \* what has been observed last

meaningVars == <<syntax, at, defined, event>>

Event(does) == [does |-> does, ref |-> Null, callee |-> 0, taken |-> FALSE]

Called       == Event("enter")
Load(d)      == [Event("load") EXCEPT !.ref = d]
Store(d)     == [Event("store") EXCEPT !.ref = d]
CallOf(f)    == [Event("call") EXCEPT !.callee = f]
Test(taken)  == [Event("test") EXCEPT !.taken = taken]
Returned     == Event("ret")

Init == at = 0 /\ defined = {} /\ event = Event("nothing")

-----------------------------------------------------------------------------
(* The structure of the source                                             *)

Nth(m, from, to) == Cardinality({k \in from .. to : syntax[k].n = m})

FirstAfter(k, Is(_)) == CHOOSE j \in k + 1 .. Len(syntax) :
                          Is(j) /\ \A i \in k + 1 .. j - 1 : ~Is(i)

\* The end of the if or while statement at k, or of the if around the mark at k.
EndIfOf(k, open) ==
  FirstAfter(k, LAMBDA j : syntax[j].n = "EndIf" /\ Nth("EndIf", k, j) = Nth("If", k, j) + open)

EndWhileOf(k) ==
  FirstAfter(k, LAMBDA j : syntax[j].n = "EndWhile" /\ Nth("EndWhile", k, j) = Nth("While", k, j))

ElseOf(k) ==
  FirstAfter(k, LAMBDA j : syntax[j].n = "Else" /\ Nth("If", k, j) = Nth("EndIf", k, j) + 1)

\* The while statement that ends at e.
WhileOf(e) ==
  Max({k \in 1 .. e : syntax[k].n = "While" /\ Nth("While", k, e) = Nth("EndWhile", k, e)})

\* The statement to which the expression that ends at k belongs.
StmtOf(k) == SelectLastInSubSeq(syntax, 1, k, LAMBDA node :
                node.n \in {"Return", "CallStmt", "Assign", "Decl", "If", "While"})

Stmt(k) == syntax[StmtOf(k)].n

\* The variable that the assignment or declaration at s gives a value to.
Target(s) ==
  IF syntax[s].n = "Assign" THEN syntax[s].decl ELSE LocalDecl(s, syntax[s].name, syntax[s].type)

-----------------------------------------------------------------------------
Executing == at \in DOMAIN syntax

Reads(k)   == syntax[k].n = "Var" /\ syntax[k].decl.kind = "kLocal"
Calls(k)   == syntax[k].n = "Call" /\ syntax[k].name \notin OperatorNames
Writes(k)  == syntax[k].n = "EndExp" /\ Stmt(k) \in {"Assign", "Decl"}
Tests(k)   == syntax[k].n = "EndExp" /\ Stmt(k) \in {"If", "While"}
Returns(k) == syntax[k].n = "EndFunc" \/ (syntax[k].n = "EndExp" /\ Stmt(k) = "Return")

\* Executing the node can be observed.
Observable(k) == Reads(k) \/ Calls(k) \/ Writes(k) \/ Tests(k) \/ Returns(k)

\* Behind the statement whose condition has failed, or at its else branch.
Otherwise(s) ==
  CASE syntax[s].n = "While" -> EndWhileOf(s) + 1
    [] syntax[s].n = "If"    -> (IF syntax[s].else THEN ElseOf(s) ELSE EndIfOf(s, 0)) + 1

\* Where the execution goes on.
Onward(k, taken) ==
  CASE Returns(k)               -> Len(syntax) + 1
    [] Tests(k) /\ ~taken       -> Otherwise(StmtOf(k))
    [] syntax[k].n = "Else"     -> EndIfOf(k, 1)
    [] syntax[k].n = "EndWhile" -> WhileOf(k)
    [] OTHER                    -> k + 1

\* A variable has a value from its initialization or assignment on, until its
\* declaration is executed again.
DefinedAfter(k) ==
  CASE syntax[k].n = "Decl" -> defined \ {Target(k)}
    [] Writes(k)            -> defined \cup {Target(StmtOf(k))}
    [] OTHER                -> defined

EventAt(k, taken) ==
  CASE Reads(k)   -> Load(syntax[k].decl)
    [] Calls(k)   -> CallOf(syntax[k].def)
    [] Writes(k)  -> Store(Target(StmtOf(k)))
    [] Tests(k)   -> Test(taken)
    [] Returns(k) -> Returned

-----------------------------------------------------------------------------
\* A function of the program is called.
CallFunction ==
  /\ at = 0
  /\ \E f \in DOMAIN syntax :
       syntax[f].n = "Func" /\ syntax[f].def.body /\ at' = f + 1
  /\ event' = Called
  /\ UNCHANGED <<syntax, defined>>

Proceed(taken) ==
  /\ at' = Onward(at, taken)
  /\ defined' = DefinedAfter(at)

Silently ==
  /\ Executing /\ ~Observable(at)
  /\ Proceed(FALSE)
  /\ UNCHANGED <<syntax, event>>

Observably ==
  /\ Executing /\ Observable(at)
  /\ \E taken \in BOOLEAN : Proceed(taken) /\ event' = EventAt(at, taken)
  /\ UNCHANGED syntax

Next == CallFunction \/ Silently \/ Observably

Spec == Init /\ [][Next]_meaningVars
=============================================================================
