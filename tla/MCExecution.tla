---------------------------- MODULE MCExecution -----------------------------
(* Instances of Execution for TLC: programs put together from statements.  *)
EXTENDS Execution, MCCodegen

(* Functions of two levels of nesting; one of the branches, or statements  *)
(* of a sequence, at the outer level is simple.                            *)
Outer(ret, stmts, simple) ==
       {If(ret, s) : s \in stmts} \cup {While(s) : s \in stmts}
  \cup {IfElse(ret, s, t) : s \in stmts, t \in simple}
  \cup {IfElse(ret, t, s) : s \in stmts, t \in simple}
  \cup {While(Seq1(s \o t)) : s \in stmts, t \in simple}

RunPrograms ==
  LET simple == {Assign, Inits, Ret("int")}
      one    == Nest("int", simple) \cup {While(Seq1(NoInit \o Assign))}
  IN  {Program("int", s \o Recur("int")) : s \in Outer("int", one, {Assign, Ret("int"), Inits})}
=============================================================================
