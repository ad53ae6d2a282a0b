------------------------------- MODULE Parser -------------------------------
(***************************************************************************)
(* ParseProgram (Parser.cpp), a recursive descent parser with one token of *)
(* lookahead (TokenStream.h).  The C++ call stack is the sequence todo of  *)
(* what the active parse routines still have to do, the next first: a      *)
(* routine is entered by replacing its goal by the goals of its body.      *)
(*                                                                         *)
(* The nodes of the tree are appended in the order in which the later      *)
(* passes visit them (see Syntax), not yet decorated.  Two things are kept *)
(* in the tree for the properties alone: how a call was written, and, as a *)
(* node of its own, that the expression before it stood in parentheses.    *)
(*                                                                         *)
(* The text is chosen as it is read: Supply says which tokens may follow   *)
(* those that have been lexed.  Behind the end of the text there is no     *)
(* text: what the lexer finds there is undefined.                          *)
(***************************************************************************)
EXTENDS Printer, FiniteSets

CONSTANT Supply(_)

VARIABLES
  read,       \* the tokens that have been consumed
  lookahead,  \* the token that has been lexed, but not consumed
  todo,       \* the goals of the active parse routines, the next one first
  tree,       \* the nodes of the program
  status      \* "running", or the outcome of ParseProgram

vars == <<read, lookahead, todo, tree, status>>

-----------------------------------------------------------------------------
(* Nodes                                                                   *)

Forms == {"infix", "prefix", "args"}

TreeNodes ==
       [n : Marks \cup {"Paren"}]
  \cup [n : {"Func"}, def : FuncDefs]
  \cup [n : {"Decl"}, name : VarNames, type : Types, init : BOOLEAN]
  \cup [n : {"Assign"}, name : VarNames]
  \cup [n : {"If"}, else : BOOLEAN]
  \cup [n : {"Const"}, text : Tokens]
  \cup [n : {"Var"}, name : VarNames]
  \cup [n : {"Call"}, name : Tokens, args : Nat, form : Forms]

CallNode(name, n, form) == [n |-> "Call", name |-> name, args |-> n, form |-> form]

(* Goals                                                                   *)

Do(what)         == [do |-> what]
Skip(t, nodes)   == [do |-> "Skip", token |-> t, nodes |-> nodes]
Emit(node)       == [do |-> "Emit", node |-> node]
Program(start)   == [do |-> "Program", start |-> start]
FuncId(ret)      == [do |-> "FuncId", ret |-> ret]
OperatorId(ret)  == [do |-> "OperatorId", ret |-> ret]
ParamList(def)   == [do |-> "ParamList", def |-> def]
Body(def)        == [do |-> "Body", def |-> def]
VarDecl(def)     == [do |-> "VarDecl", of |-> def]
VarId(def, t)    == [do |-> "VarId", of |-> def, type |-> t]
Local(x, t)      == [do |-> "Local", name |-> x, type |-> t]
AssignOrCall(x)  == [do |-> "AssignOrCall", name |-> x]
Else(k)          == [do |-> "Else", if |-> k]
VarOrCall(x)     == [do |-> "VarOrCall", name |-> x]
Args(name)       == [do |-> "Args", name |-> name]
MoreArgs(f, n)   == [do |-> "MoreArgs", name |-> f, args |-> n]
Remaining(p)     == [do |-> "Remaining", prec |-> p]
RightOf(op)      == [do |-> "RightOf", op |-> op]

\* A parameter of a definition, or a local variable.
Owners == FuncDefs \cup {Null}

Precedences == 0 .. 6

Goals ==
       [do : {"FuncDef", "Seq", "Stmts", "Stmt", "Primary", "UnaryOp"}]
  \cup [do : {"Skip"}, token : Punctuation, nodes : Seq(TreeNodes)]
  \cup [do : {"Emit"}, node : TreeNodes]
  \cup [do : {"Program"}, start : Nat]
  \cup [do : {"FuncId", "OperatorId"}, ret : Types]
  \cup [do : {"ParamList", "Body"}, def : FuncDefs]
  \cup [do : {"VarDecl"}, of : Owners]
  \cup [do : {"VarId"}, of : Owners, type : Types]
  \cup [do : {"Local"}, name : VarNames, type : Types]
  \cup [do : {"AssignOrCall", "VarOrCall"}, name : Ids]
  \cup [do : {"Else"}, if : Nat]
  \cup [do : {"Args"}, name : Tokens]
  \cup [do : {"MoreArgs"}, name : Tokens, args : Nat]
  \cup [do : {"Remaining"}, prec : Precedences]
  \cup [do : {"RightOf"}, op : InfixOps]

\* parseExp: a primary expression, and what remains after it.
Exp == <<Do("Primary"), Remaining(0)>>

-----------------------------------------------------------------------------
Init ==
  /\ read = <<>> /\ lookahead \in Tokens \cap Supply(<<>>)
  /\ todo = <<Do("FuncDef"), Program(0)>>
  /\ tree = <<>> /\ status = "running"

\* ParseProgram is called with another text, for the same program.
Opened ==
  /\ read' = <<>> /\ lookahead' \in Tokens \cap Supply(<<>>)
  /\ todo' = <<Do("FuncDef"), Program(Len(tree))>>
  /\ status' = "running"
  /\ UNCHANGED tree

Doing(what) == status = "running" /\ Head(todo).do = what

\* The goal is replaced by others, and nodes are appended ...
Go(goals, nodes) ==
  /\ todo' = goals \o Tail(todo)
  /\ tree' = tree \o nodes
  /\ UNCHANGED <<read, lookahead, status>>

\* ... after the lookahead has been consumed.
Take(goals, nodes) ==
  /\ read' = Append(read, lookahead)
  /\ lookahead' \in Tokens \cap Supply(read')
  /\ todo' = goals \o Tail(todo)
  /\ tree' = tree \o nodes
  /\ UNCHANGED status

\* A ParseError: the routines are unwound, the program keeps the functions
\* that were complete.
ParseError ==
  /\ status' = "error"
  /\ todo' = <<>>
  /\ tree' = SubSeq(tree, 1, Last(todo).start)
  /\ UNCHANGED <<read, lookahead>>

\* The same for a token that has been consumed: the one that is lexed for it
\* is not looked at.
TakeError ==
  /\ read' = Append(read, lookahead)
  /\ status' = "error"
  /\ todo' = <<>>
  /\ tree' = SubSeq(tree, 1, Last(todo).start)
  /\ UNCHANGED lookahead

\* Mutation of SkipToken: any token is skipped.
SkipAnyToken ==
  Doing("Skip") /\ Take(<<>>, Head(todo).nodes)

SkipToken ==
  /\ Doing("Skip")
  /\ IF lookahead = Head(todo).token THEN Take(<<>>, Head(todo).nodes) ELSE TakeError

EmitNode == Doing("Emit") /\ Go(<<>>, <<Head(todo).node>>)

-----------------------------------------------------------------------------
(* Functions                                                               *)

\* parseType, for the return type.
ParseFuncDef ==
  /\ Doing("FuncDef")
  /\ IF lookahead \in Types THEN Take(<<FuncId(lookahead)>>, <<>>) ELSE TakeError

Signature(name, ret) ==
  <<Skip("(", <<>>), ParamList([name |-> name, ret |-> ret, params |-> <<>>, body |-> FALSE])>>

ParseFuncId ==
  /\ Doing("FuncId")
  /\ LET ret == Head(todo).ret IN
     CASE lookahead = "operator" -> Take(<<OperatorId(ret)>>, <<>>)
       [] lookahead \in Ids      -> Take(Signature(lookahead, ret), <<>>)
       [] OTHER                  -> TakeError

ParseOperatorId ==
  /\ Doing("OperatorId")
  /\ IF IsOperator(lookahead)
     THEN Take(Signature(lookahead, Head(todo).ret), <<>>)
     ELSE TakeError

\* Mutation of ParseParams: a closing parenthesis follows the first parameter.
ParseParamsOne ==
  /\ Doing("ParamList")
  /\ LET def == Head(todo).def IN
     IF lookahead = ")" THEN Take(<<Body(def)>>, <<>>)
     ELSE IF def.params = <<>> THEN Go(<<VarDecl(def)>>, <<>>)
     ELSE Go(<<Skip(")", <<>>), Body(def)>>, <<>>)

ParseParams ==
  /\ Doing("ParamList")
  /\ LET def == Head(todo).def IN
     IF lookahead = ")" THEN Take(<<Body(def)>>, <<>>)
     ELSE IF def.params = <<>> THEN Go(<<VarDecl(def)>>, <<>>)
     ELSE Go(<<Skip(",", <<>>), VarDecl(def)>>, <<>>)

ParseVarDecl ==
  /\ Doing("VarDecl")
  /\ IF lookahead \in Types
     THEN Take(<<VarId(Head(todo).of, lookahead)>>, <<>>)
     ELSE TakeError

\* Mutation of ParseVarId: any token is a name.
ParseVarIdAny ==
  /\ Doing("VarId")
  /\ LET def == Head(todo).of
         t   == Head(todo).type
     IN  Take(<<IF def = Null
                THEN Local(lookahead, t)
                ELSE ParamList([def EXCEPT !.params =
                               Append(@, [name |-> lookahead, type |-> t])])>>, <<>>)

ParseVarId ==
  /\ Doing("VarId")
  /\ LET def == Head(todo).of
         t   == Head(todo).type
     IN  IF lookahead \in Ids
         THEN Take(<<IF def = Null
                     THEN Local(lookahead, t)
                     ELSE ParamList([def EXCEPT !.params =
                                    Append(@, [name |-> lookahead, type |-> t])])>>, <<>>)
         ELSE TakeError

\* A definition need not have a body.
ParseBody ==
  /\ Doing("Body")
  /\ LET Func(body) == [n |-> "Func", def |-> [Head(todo).def EXCEPT !.body = body]] IN
     IF lookahead = "{"
     THEN Go(<<Do("Seq"), Emit(Mark("EndFunc"))>>, <<Func(TRUE)>>)
     ELSE Go(<<Skip(";", <<Func(FALSE)>>)>>, <<>>)

\* ParseProgram: the function is added to the program.
NextFuncDef ==
  /\ Doing("Program")
  /\ IF lookahead = EOF
     THEN /\ status' = "ok" /\ todo' = <<>>
          /\ UNCHANGED <<read, lookahead, tree>>
     ELSE Go(<<Do("FuncDef"), Program(Len(tree))>>, <<>>)

-----------------------------------------------------------------------------
(* Statements                                                              *)

ParseSeq == Doing("Seq") /\ Go(<<Skip("{", <<Mark("Seq")>>), Do("Stmts")>>, <<>>)

\* Mutation of ParseStmts: the end of the text is not a statement, either.
ParseStmtsForever ==
  /\ Doing("Stmts")
  /\ CASE lookahead = "}" -> Take(<<>>, <<Mark("EndSeq")>>)
       [] lookahead = EOF -> Go(<<Do("Stmts")>>, <<>>)
       [] OTHER           -> Go(<<Do("Stmt"), Do("Stmts")>>, <<>>)

ParseStmts ==
  /\ Doing("Stmts")
  /\ IF lookahead = "}"
     THEN Take(<<>>, <<Mark("EndSeq")>>)
     ELSE Go(<<Do("Stmt"), Do("Stmts")>>, <<>>)

End == Mark("EndExp")

Condition == <<Skip("(", <<>>)>> \o Exp \o <<Skip(")", <<End>>)>>

ParseStmt ==
  /\ Doing("Stmt")
  /\ CASE lookahead \in Ids   -> Take(<<AssignOrCall(lookahead)>>, <<>>)
       [] lookahead \in Types -> Go(<<VarDecl(Null)>>, <<>>)
       [] lookahead = "{"     -> Go(<<Do("Seq")>>, <<>>)
       [] lookahead = "return" -> Take(Exp \o <<Skip(";", <<End>>)>>, <<Mark("Return")>>)
       [] lookahead = "if"    -> Take(Condition \o <<Do("Stmt"), Else(Len(tree) + 1)>>,
                                      <<[n |-> "If", else |-> FALSE]>>)
       [] lookahead = "while" -> Take(Condition \o <<Do("Stmt"), Emit(Mark("EndWhile"))>>,
                                      <<Mark("While")>>)
       [] OTHER               -> ParseError

ParseAssignOrCall ==
  /\ Doing("AssignOrCall")
  /\ LET name == Head(todo).name IN
     IF lookahead = "="
     THEN Take(Exp \o <<Skip(";", <<End>>)>>, <<[n |-> "Assign", name |-> name]>>)
     ELSE Go(<<Args(name), Skip(";", <<End>>)>>, <<Mark("CallStmt")>>)

ParseLocal ==
  /\ Doing("Local")
  /\ LET Decl(init) == [n |-> "Decl", name |-> Head(todo).name,
                        type |-> Head(todo).type, init |-> init] IN
     IF lookahead = "="
     THEN Take(Exp \o <<Skip(";", <<End>>)>>, <<Decl(TRUE)>>)
     ELSE Go(<<Skip(";", <<>>)>>, <<Decl(FALSE)>>)

\* Mutation of ParseElse: the if statement is complete without else.
ParseElseLater ==
  /\ Doing("Else")
  /\ IF lookahead = "else" /\ Tail(todo)[1].do # "Else"
     THEN /\ read' = Append(read, lookahead)
          /\ lookahead' \in Tokens \cap Supply(read')
          /\ todo' = <<Do("Stmt"), Emit(Mark("EndIf"))>> \o Tail(todo)
          /\ tree' = Append([tree EXCEPT ![Head(todo).if].else = TRUE], Mark("Else"))
          /\ UNCHANGED status
     ELSE Go(<<>>, <<Mark("EndIf")>>)

\* The if statement turns out to have an else branch.
ParseElse ==
  /\ Doing("Else")
  /\ IF lookahead = "else"
     THEN /\ read' = Append(read, lookahead)
          /\ lookahead' \in Tokens \cap Supply(read')
          /\ todo' = <<Do("Stmt"), Emit(Mark("EndIf"))>> \o Tail(todo)
          /\ tree' = Append([tree EXCEPT ![Head(todo).if].else = TRUE], Mark("Else"))
          /\ UNCHANGED status
     ELSE Go(<<>>, <<Mark("EndIf")>>)

-----------------------------------------------------------------------------
(* Expressions                                                             *)

\* A parenthesis has to be opened twice, and closed once.
ParsePrimary ==
  /\ Doing("Primary")
  /\ CASE lookahead \in Nums \cup {"true", "false"} ->
            Take(<<>>, <<[n |-> "Const", text |-> lookahead]>>)
       [] lookahead \in Ids   -> Take(<<VarOrCall(lookahead)>>, <<>>)
       [] lookahead \in Types -> Take(<<Args(lookahead)>>, <<>>)
       [] lookahead = "("     -> Take(<<Skip("(", <<>>)>> \o Exp
                                        \o <<Skip(")", <<Mark("Paren")>>)>>, <<>>)
       [] lookahead = "-"     -> Take(<<Do("UnaryOp")>>, <<>>)
       [] OTHER               -> TakeError

ParseVarOrCall ==
  /\ Doing("VarOrCall")
  /\ LET name == Head(todo).name IN
     IF lookahead = "("
     THEN Go(<<Args(name)>>, <<>>)
     ELSE Go(<<>>, <<[n |-> "Var", name |-> name]>>)

\* The token after a prefix minus is taken for the operator, whatever it is.
ParseUnaryOp ==
  /\ Doing("UnaryOp")
  /\ Take(<<Do("Primary"), Emit(CallNode(lookahead, 1, "prefix"))>>, <<>>)

ParseArgs ==
  /\ Doing("Args")
  /\ Go(<<Skip("(", <<>>), MoreArgs(Head(todo).name, 0)>>, <<>>)

\* Mutation of ParseMoreArgs: the commas are counted.
ParseMoreArgsCommas ==
  /\ Doing("MoreArgs")
  /\ LET name == Head(todo).name
         n    == Head(todo).args
     IN  CASE n = 0 /\ lookahead # ")" -> Go(Exp \o <<MoreArgs(name, n + 1)>>, <<>>)
           [] n > 0 /\ lookahead = "," -> Take(Exp \o <<MoreArgs(name, 1)>>, <<>>)
           [] OTHER -> Go(<<Skip(")", <<CallNode(name, n, "args")>>)>>, <<>>)

ParseMoreArgs ==
  /\ Doing("MoreArgs")
  /\ LET name == Head(todo).name
         n    == Head(todo).args
     IN  CASE n = 0 /\ lookahead # ")" -> Go(Exp \o <<MoreArgs(name, n + 1)>>, <<>>)
           [] n > 0 /\ lookahead = "," -> Take(Exp \o <<MoreArgs(name, n + 1)>>, <<>>)
           [] OTHER -> Go(<<Skip(")", <<CallNode(name, n, "args")>>)>>, <<>>)

Precedence(t) ==
  CASE t \in {"*", "/"}             -> 5
    [] t \in {"%", "+", "-"}        -> 4
    [] t \in {"<", "<=", ">", ">="} -> 3
    [] t \in {"==", "!="}           -> 2
    [] t = "&&"                     -> 1
    [] t = "||"                     -> 0
    [] OTHER                        -> -1

\* parseRemainingExp: one turn of its loop, up to the right operand ...
ParseRemaining ==
  /\ Doing("Remaining")
  /\ IF Head(todo).prec > Precedence(lookahead)
     THEN Go(<<>>, <<>>)
     ELSE Take(<<Do("Primary"), RightOf(lookahead), Head(todo)>>, <<>>)

\* Mutation of ParseRightOf: operators of any precedence are left to the one
\* that claims the right operand.
ParseRightOfAny ==
  /\ Doing("RightOf")
  /\ LET op   == Head(todo).op
         call == Emit(CallNode(op, 2, "infix"))
     IN  IF Precedence(lookahead) > Precedence(op)
         THEN Go(<<Remaining(0), call>>, <<>>)
         ELSE Go(<<call>>, <<>>)

\* ... and from there: an operator of higher precedence claims it.
ParseRightOf ==
  /\ Doing("RightOf")
  /\ LET op   == Head(todo).op
         call == Emit(CallNode(op, 2, "infix"))
     IN  IF Precedence(lookahead) > Precedence(op)
         THEN Go(<<Remaining(Precedence(op) + 1), call>>, <<>>)
         ELSE Go(<<call>>, <<>>)

-----------------------------------------------------------------------------
ParseFunction ==
  \/ ParseFuncDef \/ ParseFuncId \/ ParseOperatorId \/ ParseParams
  \/ ParseVarDecl \/ ParseVarId \/ ParseBody \/ NextFuncDef

ParseStatement ==
  \/ ParseSeq \/ ParseStmts \/ ParseStmt \/ ParseAssignOrCall \/ ParseLocal \/ ParseElse

ParseExpression ==
  \/ ParsePrimary \/ ParseVarOrCall \/ ParseUnaryOp \/ ParseArgs \/ ParseMoreArgs
  \/ ParseRemaining \/ ParseRightOf

Next == SkipToken \/ EmitNode \/ ParseFunction \/ ParseStatement \/ ParseExpression

\* ParseProgram has returned.
Returned == status # "running" /\ UNCHANGED vars

\* Nothing but its own steps keeps the parser from going on.
Spec == Init /\ [][Next \/ Returned]_vars /\ WF_vars(Next)
-----------------------------------------------------------------------------
TypeOK ==
  /\ read \in Seq(Tokens)
  /\ lookahead \in Tokens
  /\ todo \in Seq(Goals)
  /\ tree \in Seq(TreeNodes)
  /\ status \in {"running", "ok", "error"}

-----------------------------------------------------------------------------
\* How tightly an operator binds as the documents have it (grammar.txt:52-75,
\* which has no rule for == and !=: they bind as in C, of which the language is
\* a subset, README.md:31) ...
BindsAs(op) ==
  CASE op \in {"*", "/", "%"}       -> 5
    [] op \in {"+", "-"}            -> 4
    [] op \in {"<", "<=", ">", ">="} -> 3
    [] op \in {"==", "!="}          -> 2
    [] op = "&&"                    -> 1
    [] OTHER                        -> 0

\* ... and what its operands are held to.  The code departs from the documents
\* for % (Parser.cpp:175), of which only that is asked that both have.
Asks(op) == IF op = "%" THEN BindsAs("+") ELSE BindsAs(op)

\* How tightly the operands that no call has taken yet bind, if every call so
\* far had operands that bind tightly enough.
Primary == 6
Loose   == <<-1>>

Binding(levels, node) ==
  LET n == Len(levels) IN
  IF levels = Loose THEN levels
  ELSE CASE node.n \in {"Const", "Var"} -> Append(levels, Primary)
         [] node.n = "Paren"            -> [levels EXCEPT ![n] = Primary]
         [] node.n = "Call" /\ node.form = "args" ->
              Append(SubSeq(levels, 1, n - node.args), Primary)
         [] node.n = "Call" /\ node.form = "prefix" ->
              IF levels[n] = Primary THEN levels ELSE Loose
         [] node.n = "Call" /\ node.form = "infix" ->
              IF levels[n - 1] >= Asks(node.name) /\ levels[n] > Asks(node.name)
              THEN Append(SubSeq(levels, 1, n - 2), BindsAs(node.name))
              ELSE Loose
         [] OTHER -> <<>>

\* The if statement that the mark at e ends.
IfOf(e) ==
  SelectLastInSubSeq([k \in DOMAIN tree |->
      /\ tree[k].n = "If"
      /\ Cardinality({i \in k .. e : tree[i].n = "If"})
           = Cardinality({i \in k .. e : tree[i].n = "EndIf"})], 1, e, LAMBDA matches : matches)

\* The marks from e to i end one statement inside the other.
EndTogether(e, i) == \A k \in e .. i : tree[k].n \in {"EndIf", "EndWhile"}

(***************************************************************************)
(* Properties                                                              *)
(***************************************************************************)

(* An accepted program is, token by token, what its tree says: nothing is  *)
(* skipped, doubled, left over, or put in another order, whatever          *)
(* alternatives were chosen with one token of lookahead                    *)
(* (TokenStream.h:5-10, Parser.cpp:386-389).                               *)
TreeIsTheText ==
  status = "ok" =>
    Append(Text(tree, TRUE), EOF) = Append(read, lookahead)

(* Every operator takes the operands that bind tighter by the documented   *)
(* levels, and at equal level the left one: over any sequence of operators *)
(* the loop and its recursion leave no operator with a looser operand      *)
(* (Parser.cpp:130-134; grammar.txt:52-75).  The operands of % are only    *)
(* asked to bind as those of + must, which is what the code makes of it.   *)
PrecedenceClimbs ==
  status = "ok" => FoldLeft(Binding, <<>>, tree) # Loose

(* An else belongs to the nearest if that can take it: no branch that an   *)
(* else follows ends in an if without one (Parser.cpp:297-301).            *)
ElseIsNearest ==
  \A i \in DOMAIN tree : i < Len(tree) /\ tree[i + 1].n = "Else" =>
    \A e \in 1 .. i : tree[e].n = "EndIf" /\ EndTogether(e, i) => tree[IfOf(e)].else

(* The parser never goes on after it has consumed the end of the text,     *)
(* where the lexer would read on behind its terminating null: an error     *)
(* that ends the parser is the last that happens to it, and the prefix     *)
(* minus, which takes any token for its operator, is the only exception    *)
(* (Parser.cpp:88; TokenStream.h:14-15).                                   *)
StopsAtEnd ==
  \A i \in DOMAIN read : read[i] = EOF =>
    \/ i = Len(read) /\ status = "error"
    \/ i > 1 /\ read[i - 1] = "-"

(* The dump of a program that is written without operators, parentheses    *)
(* and bodiless declarations is that program: nothing that a pass could    *)
(* see is lost in it (main.cpp:238-245).                                   *)
IsPlain(node) ==
  /\ node.n # "Paren"
  /\ node.n = "Call" => node.form = "args"
  /\ node.n = "Func" => node.def.body /\ ~IsOperator(node.def.name)

DumpIsTheText ==
  status = "ok" /\ (\A i \in DOMAIN tree : IsPlain(tree[i])) => Printed(tree) = read

(* Whatever the text, the parser comes to an end of it: no loop over       *)
(* statements, parameters or arguments goes on at the end of the text      *)
(* (Parser.cpp:108, 141, 324, 360, 389).                                   *)
Terminates == <>(status # "running")
=============================================================================
