---------------------------- MODULE ParserProofs ----------------------------
(***************************************************************************)
(* Proofs about Parser, for every set of names and numbers and every text: *)
(* its type invariant, that nothing is read behind the end of the text,    *)
(* except after a minus sign, and that an else is given to the nearest if. *)
(***************************************************************************)
EXTENDS Parser, FiniteSetTheorems, TLAPS

\* ParseProgram itself waits below all other goals; the functions before the
\* current one remain in the tree.
Base(goals, nodes) ==
  /\ goals # <<>>
  /\ goals[Len(goals)].do = "Program" /\ goals[Len(goals)].start <= Len(nodes)

\* A prefix operator is expected only right after its minus sign.
AfterMinus(goals, text) ==
  \A i \in DOMAIN goals :
    goals[i].do = "UnaryOp" => i = 1 /\ text # <<>> /\ text[Len(text)] = "-"

\* An else branch is expected for an if statement.
HasIf(goal, nodes) ==
  goal.do = "Else" => goal.if \in DOMAIN nodes /\ nodes[goal.if].n = "If"

ElsesHaveIf(goals, nodes) == \A i \in DOMAIN goals : HasIf(goals[i], nodes)

IInv ==
  /\ TypeOK
  /\ status = "running" => Base(todo, tree)
  /\ AfterMinus(todo, read)
  /\ ElsesHaveIf(todo, tree)
  /\ StopsAtEnd

\* Goals that depend on nothing that was read or built before.
PlainGoals == {goal \in Goals : goal.do \notin {"UnaryOp", "Else", "Program"}}

-----------------------------------------------------------------------------
(* Types of goals, nodes and tokens                                        *)

LEMMA PlainGoalTypes ==
  /\ \A what \in {"FuncDef", "Seq", "Stmts", "Stmt", "Primary"} : Do(what) \in PlainGoals
  /\ \A t \in Punctuation, nodes \in Seq(TreeNodes) : Skip(t, nodes) \in PlainGoals
  /\ \A node \in TreeNodes : Emit(node) \in PlainGoals
  /\ \A t \in Types : FuncId(t) \in PlainGoals /\ OperatorId(t) \in PlainGoals
  /\ \A def \in FuncDefs : ParamList(def) \in PlainGoals /\ Body(def) \in PlainGoals
  /\ \A of \in Owners : VarDecl(of) \in PlainGoals
  /\ \A of \in Owners, t \in Types : VarId(of, t) \in PlainGoals
  /\ \A x \in VarNames, t \in Types : Local(x, t) \in PlainGoals
  /\ \A x \in Ids : AssignOrCall(x) \in PlainGoals /\ VarOrCall(x) \in PlainGoals
  /\ \A f \in Tokens : Args(f) \in PlainGoals
  /\ \A f \in Tokens, n \in Nat : MoreArgs(f, n) \in PlainGoals
  /\ \A p \in Precedences : Remaining(p) \in PlainGoals
  /\ \A op \in InfixOps : RightOf(op) \in PlainGoals
<1>1. \A what \in {"FuncDef", "Seq", "Stmts", "Stmt", "Primary"} : Do(what) \in PlainGoals
  BY DEF Do, PlainGoals, Goals
<1>2. \A t \in Punctuation, nodes \in Seq(TreeNodes) : Skip(t, nodes) \in PlainGoals
  BY DEF Skip, PlainGoals, Goals
<1>3. \A node \in TreeNodes : Emit(node) \in PlainGoals
  BY DEF Emit, PlainGoals, Goals
<1>4. \A t \in Types : FuncId(t) \in PlainGoals /\ OperatorId(t) \in PlainGoals
  BY DEF FuncId, OperatorId, PlainGoals, Goals
<1>5. \A def \in FuncDefs : ParamList(def) \in PlainGoals /\ Body(def) \in PlainGoals
  BY DEF ParamList, Body, PlainGoals, Goals
<1>6. \A of \in Owners : VarDecl(of) \in PlainGoals
  BY DEF VarDecl, PlainGoals, Goals
<1>7. \A of \in Owners, t \in Types : VarId(of, t) \in PlainGoals
  BY DEF VarId, PlainGoals, Goals
<1>8. \A x \in VarNames, t \in Types : Local(x, t) \in PlainGoals
  BY DEF Local, PlainGoals, Goals
<1>9. \A x \in Ids : AssignOrCall(x) \in PlainGoals /\ VarOrCall(x) \in PlainGoals
  BY DEF AssignOrCall, VarOrCall, PlainGoals, Goals
<1>10. \A f \in Tokens : Args(f) \in PlainGoals
  BY DEF Args, PlainGoals, Goals
<1>11. \A f \in Tokens, n \in Nat : MoreArgs(f, n) \in PlainGoals
  BY DEF MoreArgs, PlainGoals, Goals
<1>12. \A p \in Precedences : Remaining(p) \in PlainGoals
  BY DEF Remaining, PlainGoals, Goals
<1>13. \A op \in InfixOps : RightOf(op) \in PlainGoals
  BY DEF RightOf, PlainGoals, Goals
<1>. QED
  BY <1>1, <1>2, <1>3, <1>4, <1>5, <1>6, <1>7, <1>8, <1>9, <1>10, <1>11, <1>12, <1>13

(* What a goal of some kind has.                                           *)
LEMMA GoalFields ==
  ASSUME NEW g \in Goals
  PROVE  /\ g.do = "Skip" => g.token \in Punctuation /\ g.nodes \in Seq(TreeNodes)
         /\ g.do = "Emit" => g.node \in TreeNodes
         /\ g.do = "Program" => g.start \in Nat
         /\ g.do \in {"FuncId", "OperatorId"} => g.ret \in Types
         /\ g.do \in {"ParamList", "Body"} => g.def \in FuncDefs
         /\ g.do \in {"VarDecl", "VarId"} => g.of \in Owners
         /\ g.do \in {"VarId", "Local"} => g.type \in Types
         /\ g.do = "Local" => g.name \in VarNames
         /\ g.do \in {"AssignOrCall", "VarOrCall"} => g.name \in Ids
         /\ g.do = "Else" => g.if \in Nat
         /\ g.do \in {"Args", "MoreArgs"} => g.name \in Tokens
         /\ g.do = "MoreArgs" => g.args \in Nat
         /\ g.do = "Remaining" => g.prec \in Precedences
         /\ g.do = "RightOf" => g.op \in InfixOps
BY DEF Goals

LEMMA NodeTypes ==
  /\ \A m \in Marks \cup {"Paren"} : Mark(m) \in TreeNodes
  /\ \A def \in FuncDefs : [n |-> "Func", def |-> def] \in TreeNodes
  /\ \A x \in VarNames, t \in Types, init \in BOOLEAN :
       [n |-> "Decl", name |-> x, type |-> t, init |-> init] \in TreeNodes
  /\ \A x \in VarNames : [n |-> "Assign", name |-> x] \in TreeNodes
  /\ \A else \in BOOLEAN : [n |-> "If", else |-> else] \in TreeNodes
  /\ \A t \in Tokens : [n |-> "Const", text |-> t] \in TreeNodes
  /\ \A x \in VarNames : [n |-> "Var", name |-> x] \in TreeNodes
  /\ \A f \in Tokens, n \in Nat, form \in Forms : CallNode(f, n, form) \in TreeNodes
<1>1. \A m \in Marks \cup {"Paren"} : Mark(m) \in TreeNodes
  BY DEF Mark, TreeNodes
<1>2. \A def \in FuncDefs : [n |-> "Func", def |-> def] \in TreeNodes
  BY DEF TreeNodes
<1>3. \A x \in VarNames, t \in Types, init \in BOOLEAN :
        [n |-> "Decl", name |-> x, type |-> t, init |-> init] \in TreeNodes
  BY DEF TreeNodes
<1>4. \A x \in VarNames : [n |-> "Assign", name |-> x] \in TreeNodes
  BY DEF TreeNodes
<1>5. \A else \in BOOLEAN : [n |-> "If", else |-> else] \in TreeNodes
  BY DEF TreeNodes
<1>6. \A t \in Tokens : [n |-> "Const", text |-> t] \in TreeNodes
  BY DEF TreeNodes
<1>7. \A x \in VarNames : [n |-> "Var", name |-> x] \in TreeNodes
  BY DEF TreeNodes
<1>8. \A f \in Tokens, n \in Nat, form \in Forms : CallNode(f, n, form) \in TreeNodes
  BY DEF CallNode, TreeNodes
<1>. QED  BY <1>1, <1>2, <1>3, <1>4, <1>5, <1>6, <1>7, <1>8

(* An if statement remains one when it gets an else branch.                *)
LEMMA ElseKeepsIf ==
  ASSUME NEW node \in TreeNodes, node.n = "If"
  PROVE  [node EXCEPT !.else = TRUE] \in TreeNodes /\ [node EXCEPT !.else = TRUE].n = "If"
BY DEF TreeNodes

(* The marks, keywords and punctuation that the parser names.              *)
LEMMA NamedTokens ==
  /\ Ids \subseteq Tokens /\ Ids \subseteq VarNames /\ Ids \subseteq FuncNames
  /\ Types \subseteq Tokens /\ OperatorNames \subseteq FuncNames
  /\ InfixOps \subseteq Tokens
  /\ EOF \notin Ids /\ EOF \notin Nums /\ EOF \notin Types /\ EOF \notin Punctuation
  /\ EOF \notin OperatorNames /\ EOF \notin InfixOps
BY TokensAssumption DEF Tokens, Types, Keywords, Operators, Punctuation, InfixOps,
   OperatorNames, EOF

-----------------------------------------------------------------------------
(* Steps                                                                   *)

(* The goals that replace the first one come before the others.            *)
LEMMA Replaced ==
  ASSUME NEW S, NEW goals \in Seq(S), NEW old \in Seq(S), old # <<>>
  PROVE  LET new == goals \o Tail(old) IN
         /\ new \in Seq(S)
         /\ Len(new) = Len(goals) + Len(old) - 1
         /\ \A i \in 1 .. Len(goals) : new[i] = goals[i]
         /\ \A i \in 2 .. Len(old) : new[Len(goals) + i - 1] = old[i]
         /\ \A i \in Len(goals) + 1 .. Len(new) :
              /\ i - Len(goals) + 1 \in 2 .. Len(old)
              /\ new[i] = old[i - Len(goals) + 1]
<1>1. Tail(old) \in Seq(S) /\ Len(Tail(old)) = Len(old) - 1
  OBVIOUS
<1>2. \A i \in 1 .. Len(old) - 1 : Tail(old)[i] = old[i + 1]
  OBVIOUS
<1>. QED  BY <1>1, <1>2

\* Goals that may replace the first one when the nodes are appended; minus says
\* whether a minus sign is read before.
Ready(goals, nodes, minus) ==
  /\ goals \in Seq(Goals)
  /\ \A i \in DOMAIN goals : goals[i].do = "UnaryOp" => i = 1 /\ minus
  /\ ElsesHaveIf(goals, tree \o nodes)

LEMMA PlainIsReady ==
  ASSUME NEW goals \in Seq(PlainGoals), NEW nodes, NEW minus
  PROVE  Ready(goals, nodes, minus)
<1>1. \A i \in DOMAIN goals : goals[i] \in PlainGoals
  OBVIOUS
<1>2. goals \in Seq(Goals)
  BY DEF PlainGoals
<1>. QED  BY <1>1, <1>2 DEF PlainGoals, Ready, ElsesHaveIf, HasIf

(* What the invariant says of the goals and nodes after a step that        *)
(* replaces the first goal; the text may have become longer.               *)
LEMMA GoalsKeep ==
  ASSUME IInv, status = "running",
         NEW goals, NEW nodes \in Seq(TreeNodes), NEW minus, Ready(goals, nodes, minus),
         Head(todo).do # "Program" \/ Base(goals, tree),
         NEW text \in Seq(Tokens), minus => text # <<>> /\ text[Len(text)] = "-"
  PROVE  LET new == goals \o Tail(todo) IN
         /\ new \in Seq(Goals) /\ tree \o nodes \in Seq(TreeNodes)
         /\ Base(new, tree \o nodes)
         /\ AfterMinus(new, text)
         /\ ElsesHaveIf(new, tree \o nodes)
<1>. DEFINE new == goals \o Tail(todo)
<1>1. /\ goals \in Seq(Goals) /\ todo \in Seq(Goals) /\ tree \in Seq(TreeNodes)
      /\ todo # <<>> /\ todo[Len(todo)].do = "Program" /\ todo[Len(todo)].start <= Len(tree)
  BY DEF IInv, TypeOK, Base, Ready
<1>2. Len(todo) >= 2 \/ (Len(todo) = 1 /\ Base(goals, tree))
  <2>1. Len(todo) \in Nat /\ Len(todo) >= 1 /\ Head(todo) = todo[1]
    BY <1>1
  <2>2. Len(todo) = 1 => Head(todo).do = "Program"
    BY <1>1, <2>1
  <2>3. Len(todo) = 1 => Base(goals, tree)
    BY <2>2
  <2>4. \A n \in Nat : n >= 1 => n >= 2 \/ n = 1
    OBVIOUS
  <2>. QED  BY <2>1, <2>3, <2>4
<1>3. /\ new \in Seq(Goals) /\ Len(new) = Len(goals) + Len(todo) - 1
      /\ \A i \in 1 .. Len(goals) : new[i] = goals[i]
      /\ \A i \in 2 .. Len(todo) : new[Len(goals) + i - 1] = todo[i]
      /\ \A i \in Len(goals) + 1 .. Len(new) :
           i - Len(goals) + 1 \in 2 .. Len(todo) /\ new[i] = todo[i - Len(goals) + 1]
  BY <1>1, Replaced
<1>4. tree \o nodes \in Seq(TreeNodes) /\ Len(tree) <= Len(tree \o nodes)
  BY <1>1
<1>5. \A k \in DOMAIN tree : k \in DOMAIN (tree \o nodes) /\ (tree \o nodes)[k] = tree[k]
  BY <1>1
<1>. HIDE DEF new
<1>6. Base(new, tree \o nodes)
  <2>. DEFINE last == new[Len(new)]
  <2>1. last \in Goals /\ new # <<>>
    BY <1>1, <1>2, <1>3 DEF Base
  <2>2. last.do = "Program" /\ last.start <= Len(tree)
    <3>1. CASE Len(todo) >= 2
      <4>1. last = todo[Len(todo)]
        BY <1>1, <1>3, <3>1
      <4>. QED  BY <1>1, <4>1
    <3>2. CASE Len(todo) = 1 /\ Base(goals, tree)
      <4>1. last = goals[Len(goals)]
        BY <1>1, <1>3, <3>2 DEF Base
      <4>. QED  BY <3>2, <4>1 DEF Base
    <3>. QED  BY <1>2, <3>1, <3>2
  <2>. HIDE DEF last
  <2>3. last.start \in Nat
    BY <2>1, <2>2, GoalFields
  <2>4. Len(tree) \in Nat /\ Len(tree \o nodes) \in Nat
    BY <1>1, <1>4
  <2>5. last.start <= Len(tree \o nodes)
    BY <1>4, <2>2, <2>3, <2>4
  <2>. QED  BY <2>1, <2>2, <2>5 DEF Base, last
<1>7. \A i \in DOMAIN new : i \in 1 .. Len(goals) \/ i \in Len(goals) + 1 .. Len(new)
  BY <1>1, <1>3
<1>8. AfterMinus(new, text)
  <2>. SUFFICES ASSUME NEW i \in DOMAIN new, new[i].do = "UnaryOp"
                PROVE  i = 1 /\ text # <<>> /\ text[Len(text)] = "-"
    BY DEF AfterMinus
  <2>1. CASE i \in 1 .. Len(goals)
    <3>1. new[i] = goals[i] /\ i \in DOMAIN goals
      BY <1>1, <1>3, <2>1
    <3>. QED  BY <3>1 DEF Ready
  <2>2. CASE i \in Len(goals) + 1 .. Len(new)
    <3>1. i - Len(goals) + 1 \in DOMAIN todo /\ i - Len(goals) + 1 # 1
      BY <1>1, <1>3, <2>2
    <3>2. todo[i - Len(goals) + 1].do # "UnaryOp"
      BY <3>1 DEF IInv, AfterMinus
    <3>. QED  BY <1>3, <2>2, <3>2
  <2>. QED  BY <1>7, <2>1, <2>2
<1>9. ElsesHaveIf(new, tree \o nodes)
  <2>. SUFFICES ASSUME NEW i \in DOMAIN new
                PROVE  HasIf(new[i], tree \o nodes)
    BY DEF ElsesHaveIf
  <2>1. CASE i \in 1 .. Len(goals)
    <3>1. new[i] = goals[i] /\ i \in DOMAIN goals
      BY <1>1, <1>3, <2>1
    <3>. QED  BY <3>1 DEF Ready, ElsesHaveIf
  <2>2. CASE i \in Len(goals) + 1 .. Len(new)
    <3>1. i - Len(goals) + 1 \in 2 .. Len(todo) /\ new[i] = todo[i - Len(goals) + 1]
      BY <1>3, <2>2
    <3>2. i - Len(goals) + 1 \in DOMAIN todo
      BY <1>1, <3>1
    <3>3. HasIf(new[i], tree)
      BY <3>1, <3>2 DEF IInv, ElsesHaveIf
    <3>. QED  BY <1>5, <3>3 DEF HasIf
  <2>. QED  BY <1>7, <2>1, <2>2
<1>. QED  BY <1>3, <1>4, <1>6, <1>8, <1>9 DEF new

(* Nothing is read behind the end if the next token is not the end, or an  *)
(* error is reported, or a minus sign comes before it.                     *)
LEMMA ReadKeeps ==
  ASSUME IInv, status = "running", read' = Append(read, lookahead),
         \/ lookahead # EOF \/ status' = "error"
         \/ Head(todo).do = "UnaryOp" /\ todo # <<>>
  PROVE  read' \in Seq(Tokens) /\ StopsAtEnd'
<1>1. read \in Seq(Tokens) /\ lookahead \in Tokens
  BY DEF IInv, TypeOK
<1>2. /\ read' \in Seq(Tokens) /\ Len(read') = Len(read) + 1
      /\ read'[Len(read) + 1] = lookahead /\ \A i \in DOMAIN read : read'[i] = read[i]
  BY <1>1
<1>. SUFFICES ASSUME NEW i \in DOMAIN read', read'[i] = EOF, ~(i = Len(read') /\ status' = "error")
              PROVE  i > 1 /\ read'[i - 1] = "-"
  BY <1>2 DEF StopsAtEnd
<1>3. CASE i \in DOMAIN read
  <2>1. read[i] = EOF
    BY <1>2, <1>3
  <2>2. i > 1 /\ read[i - 1] = "-"
    BY <1>3, <2>1 DEF IInv, StopsAtEnd
  <2>3. i - 1 \in DOMAIN read
    BY <1>1, <1>3, <2>2
  <2>. QED  BY <1>2, <2>2, <2>3
<1>4. CASE i \notin DOMAIN read
  <2>1. i = Len(read) + 1 /\ Len(read) \in Nat
    BY <1>1, <1>2, <1>4
  <2>2. Head(todo).do = "UnaryOp" /\ todo # <<>>
    BY <1>2, <2>1
  <2>3. 1 \in DOMAIN todo /\ todo[1] = Head(todo)
    BY <2>2 DEF IInv, TypeOK
  <2>4. read # <<>> /\ read[Len(read)] = "-"
    BY <2>2, <2>3 DEF IInv, AfterMinus
  <2>. QED  BY <1>1, <1>2, <2>1, <2>4
<1>. QED  BY <1>2, <1>3, <1>4

(* Goals are replaced, and nothing is read.                                *)
LEMMA GoReadyKeeps ==
  ASSUME IInv, status = "running", NEW goals, NEW nodes \in Seq(TreeNodes),
         Ready(goals, nodes, FALSE), Head(todo).do # "Program" \/ Base(goals, tree),
         Go(goals, nodes)
  PROVE  IInv'
<1>2. read \in Seq(Tokens)
  BY DEF IInv, TypeOK
<1>3. LET new == goals \o Tail(todo) IN
      /\ new \in Seq(Goals) /\ tree \o nodes \in Seq(TreeNodes)
      /\ Base(new, tree \o nodes) /\ AfterMinus(new, read) /\ ElsesHaveIf(new, tree \o nodes)
  BY <1>2, GoalsKeep
<1>4. /\ todo' = goals \o Tail(todo) /\ tree' = tree \o nodes
      /\ read' = read /\ lookahead' = lookahead /\ status' = status
  BY DEF Go
<1>5. TypeOK'
  BY <1>3, <1>4 DEF IInv, TypeOK
<1>6. StopsAtEnd'
  BY <1>4 DEF IInv, StopsAtEnd
<1>7. Base(todo', tree') /\ AfterMinus(todo', read') /\ ElsesHaveIf(todo', tree')
  BY <1>3, <1>4
<1>. QED  BY <1>5, <1>6, <1>7 DEF IInv

LEMMA GoKeeps ==
  ASSUME IInv, status = "running", Head(todo).do # "Program",
         NEW goals \in Seq(PlainGoals), NEW nodes \in Seq(TreeNodes), Go(goals, nodes)
  PROVE  IInv'
<1>1. Ready(goals, nodes, FALSE)
  BY PlainIsReady
<1>. QED  BY <1>1, GoReadyKeeps

(* A token is consumed that is not the end, or after a minus sign.         *)
LEMMA TakeReadyKeeps ==
  ASSUME IInv, status = "running", Head(todo).do # "Program",
         lookahead # EOF \/ Head(todo).do = "UnaryOp",
         NEW goals, NEW nodes \in Seq(TreeNodes), Ready(goals, nodes, lookahead = "-"),
         Take(goals, nodes)
  PROVE  IInv'
<1>1. /\ todo' = goals \o Tail(todo) /\ tree' = tree \o nodes
      /\ read' = Append(read, lookahead) /\ lookahead' \in Tokens /\ status' = status
  BY DEF Take
<1>2. todo # <<>> /\ read \in Seq(Tokens) /\ lookahead \in Tokens
  BY DEF IInv, TypeOK, Base
<1>3. read' \in Seq(Tokens) /\ StopsAtEnd'
  BY <1>1, <1>2, ReadKeeps
<1>4. lookahead = "-" => read' # <<>> /\ read'[Len(read')] = "-"
  BY <1>1, <1>2
<1>5. LET new == goals \o Tail(todo) IN
      /\ new \in Seq(Goals) /\ tree \o nodes \in Seq(TreeNodes)
      /\ Base(new, tree \o nodes) /\ AfterMinus(new, read') /\ ElsesHaveIf(new, tree \o nodes)
  BY <1>3, <1>4, GoalsKeep
<1>6. TypeOK'
  BY <1>1, <1>3, <1>5 DEF IInv, TypeOK
<1>7. Base(todo', tree') /\ AfterMinus(todo', read') /\ ElsesHaveIf(todo', tree')
  BY <1>1, <1>5
<1>. QED  BY <1>3, <1>6, <1>7 DEF IInv

LEMMA TakeKeeps ==
  ASSUME IInv, status = "running", Head(todo).do # "Program",
         lookahead # EOF \/ Head(todo).do = "UnaryOp",
         NEW goals \in Seq(PlainGoals), NEW nodes \in Seq(TreeNodes), Take(goals, nodes)
  PROVE  IInv'
<1>1. Ready(goals, nodes, lookahead = "-")
  BY PlainIsReady
<1>. QED  BY <1>1, TakeReadyKeeps

(* When the parser gives up, the complete functions remain.                *)
LEMMA ErrorKeeps ==
  ASSUME IInv, status = "running", ParseError \/ TakeError
  PROVE  IInv'
<1>1. /\ status' = "error" /\ todo' = <<>> /\ lookahead' = lookahead
      /\ tree' = SubSeq(tree, 1, todo[Len(todo)].start)
      /\ read' = read \/ read' = Append(read, lookahead)
  BY DEF ParseError, TakeError, Last
<1>2. /\ todo \in Seq(Goals) /\ todo # <<>> /\ todo[Len(todo)].do = "Program"
      /\ todo[Len(todo)].start <= Len(tree) /\ tree \in Seq(TreeNodes)
  BY DEF IInv, TypeOK, Base
<1>3. todo[Len(todo)].start \in Nat
  <2>1. Len(todo) \in DOMAIN todo
    BY <1>2
  <2>. QED  BY <1>2, <2>1, GoalFields
<1>4. tree' \in Seq(TreeNodes)
  BY <1>1, <1>2, <1>3
<1>5. TypeOK'
  <2>1. read \in Seq(Tokens) /\ lookahead \in Tokens
    BY DEF IInv, TypeOK
  <2>2. read' \in Seq(Tokens) /\ lookahead' \in Tokens
    BY <1>1, <2>1
  <2>3. todo' \in Seq(Goals) /\ status' \in {"running", "ok", "error"}
    BY <1>1
  <2>. QED  BY <1>4, <2>2, <2>3 DEF TypeOK
<1>6. StopsAtEnd'
  <2>1. CASE read' = read
    BY <1>1, <2>1 DEF IInv, StopsAtEnd
  <2>2. CASE read' = Append(read, lookahead)
    BY <1>1, <2>2, ReadKeeps
  <2>. QED  BY <1>1, <2>1, <2>2
<1>7. AfterMinus(todo', read') /\ ElsesHaveIf(todo', tree')
  BY <1>1 DEF AfterMinus, ElsesHaveIf
<1>. QED  BY <1>1, <1>5, <1>6, <1>7 DEF IInv

(* Short sequences of goals or nodes.                                      *)
LEMMA Empty == <<>> \in Seq(TreeNodes) /\ <<>> \in Seq(PlainGoals)
OBVIOUS

LEMMA Short ==
  ASSUME NEW S, NEW a \in S, NEW b \in S, NEW c \in S
  PROVE  <<a>> \in Seq(S) /\ <<a, b>> \in Seq(S) /\ <<a, b, c>> \in Seq(S)
OBVIOUS

LEMMA Concat ==
  ASSUME NEW S, NEW s \in Seq(S), NEW t \in Seq(S)
  PROVE  s \o t \in Seq(S)
OBVIOUS

(* The first goal, and what it has.                                        *)
LEMMA HeadType ==
  ASSUME IInv, NEW what, Doing(what)
  PROVE  status = "running" /\ Head(todo).do = what /\ Head(todo) \in Goals /\ lookahead \in Tokens
BY DEF IInv, TypeOK, Base, Doing

LEMMA ExpGoals ==
  /\ Exp \in Seq(PlainGoals) /\ End \in TreeNodes
  /\ Exp \o <<Skip(";", <<End>>)>> \in Seq(PlainGoals)
  /\ Condition \in Seq(PlainGoals)
  /\ <<Skip("(", <<>>)>> \o Exp \o <<Skip(")", <<Mark("Paren")>>)>> \in Seq(PlainGoals)
<1>1. Do("Primary") \in PlainGoals /\ Remaining(0) \in PlainGoals
  BY PlainGoalTypes DEF Precedences
<1>2. Exp \in Seq(PlainGoals)
  BY <1>1 DEF Exp
<1>3. End \in TreeNodes /\ Mark("Paren") \in TreeNodes
  BY NodeTypes DEF End, Marks
<1>4. <<End>> \in Seq(TreeNodes) /\ <<Mark("Paren")>> \in Seq(TreeNodes)
  BY <1>3
<1>5. /\ Skip(";", <<End>>) \in PlainGoals /\ Skip(")", <<End>>) \in PlainGoals
      /\ Skip("(", <<>>) \in PlainGoals /\ Skip(")", <<Mark("Paren")>>) \in PlainGoals
  BY <1>4, Empty, PlainGoalTypes DEF Punctuation
<1>6. /\ <<Skip(";", <<End>>)>> \in Seq(PlainGoals) /\ <<Skip(")", <<End>>)>> \in Seq(PlainGoals)
      /\ <<Skip("(", <<>>)>> \in Seq(PlainGoals)
      /\ <<Skip(")", <<Mark("Paren")>>)>> \in Seq(PlainGoals)
  BY <1>5, Short
<1>7. <<Skip("(", <<>>)>> \o Exp \in Seq(PlainGoals)
  BY <1>2, <1>6, Concat
<1>. QED  BY <1>2, <1>3, <1>6, <1>7, Concat DEF Condition

-----------------------------------------------------------------------------
LEMMA GoalKeeps ==
  ASSUME IInv, SkipToken \/ EmitNode
  PROVE  IInv'
<1>1. CASE SkipToken
  <2>1. /\ status = "running" /\ Head(todo).do = "Skip"
        /\ Head(todo).token \in Punctuation /\ Head(todo).nodes \in Seq(TreeNodes)
    BY <1>1, HeadType, GoalFields DEF SkipToken
  <2>2. CASE lookahead = Head(todo).token
    <3>1. Take(<<>>, Head(todo).nodes) /\ lookahead # EOF
      BY <1>1, <2>1, <2>2, NamedTokens DEF SkipToken
    <3>. QED  BY <2>1, <3>1, TakeKeeps, Empty
  <2>3. CASE lookahead # Head(todo).token
    BY <1>1, <2>1, <2>3, ErrorKeeps DEF SkipToken
  <2>. QED  BY <2>2, <2>3
<1>2. CASE EmitNode
  <2>1. status = "running" /\ Head(todo).do = "Emit" /\ Head(todo).node \in TreeNodes
    BY <1>2, HeadType, GoalFields DEF EmitNode
  <2>2. Go(<<>>, <<Head(todo).node>>)
    BY <1>2 DEF EmitNode
  <2>3. <<Head(todo).node>> \in Seq(TreeNodes)
    BY <2>1, Short
  <2>. QED  BY <2>1, <2>2, <2>3, GoKeeps, Empty
<1>. QED  BY <1>1, <1>2

LEMMA SignatureGoals ==
  ASSUME NEW name \in FuncNames, NEW ret \in Types
  PROVE  Signature(name, ret) \in Seq(PlainGoals)
<1>1. [name |-> name, ret |-> ret, params |-> <<>>, body |-> FALSE] \in FuncDefs
  BY DEF FuncDefs
<1>2. Skip("(", <<>>) \in PlainGoals
  BY Empty, PlainGoalTypes DEF Punctuation
<1>. QED  BY <1>1, <1>2, PlainGoalTypes DEF Signature

LEMMA DefinitionKeeps ==
  ASSUME IInv, ParseFuncDef \/ ParseFuncId \/ ParseOperatorId \/ ParseParams \/ ParseBody
  PROVE  IInv'
<1>1. CASE ParseFuncDef
  <2>1. status = "running" /\ Head(todo).do = "FuncDef"
    BY <1>1, HeadType DEF ParseFuncDef
  <2>2. CASE lookahead \in Types
    <3>1. <<FuncId(lookahead)>> \in Seq(PlainGoals) /\ lookahead # EOF
      BY <2>2, PlainGoalTypes, NamedTokens
    <3>2. Take(<<FuncId(lookahead)>>, <<>>)
      BY <1>1, <2>2 DEF ParseFuncDef
    <3>. QED  BY <2>1, <3>1, <3>2, TakeKeeps, Empty
  <2>3. CASE lookahead \notin Types
    BY <1>1, <2>1, <2>3, ErrorKeeps DEF ParseFuncDef
  <2>. QED  BY <2>2, <2>3
<1>2. CASE ParseFuncId
  <2>1. status = "running" /\ Head(todo).do = "FuncId" /\ Head(todo).ret \in Types
    BY <1>2, HeadType, GoalFields DEF ParseFuncId
  <2>2. "operator" \notin Ids /\ "operator" # EOF
    BY TokensAssumption DEF Keywords, EOF
  <2>3. CASE lookahead = "operator"
    <3>1. <<OperatorId(Head(todo).ret)>> \in Seq(PlainGoals)
      BY <2>1, PlainGoalTypes
    <3>2. Take(<<OperatorId(Head(todo).ret)>>, <<>>)
      BY <1>2, <2>2, <2>3 DEF ParseFuncId
    <3>. QED  BY <2>1, <2>2, <2>3, <3>1, <3>2, TakeKeeps, Empty
  <2>4. CASE lookahead \in Ids
    <3>1. Signature(lookahead, Head(todo).ret) \in Seq(PlainGoals) /\ lookahead # EOF
      BY <2>1, <2>4, SignatureGoals, NamedTokens
    <3>2. Take(Signature(lookahead, Head(todo).ret), <<>>)
      BY <1>2, <2>2, <2>4 DEF ParseFuncId
    <3>. QED  BY <2>1, <3>1, <3>2, TakeKeeps, Empty
  <2>5. CASE lookahead # "operator" /\ lookahead \notin Ids
    BY <1>2, <2>1, <2>5, ErrorKeeps DEF ParseFuncId
  <2>. QED  BY <2>3, <2>4, <2>5
<1>3. CASE ParseOperatorId
  <2>1. status = "running" /\ Head(todo).do = "OperatorId" /\ Head(todo).ret \in Types
    BY <1>3, HeadType, GoalFields DEF ParseOperatorId
  <2>2. CASE IsOperator(lookahead)
    <3>1. lookahead \in FuncNames /\ lookahead # EOF
      BY <2>2, NamedTokens DEF IsOperator
    <3>2. Signature(lookahead, Head(todo).ret) \in Seq(PlainGoals)
      BY <2>1, <3>1, SignatureGoals
    <3>3. Take(Signature(lookahead, Head(todo).ret), <<>>)
      BY <1>3, <2>2 DEF ParseOperatorId
    <3>. QED  BY <2>1, <3>1, <3>2, <3>3, TakeKeeps, Empty
  <2>3. CASE ~IsOperator(lookahead)
    BY <1>3, <2>1, <2>3, ErrorKeeps DEF ParseOperatorId
  <2>. QED  BY <2>2, <2>3
<1>4. CASE ParseParams
  <2>. DEFINE def == Head(todo).def
  <2>1. status = "running" /\ Head(todo).do = "ParamList" /\ def \in FuncDefs
    BY <1>4, HeadType, GoalFields DEF ParseParams
  <2>2. /\ <<Body(def)>> \in Seq(PlainGoals) /\ <<VarDecl(def)>> \in Seq(PlainGoals)
        /\ <<Skip(",", <<>>), VarDecl(def)>> \in Seq(PlainGoals)
    <3>1. Body(def) \in PlainGoals /\ VarDecl(def) \in PlainGoals
      BY <2>1, PlainGoalTypes DEF Owners
    <3>2. Skip(",", <<>>) \in PlainGoals
      BY Empty, PlainGoalTypes DEF Punctuation
    <3>. QED  BY <3>1, <3>2, Short
  <2>3. \/ Take(<<Body(def)>>, <<>>) /\ lookahead = ")"
        \/ Go(<<VarDecl(def)>>, <<>>)
        \/ Go(<<Skip(",", <<>>), VarDecl(def)>>, <<>>)
    BY <1>4 DEF ParseParams
  <2>4. ")" # EOF
    BY DEF EOF
  <2>. HIDE DEF def
  <2>. QED  BY <2>1, <2>2, <2>3, <2>4, TakeKeeps, GoKeeps, Empty
<1>5. CASE ParseBody
  <2>. DEFINE defined  == [n |-> "Func", def |-> [Head(todo).def EXCEPT !.body = TRUE]]
              declared == [n |-> "Func", def |-> [Head(todo).def EXCEPT !.body = FALSE]]
  <2>1. status = "running" /\ Head(todo).do = "Body" /\ Head(todo).def \in FuncDefs
    BY <1>5, HeadType, GoalFields DEF ParseBody
  <2>2. defined \in TreeNodes /\ declared \in TreeNodes
    <3>1. \A b \in BOOLEAN : [Head(todo).def EXCEPT !.body = b] \in FuncDefs
      BY <2>1 DEF FuncDefs
    <3>. QED  BY <3>1, NodeTypes
  <2>3. \/ Go(<<Do("Seq"), Emit(Mark("EndFunc"))>>, <<defined>>)
        \/ Go(<<Skip(";", <<declared>>)>>, <<>>)
    BY <1>5 DEF ParseBody
  <2>. HIDE DEF defined, declared
  <2>4. <<defined>> \in Seq(TreeNodes) /\ <<declared>> \in Seq(TreeNodes)
    BY <2>2, Short
  <2>5. <<Do("Seq"), Emit(Mark("EndFunc"))>> \in Seq(PlainGoals)
    <3>1. Mark("EndFunc") \in TreeNodes
      BY NodeTypes DEF Marks
    <3>2. Do("Seq") \in PlainGoals /\ Emit(Mark("EndFunc")) \in PlainGoals
      BY <3>1, PlainGoalTypes
    <3>. QED  BY <3>2, Short
  <2>6. <<Skip(";", <<declared>>)>> \in Seq(PlainGoals)
    <3>1. Skip(";", <<declared>>) \in PlainGoals
      BY <2>4, PlainGoalTypes DEF Punctuation
    <3>. QED  BY <3>1, Short
  <2>. QED  BY <2>1, <2>3, <2>4, <2>5, <2>6, GoKeeps, Empty
<1>. QED  BY <1>1, <1>2, <1>3, <1>4, <1>5

LEMMA VarDeclKeeps ==
  ASSUME IInv, ParseVarDecl \/ ParseVarId
  PROVE  IInv'
<1>1. CASE ParseVarDecl
  <2>1. status = "running" /\ Head(todo).do = "VarDecl" /\ Head(todo).of \in Owners
    BY <1>1, HeadType, GoalFields DEF ParseVarDecl
  <2>2. CASE lookahead \in Types
    <3>1. VarId(Head(todo).of, lookahead) \in PlainGoals /\ lookahead # EOF
      BY <2>1, <2>2, PlainGoalTypes, NamedTokens
    <3>2. <<VarId(Head(todo).of, lookahead)>> \in Seq(PlainGoals)
      BY <3>1, Short
    <3>3. Take(<<VarId(Head(todo).of, lookahead)>>, <<>>)
      BY <1>1, <2>2 DEF ParseVarDecl
    <3>. QED  BY <2>1, <3>1, <3>2, <3>3, TakeKeeps, Empty
  <2>3. CASE lookahead \notin Types
    BY <1>1, <2>1, <2>3, ErrorKeeps DEF ParseVarDecl
  <2>. QED  BY <2>2, <2>3
<1>2. CASE ParseVarId
  <2>. DEFINE def  == Head(todo).of
              t    == Head(todo).type
              more == [def EXCEPT !.params = Append(@, [name |-> lookahead, type |-> t])]
              goal == IF def = Null THEN Local(lookahead, t) ELSE ParamList(more)
  <2>1. status = "running" /\ Head(todo).do = "VarId" /\ def \in Owners /\ t \in Types
    BY <1>2, HeadType, GoalFields DEF ParseVarId
  <2>2. CASE lookahead \in Ids
    <3>1. Take(<<goal>>, <<>>)
      BY <1>2, <2>2 DEF ParseVarId
    <3>2. goal \in PlainGoals
      <4>1. CASE def = Null
        BY <2>1, <2>2, <4>1, NamedTokens, PlainGoalTypes
      <4>2. CASE def # Null
        <5>1. [name |-> lookahead, type |-> t] \in Params
          BY <2>1, <2>2, NamedTokens DEF Params
        <5>2. def \in FuncDefs
          BY <2>1, <4>2 DEF Owners
        <5>3. more \in FuncDefs
          BY <5>1, <5>2 DEF FuncDefs
        <5>. QED  BY <4>2, <5>3, PlainGoalTypes
      <4>. QED  BY <4>1, <4>2
    <3>. HIDE DEF goal
    <3>3. <<goal>> \in Seq(PlainGoals) /\ lookahead # EOF
      BY <2>2, <3>2, Short, NamedTokens
    <3>. QED  BY <2>1, <3>1, <3>3, TakeKeeps, Empty
  <2>3. CASE lookahead \notin Ids
    BY <1>2, <2>1, <2>3, ErrorKeeps DEF ParseVarId
  <2>. QED  BY <2>2, <2>3
<1>. QED  BY <1>1, <1>2

LEMMA ProgramKeeps ==
  ASSUME IInv, NextFuncDef
  PROVE  IInv'
<1>1. status = "running" /\ Head(todo).do = "Program"
  BY HeadType DEF NextFuncDef
<1>2. CASE lookahead = EOF
  <2>1. /\ status' = "ok" /\ todo' = <<>>
        /\ read' = read /\ lookahead' = lookahead /\ tree' = tree
    BY <1>2 DEF NextFuncDef
  <2>2. TypeOK'
    BY <2>1 DEF IInv, TypeOK
  <2>3. StopsAtEnd'
    BY <1>1, <2>1 DEF IInv, StopsAtEnd
  <2>4. AfterMinus(todo', read') /\ ElsesHaveIf(todo', tree')
    BY <2>1 DEF AfterMinus, ElsesHaveIf
  <2>. QED  BY <2>1, <2>2, <2>3, <2>4 DEF IInv
<1>3. CASE lookahead # EOF
  <2>. DEFINE goals == <<Do("FuncDef"), Program(Len(tree))>>
  <2>1. Go(goals, <<>>)
    BY <1>3 DEF NextFuncDef
  <2>2. Len(tree) \in Nat
    BY DEF IInv, TypeOK
  <2>3. Do("FuncDef") \in Goals /\ Program(Len(tree)) \in Goals
    BY <2>2 DEF Do, Program, Goals
  <2>4. goals \in Seq(Goals)
    BY <2>3, Short
  <2>5. /\ Len(goals) = 2 /\ DOMAIN goals = {1, 2}
        /\ goals[1].do = "FuncDef" /\ goals[2].do = "Program" /\ goals[2].start = Len(tree)
    BY DEF Do, Program
  <2>6. Base(goals, tree)
    BY <2>2, <2>5 DEF Base
  <2>. HIDE DEF goals
  <2>7. Ready(goals, <<>>, FALSE)
    BY <2>4, <2>5 DEF Ready, ElsesHaveIf, HasIf
  <2>. QED  BY <1>1, <2>1, <2>6, <2>7, GoReadyKeeps, Empty
<1>. QED  BY <1>2, <1>3

-----------------------------------------------------------------------------
(* Goals that wait for the statement of an if, whose node is the next one. *)
LEMMA IfIsReady ==
  ASSUME tree \in Seq(TreeNodes), NEW goals \in Seq(PlainGoals), NEW minus
  PROVE  LET new == goals \o <<Else(Len(tree) + 1)>> IN
         Ready(new, <<[n |-> "If", else |-> FALSE]>>, minus)
<1>. DEFINE node == [n |-> "If", else |-> FALSE]
            goal == Else(Len(tree) + 1)
            new  == goals \o <<goal>>
<1>1. /\ goals \in Seq(Goals) /\ Len(tree) \in Nat
      /\ \A i \in DOMAIN goals : goals[i].do \notin {"UnaryOp", "Else", "Program"}
  BY DEF PlainGoals
<1>2. goal \in Goals /\ goal.do = "Else" /\ goal.if = Len(tree) + 1
  BY <1>1 DEF Else, Goals
<1>3. Len(tree) + 1 \in DOMAIN (tree \o <<node>>) /\ (tree \o <<node>>)[Len(tree) + 1] = node
  BY <1>1
<1>4. node.n = "If"
  OBVIOUS
<1>. HIDE DEF goal, node
<1>5. new \in Seq(Goals) /\ Len(new) = Len(goals) + 1
  BY <1>1, <1>2
<1>6. \A i \in DOMAIN new : \/ i \in DOMAIN goals /\ new[i] = goals[i]
                            \/ i = Len(goals) + 1 /\ new[i] = goal
  BY <1>1, <1>2, <1>5
<1>. HIDE DEF new
<1>7. \A i \in DOMAIN new : new[i].do # "UnaryOp" /\ HasIf(new[i], tree \o <<node>>)
  <2>. SUFFICES ASSUME NEW i \in DOMAIN new
                PROVE  new[i].do # "UnaryOp" /\ HasIf(new[i], tree \o <<node>>)
    OBVIOUS
  <2>1. CASE i \in DOMAIN goals /\ new[i] = goals[i]
    BY <1>1, <2>1 DEF HasIf
  <2>2. CASE new[i] = goal
    BY <1>2, <1>3, <1>4, <2>2 DEF HasIf
  <2>. QED  BY <1>6, <2>1, <2>2
<1>8. Ready(new, <<node>>, minus)
  BY <1>5, <1>7 DEF Ready, ElsesHaveIf
<1>. QED  BY <1>8 DEF new, goal, node

LEMMA SeqKeeps ==
  ASSUME IInv, ParseSeq \/ ParseStmts
  PROVE  IInv'
<1>1. /\ Do("Stmts") \in PlainGoals /\ Do("Stmt") \in PlainGoals
      /\ Mark("Seq") \in TreeNodes /\ Mark("EndSeq") \in TreeNodes
  BY PlainGoalTypes, NodeTypes DEF Marks
<1>2. <<Mark("Seq")>> \in Seq(TreeNodes) /\ <<Mark("EndSeq")>> \in Seq(TreeNodes)
  BY <1>1, Short
<1>3. CASE ParseSeq
  <2>1. status = "running" /\ Head(todo).do = "Seq"
    BY <1>3, HeadType DEF ParseSeq
  <2>2. Skip("{", <<Mark("Seq")>>) \in PlainGoals
    BY <1>2, PlainGoalTypes DEF Punctuation
  <2>3. <<Skip("{", <<Mark("Seq")>>), Do("Stmts")>> \in Seq(PlainGoals)
    BY <1>1, <2>2, Short
  <2>4. Go(<<Skip("{", <<Mark("Seq")>>), Do("Stmts")>>, <<>>)
    BY <1>3 DEF ParseSeq
  <2>. QED  BY <2>1, <2>3, <2>4, GoKeeps, Empty
<1>4. CASE ParseStmts
  <2>1. status = "running" /\ Head(todo).do = "Stmts"
    BY <1>4, HeadType DEF ParseStmts
  <2>2. <<Do("Stmt"), Do("Stmts")>> \in Seq(PlainGoals) /\ "}" # EOF
    BY <1>1, Short DEF EOF
  <2>3. \/ Take(<<>>, <<Mark("EndSeq")>>) /\ lookahead = "}"
        \/ Go(<<Do("Stmt"), Do("Stmts")>>, <<>>)
    BY <1>4 DEF ParseStmts
  <2>. QED  BY <1>2, <2>1, <2>2, <2>3, TakeKeeps, GoKeeps, Empty
<1>. QED  BY <1>3, <1>4

LEMMA StmtKeeps ==
  ASSUME IInv, ParseStmt
  PROVE  IInv'
<1>. DEFINE returns == Exp \o <<Skip(";", <<End>>)>>
            branch  == Condition \o <<Do("Stmt")>>
            ifs     == Condition \o <<Do("Stmt"), Else(Len(tree) + 1)>>
            loop    == Condition \o <<Do("Stmt"), Emit(Mark("EndWhile"))>>
            if      == [n |-> "If", else |-> FALSE]
<1>1. status = "running" /\ Head(todo).do = "Stmt"
  BY HeadType DEF ParseStmt
<1>2. /\ Do("Stmt") \in PlainGoals /\ Do("Seq") \in PlainGoals
      /\ VarDecl(Null) \in PlainGoals
      /\ lookahead \in Ids => AssignOrCall(lookahead) \in PlainGoals
  BY PlainGoalTypes DEF Owners
<1>3. /\ Mark("Return") \in TreeNodes /\ Mark("While") \in TreeNodes
      /\ Mark("EndWhile") \in TreeNodes /\ if \in TreeNodes
  BY NodeTypes DEF Marks
<1>4. /\ <<Mark("Return")>> \in Seq(TreeNodes) /\ <<Mark("While")>> \in Seq(TreeNodes)
      /\ <<if>> \in Seq(TreeNodes)
  BY <1>3, Short
<1>5. /\ returns \in Seq(PlainGoals)
      /\ branch \in Seq(PlainGoals) /\ loop \in Seq(PlainGoals)
  <2>1. Emit(Mark("EndWhile")) \in PlainGoals
    BY <1>3, PlainGoalTypes
  <2>2. <<Do("Stmt")>> \in Seq(PlainGoals) /\ <<Do("Stmt"), Emit(Mark("EndWhile"))>> \in Seq(PlainGoals)
    BY <1>2, <2>1, Short
  <2>. QED  BY <2>2, ExpGoals, Concat
<1>6. Ready(ifs, <<if>>, lookahead = "-")
  <2>1. tree \in Seq(TreeNodes) /\ Condition \in Seq(PlainGoals)
    BY ExpGoals DEF IInv, TypeOK
  <2>2. Ready(branch \o <<Else(Len(tree) + 1)>>, <<if>>, lookahead = "-")
    BY <1>5, <2>1, IfIsReady
  <2>3. branch \o <<Else(Len(tree) + 1)>> = ifs
    BY <2>1
  <2>. HIDE DEF branch, ifs
  <2>. QED  BY <2>2, <2>3
<1>7. \/ lookahead \in Ids /\ Take(<<AssignOrCall(lookahead)>>, <<>>)
      \/ Go(<<VarDecl(Null)>>, <<>>)
      \/ Go(<<Do("Seq")>>, <<>>)
      \/ lookahead = "return" /\ Take(returns, <<Mark("Return")>>)
      \/ lookahead = "if" /\ Take(ifs, <<if>>)
      \/ lookahead = "while" /\ Take(loop, <<Mark("While")>>)
      \/ ParseError
  BY DEF ParseStmt
<1>. HIDE DEF returns, branch, ifs, loop, if
<1>8. lookahead \in Ids \cup {"return", "if", "while"} => lookahead # EOF
  BY NamedTokens DEF EOF
<1>9. CASE lookahead \in Ids /\ Take(<<AssignOrCall(lookahead)>>, <<>>)
  <2>1. <<AssignOrCall(lookahead)>> \in Seq(PlainGoals)
    BY <1>2, <1>9, Short
  <2>. QED  BY <1>1, <1>8, <1>9, <2>1, TakeKeeps, Empty
<1>10. CASE Go(<<VarDecl(Null)>>, <<>>) \/ Go(<<Do("Seq")>>, <<>>)
  <2>1. <<VarDecl(Null)>> \in Seq(PlainGoals) /\ <<Do("Seq")>> \in Seq(PlainGoals)
    BY <1>2, Short
  <2>. QED  BY <1>1, <1>10, <2>1, GoKeeps, Empty
<1>11. CASE lookahead = "return" /\ Take(returns, <<Mark("Return")>>)
  BY <1>1, <1>4, <1>5, <1>8, <1>11, TakeKeeps
<1>12. CASE lookahead = "if" /\ Take(ifs, <<if>>)
  BY <1>1, <1>4, <1>6, <1>8, <1>12, TakeReadyKeeps
<1>13. CASE lookahead = "while" /\ Take(loop, <<Mark("While")>>)
  BY <1>1, <1>4, <1>5, <1>8, <1>13, TakeKeeps
<1>14. CASE ParseError
  BY <1>1, <1>14, ErrorKeeps
<1>. QED  BY <1>7, <1>9, <1>10, <1>11, <1>12, <1>13, <1>14

LEMMA AssignOrLocalKeeps ==
  ASSUME IInv, ParseAssignOrCall \/ ParseLocal
  PROVE  IInv'
<1>. DEFINE x == Head(todo).name
            t == Head(todo).type
            initial == Exp \o <<Skip(";", <<End>>)>>
<1>1. initial \in Seq(PlainGoals) /\ <<End>> \in Seq(TreeNodes) /\ "=" # EOF
  BY ExpGoals, Short DEF EOF
<1>2. <<Skip(";", <<>>)>> \in Seq(PlainGoals) /\ Skip(";", <<End>>) \in PlainGoals
  <2>1. Skip(";", <<>>) \in PlainGoals /\ Skip(";", <<End>>) \in PlainGoals
    BY <1>1, Empty, PlainGoalTypes DEF Punctuation
  <2>. QED  BY <2>1, Short
<1>. HIDE DEF initial
<1>3. CASE ParseAssignOrCall
  <2>1. status = "running" /\ Head(todo).do = "AssignOrCall" /\ x \in Ids
    BY <1>3, HeadType, GoalFields DEF ParseAssignOrCall
  <2>2. \/ lookahead = "=" /\ Take(initial, <<[n |-> "Assign", name |-> x]>>)
        \/ Go(<<Args(x), Skip(";", <<End>>)>>, <<Mark("CallStmt")>>)
    BY <1>3 DEF ParseAssignOrCall, initial
  <2>3. Args(x) \in PlainGoals /\ [n |-> "Assign", name |-> x] \in TreeNodes
    BY <2>1, NamedTokens, PlainGoalTypes, NodeTypes
  <2>4. Mark("CallStmt") \in TreeNodes
    BY NodeTypes DEF Marks
  <2>5. /\ <<Args(x), Skip(";", <<End>>)>> \in Seq(PlainGoals)
        /\ <<[n |-> "Assign", name |-> x]>> \in Seq(TreeNodes)
        /\ <<Mark("CallStmt")>> \in Seq(TreeNodes)
    BY <1>2, <2>3, <2>4, Short
  <2>. HIDE DEF x
  <2>. QED  BY <1>1, <2>1, <2>2, <2>5, TakeKeeps, GoKeeps
<1>4. CASE ParseLocal
  <2>. DEFINE decl == [n |-> "Decl", name |-> x, type |-> t, init |-> FALSE]
              init == [n |-> "Decl", name |-> x, type |-> t, init |-> TRUE]
  <2>1. status = "running" /\ Head(todo).do = "Local" /\ x \in VarNames /\ t \in Types
    BY <1>4, HeadType, GoalFields DEF ParseLocal
  <2>2. \/ lookahead = "=" /\ Take(initial, <<init>>)
        \/ Go(<<Skip(";", <<>>)>>, <<decl>>)
    BY <1>4 DEF ParseLocal, initial
  <2>3. decl \in TreeNodes /\ init \in TreeNodes
    BY <2>1, NodeTypes
  <2>. HIDE DEF decl, init
  <2>4. <<decl>> \in Seq(TreeNodes) /\ <<init>> \in Seq(TreeNodes)
    BY <2>3, Short
  <2>. QED  BY <1>1, <1>2, <2>1, <2>2, <2>4, TakeKeeps, GoKeeps
<1>. QED  BY <1>3, <1>4

LEMMA ElseKeeps ==
  ASSUME IInv, ParseElse
  PROVE  IInv'
<1>. DEFINE k == Head(todo).if
            goals == <<Do("Stmt"), Emit(Mark("EndIf"))>>
            nodes == <<Mark("Else")>>
            new   == goals \o Tail(todo)
<1>1. status = "running" /\ Head(todo).do = "Else"
  BY HeadType DEF ParseElse
<1>2. /\ read \in Seq(Tokens) /\ lookahead \in Tokens /\ tree \in Seq(TreeNodes)
      /\ todo \in Seq(Goals) /\ todo # <<>>
  BY <1>1 DEF IInv, TypeOK, Base
<1>3. Mark("EndIf") \in TreeNodes /\ Mark("Else") \in TreeNodes
  BY NodeTypes DEF Marks
<1>4. nodes \in Seq(TreeNodes) /\ <<Mark("EndIf")>> \in Seq(TreeNodes)
  BY <1>3, Short
<1>5. CASE lookahead = "else"
  <2>1. k \in DOMAIN tree /\ tree[k].n = "If"
    <3>1. 1 \in DOMAIN todo /\ todo[1] = Head(todo)
      BY <1>2
    <3>2. HasIf(Head(todo), tree)
      BY <3>1 DEF IInv, ElsesHaveIf
    <3>. QED  BY <1>1, <3>2 DEF HasIf
  <2>. DEFINE marked == [tree EXCEPT ![k].else = TRUE]
  <2>2. /\ read' = Append(read, lookahead) /\ lookahead' \in Tokens
        /\ todo' = new /\ tree' = Append(marked, Mark("Else")) /\ status' = status
    BY <1>5 DEF ParseElse
  <2>3. /\ marked \in Seq(TreeNodes) /\ Len(marked) = Len(tree)
        /\ \A i \in DOMAIN tree : tree[i].n = "If" => marked[i].n = "If"
    <3>1. tree[k] \in TreeNodes
      BY <1>2, <2>1
    <3>2. [tree[k] EXCEPT !.else = TRUE] \in TreeNodes /\ [tree[k] EXCEPT !.else = TRUE].n = "If"
      BY <2>1, <3>1, ElseKeepsIf
    <3>3. marked = [tree EXCEPT ![k] = [tree[k] EXCEPT !.else = TRUE]]
      OBVIOUS
    <3>. QED  BY <1>2, <2>1, <3>2, <3>3
  <2>4. "else" # EOF /\ "else" # "-"
    BY DEF EOF
  <2>5. read' \in Seq(Tokens) /\ StopsAtEnd'
    BY <1>1, <1>5, <2>2, <2>4, ReadKeeps
  <2>6. goals \in Seq(PlainGoals)
    <3>1. Do("Stmt") \in PlainGoals /\ Emit(Mark("EndIf")) \in PlainGoals
      BY <1>3, PlainGoalTypes
    <3>. QED  BY <3>1, Short
  <2>. HIDE DEF goals, nodes, marked
  <2>7. Ready(goals, nodes, FALSE)
    BY <2>6, PlainIsReady
  <2>8. /\ new \in Seq(Goals) /\ Base(new, tree \o nodes)
        /\ AfterMinus(new, read') /\ ElsesHaveIf(new, tree \o nodes)
    BY <1>1, <1>4, <2>5, <2>7, GoalsKeep
  <2>9. /\ tree' \in Seq(TreeNodes) /\ Len(tree') = Len(tree \o nodes)
        /\ DOMAIN tree' = DOMAIN (tree \o nodes)
        /\ \A i \in DOMAIN tree : tree'[i] = marked[i] /\ (tree \o nodes)[i] = tree[i]
        /\ \A i \in DOMAIN tree' : i \in DOMAIN tree \/ tree'[i] = (tree \o nodes)[i]
    <3>1. /\ tree' \in Seq(TreeNodes) /\ Len(tree') = Len(tree) + 1
          /\ tree'[Len(tree) + 1] = Mark("Else")
          /\ \A i \in DOMAIN tree : tree'[i] = marked[i]
      BY <1>2, <1>3, <2>2, <2>3
    <3>2. /\ Len(tree \o nodes) = Len(tree) + 1 /\ tree \o nodes \in Seq(TreeNodes)
          /\ (tree \o nodes)[Len(tree) + 1] = Mark("Else")
          /\ \A i \in DOMAIN tree : (tree \o nodes)[i] = tree[i]
      BY <1>2, <1>3, <1>4 DEF nodes
    <3>3. /\ DOMAIN tree' = 1 .. Len(tree) + 1 /\ DOMAIN (tree \o nodes) = 1 .. Len(tree) + 1
          /\ DOMAIN tree = 1 .. Len(tree) /\ Len(tree) \in Nat
      BY <1>2, <3>1, <3>2
    <3>4. \A i \in DOMAIN tree' : i \in DOMAIN tree \/ i = Len(tree) + 1
      BY <3>3
    <3>. QED  BY <3>1, <3>2, <3>3, <3>4
  <2>10. \A i \in DOMAIN tree' : (tree \o nodes)[i].n = "If" => tree'[i].n = "If"
    BY <2>3, <2>9
  <2>. HIDE DEF new
  <2>11. Base(new, tree') /\ ElsesHaveIf(new, tree')
    BY <2>8, <2>9, <2>10 DEF Base, ElsesHaveIf, HasIf
  <2>12. Base(todo', tree') /\ ElsesHaveIf(todo', tree') /\ AfterMinus(todo', read')
    BY <2>2, <2>8, <2>11
  <2>13. TypeOK'
    BY <1>1, <2>2, <2>5, <2>8, <2>9 DEF TypeOK
  <2>. QED  BY <2>5, <2>12, <2>13 DEF IInv
<1>6. CASE lookahead # "else"
  <2>1. Go(<<>>, <<Mark("EndIf")>>)
    BY <1>6 DEF ParseElse
  <2>. QED  BY <1>1, <1>4, <2>1, GoKeeps, Empty
<1>. QED  BY <1>5, <1>6

-----------------------------------------------------------------------------
LEMMA PrimaryKeeps ==
  ASSUME IInv, ParsePrimary
  PROVE  IInv'
<1>. DEFINE const == [n |-> "Const", text |-> lookahead]
            paren == <<Skip("(", <<>>)>> \o Exp \o <<Skip(")", <<Mark("Paren")>>)>>
            unary == <<Do("UnaryOp")>>
<1>1. status = "running" /\ Head(todo).do = "Primary" /\ lookahead \in Tokens
  BY HeadType DEF ParsePrimary
<1>2. \/ lookahead \in Nums \cup {"true", "false"} /\ Take(<<>>, <<const>>)
      \/ lookahead \in Ids /\ Take(<<VarOrCall(lookahead)>>, <<>>)
      \/ lookahead \in Types /\ Take(<<Args(lookahead)>>, <<>>)
      \/ lookahead = "(" /\ Take(paren, <<>>)
      \/ lookahead = "-" /\ Take(unary, <<>>)
      \/ TakeError
  BY DEF ParsePrimary
<1>3. lookahead \in Nums \cup {"true", "false", "(", "-"} \cup Ids \cup Types => lookahead # EOF
  BY NamedTokens DEF EOF
<1>4. /\ lookahead \in Ids => VarOrCall(lookahead) \in PlainGoals
      /\ Args(lookahead) \in PlainGoals /\ const \in TreeNodes
  BY <1>1, PlainGoalTypes, NodeTypes
<1>5. paren \in Seq(PlainGoals)
  BY ExpGoals
<1>6. Ready(unary, <<>>, TRUE)
  <2>1. Do("UnaryOp") \in Goals /\ Do("UnaryOp").do = "UnaryOp"
    BY DEF Do, Goals
  <2>2. unary \in Seq(Goals)
    BY <2>1, Short
  <2>3. DOMAIN unary = {1} /\ unary[1].do = "UnaryOp"
    BY <2>1
  <2>. HIDE DEF unary
  <2>. QED  BY <2>2, <2>3 DEF Ready, ElsesHaveIf, HasIf
<1>. HIDE DEF const, paren, unary
<1>7. CASE lookahead \in Nums \cup {"true", "false"} /\ Take(<<>>, <<const>>)
  <2>1. <<const>> \in Seq(TreeNodes)
    BY <1>4, Short
  <2>. QED  BY <1>1, <1>3, <1>7, <2>1, TakeKeeps, Empty
<1>8. CASE lookahead \in Ids /\ Take(<<VarOrCall(lookahead)>>, <<>>)
  <2>1. <<VarOrCall(lookahead)>> \in Seq(PlainGoals)
    BY <1>4, <1>8, Short
  <2>. QED  BY <1>1, <1>3, <1>8, <2>1, TakeKeeps, Empty
<1>9. CASE lookahead \in Types /\ Take(<<Args(lookahead)>>, <<>>)
  <2>1. <<Args(lookahead)>> \in Seq(PlainGoals)
    BY <1>4, Short
  <2>. QED  BY <1>1, <1>3, <1>9, <2>1, TakeKeeps, Empty
<1>10. CASE lookahead = "(" /\ Take(paren, <<>>)
  BY <1>1, <1>3, <1>5, <1>10, TakeKeeps, Empty
<1>11. CASE lookahead = "-" /\ Take(unary, <<>>)
  <2>1. Ready(unary, <<>>, lookahead = "-")
    BY <1>6, <1>11 DEF Ready
  <2>. QED  BY <1>1, <1>3, <1>11, <2>1, TakeReadyKeeps, Empty
<1>12. CASE TakeError
  BY <1>1, <1>12, ErrorKeeps
<1>. QED  BY <1>2, <1>7, <1>8, <1>9, <1>10, <1>11, <1>12

LEMMA CallKeeps ==
  ASSUME IInv, ParseVarOrCall \/ ParseUnaryOp \/ ParseArgs \/ ParseMoreArgs
  PROVE  IInv'
<1>. DEFINE name == Head(todo).name
            n    == Head(todo).args
<1>1. CASE ParseVarOrCall
  <2>1. status = "running" /\ Head(todo).do = "VarOrCall" /\ name \in Ids
    BY <1>1, HeadType, GoalFields DEF ParseVarOrCall
  <2>2. Go(<<Args(name)>>, <<>>) \/ Go(<<>>, <<[n |-> "Var", name |-> name]>>)
    BY <1>1 DEF ParseVarOrCall
  <2>3. Args(name) \in PlainGoals /\ [n |-> "Var", name |-> name] \in TreeNodes
    BY <2>1, NamedTokens, PlainGoalTypes, NodeTypes
  <2>. HIDE DEF name
  <2>4. <<Args(name)>> \in Seq(PlainGoals) /\ <<[n |-> "Var", name |-> name]>> \in Seq(TreeNodes)
    BY <2>3, Short
  <2>. QED  BY <2>1, <2>2, <2>4, GoKeeps, Empty
<1>2. CASE ParseUnaryOp
  <2>. DEFINE call == Emit(CallNode(lookahead, 1, "prefix"))
  <2>1. status = "running" /\ Head(todo).do = "UnaryOp" /\ lookahead \in Tokens
    BY <1>2, HeadType DEF ParseUnaryOp
  <2>2. Take(<<Do("Primary"), call>>, <<>>)
    BY <1>2 DEF ParseUnaryOp
  <2>3. CallNode(lookahead, 1, "prefix") \in TreeNodes
    BY <2>1, NodeTypes DEF Forms
  <2>4. Do("Primary") \in PlainGoals /\ call \in PlainGoals
    BY <2>3, PlainGoalTypes
  <2>. HIDE DEF call
  <2>5. <<Do("Primary"), call>> \in Seq(PlainGoals)
    BY <2>4, Short
  <2>. QED  BY <2>1, <2>2, <2>5, TakeKeeps, Empty
<1>3. CASE ParseArgs
  <2>1. status = "running" /\ Head(todo).do = "Args" /\ name \in Tokens
    BY <1>3, HeadType, GoalFields DEF ParseArgs
  <2>2. Go(<<Skip("(", <<>>), MoreArgs(name, 0)>>, <<>>)
    BY <1>3 DEF ParseArgs
  <2>3. Skip("(", <<>>) \in PlainGoals /\ MoreArgs(name, 0) \in PlainGoals
    BY <2>1, Empty, PlainGoalTypes DEF Punctuation
  <2>4. <<Skip("(", <<>>), MoreArgs(name, 0)>> \in Seq(PlainGoals)
    BY <2>3, Short
  <2>. QED  BY <2>1, <2>2, <2>4, GoKeeps, Empty
<1>4. CASE ParseMoreArgs
  <2>. DEFINE more == Exp \o <<MoreArgs(name, n + 1)>>
              call == CallNode(name, n, "args")
  <2>1. status = "running" /\ Head(todo).do = "MoreArgs" /\ name \in Tokens /\ n \in Nat
    BY <1>4, HeadType, GoalFields DEF ParseMoreArgs
  <2>2. \/ Go(more, <<>>)
        \/ lookahead = "," /\ Take(more, <<>>)
        \/ Go(<<Skip(")", <<call>>)>>, <<>>)
    BY <1>4 DEF ParseMoreArgs
  <2>3. more \in Seq(PlainGoals)
    <3>1. MoreArgs(name, n + 1) \in PlainGoals
      BY <2>1, PlainGoalTypes
    <3>2. <<MoreArgs(name, n + 1)>> \in Seq(PlainGoals)
      BY <3>1, Short
    <3>. QED  BY <3>2, ExpGoals, Concat
  <2>4. call \in TreeNodes
    BY <2>1, NodeTypes DEF Forms
  <2>. HIDE DEF more, call
  <2>5. <<Skip(")", <<call>>)>> \in Seq(PlainGoals)
    <3>1. <<call>> \in Seq(TreeNodes)
      BY <2>4, Short
    <3>2. Skip(")", <<call>>) \in PlainGoals
      BY <3>1, PlainGoalTypes DEF Punctuation
    <3>. QED  BY <3>2, Short
  <2>6. "," # EOF
    BY DEF EOF
  <2>. QED  BY <2>1, <2>2, <2>3, <2>5, <2>6, GoKeeps, TakeKeeps, Empty
<1>. QED  BY <1>1, <1>2, <1>3, <1>4

(* Tokens with a precedence are infix operators.                           *)
LEMMA PrecedenceType ==
  ASSUME NEW t
  PROVE  Precedence(t) \in -1 .. 5 /\ (Precedence(t) >= 0 => t \in InfixOps)
BY DEF Precedence, InfixOps

LEMMA OperatorKeeps ==
  ASSUME IInv, ParseRemaining \/ ParseRightOf
  PROVE  IInv'
<1>1. CASE ParseRemaining
  <2>. DEFINE goal == Head(todo)
  <2>1. status = "running" /\ goal \in Goals /\ goal.do = "Remaining" /\ goal.prec \in Precedences
    BY <1>1, HeadType, GoalFields DEF ParseRemaining
  <2>2. CASE goal.prec > Precedence(lookahead)
    <3>1. Go(<<>>, <<>>)
      BY <1>1, <2>2 DEF ParseRemaining
    <3>. QED  BY <2>1, <3>1, GoKeeps, Empty
  <2>3. CASE ~(goal.prec > Precedence(lookahead))
    <3>1. Take(<<Do("Primary"), RightOf(lookahead), goal>>, <<>>)
      BY <1>1, <2>3 DEF ParseRemaining
    <3>2. Precedence(lookahead) >= 0
      BY <2>1, <2>3, PrecedenceType DEF Precedences
    <3>3. lookahead \in InfixOps /\ lookahead # EOF
      BY <3>2, PrecedenceType, NamedTokens
    <3>4. Do("Primary") \in PlainGoals /\ RightOf(lookahead) \in PlainGoals /\ goal \in PlainGoals
      BY <2>1, <3>3, PlainGoalTypes DEF PlainGoals
    <3>. HIDE DEF goal
    <3>5. <<Do("Primary"), RightOf(lookahead), goal>> \in Seq(PlainGoals)
      BY <3>4, Short
    <3>. QED  BY <2>1, <3>1, <3>3, <3>5, TakeKeeps, Empty DEF goal
  <2>. QED  BY <2>2, <2>3
<1>2. CASE ParseRightOf
  <2>. DEFINE op   == Head(todo).op
              call == Emit(CallNode(op, 2, "infix"))
  <2>1. status = "running" /\ Head(todo).do = "RightOf" /\ op \in InfixOps
    BY <1>2, HeadType, GoalFields DEF ParseRightOf
  <2>2. \/ Go(<<Remaining(Precedence(op) + 1), call>>, <<>>)
        \/ Go(<<call>>, <<>>)
    BY <1>2 DEF ParseRightOf
  <2>3. Precedence(op) + 1 \in Precedences
    BY PrecedenceType DEF Precedences
  <2>4. CallNode(op, 2, "infix") \in TreeNodes
    BY <2>1, NamedTokens, NodeTypes DEF Forms
  <2>5. Remaining(Precedence(op) + 1) \in PlainGoals /\ call \in PlainGoals
    BY <2>3, <2>4, PlainGoalTypes
  <2>. HIDE DEF call
  <2>6. <<Remaining(Precedence(op) + 1), call>> \in Seq(PlainGoals) /\ <<call>> \in Seq(PlainGoals)
    BY <2>5, Short
  <2>. QED  BY <2>1, <2>2, <2>6, GoKeeps, Empty
<1>. QED  BY <1>1, <1>2

-----------------------------------------------------------------------------
LEMMA InitInv ==
  ASSUME Init
  PROVE  IInv
<1>1. /\ read = <<>> /\ lookahead \in Tokens /\ tree = <<>> /\ status = "running"
      /\ todo = <<Do("FuncDef"), Program(0)>>
  BY DEF Init
<1>2. Do("FuncDef") \in Goals /\ Program(0) \in Goals
  BY DEF Do, Program, Goals
<1>3. todo \in Seq(Goals)
  BY <1>1, <1>2, Short
<1>4. TypeOK
  BY <1>1, <1>3 DEF TypeOK
<1>5. /\ Len(todo) = 2 /\ DOMAIN todo = {1, 2}
      /\ todo[1].do = "FuncDef" /\ todo[2].do = "Program" /\ todo[2].start = 0
  BY <1>1 DEF Do, Program
<1>6. Base(todo, tree) /\ AfterMinus(todo, read) /\ ElsesHaveIf(todo, tree)
  BY <1>1, <1>5 DEF Base, AfterMinus, ElsesHaveIf, HasIf
<1>7. StopsAtEnd
  BY <1>1 DEF StopsAtEnd
<1>. QED  BY <1>4, <1>6, <1>7 DEF IInv

(* It holds again when another text is opened for the same program.        *)
LEMMA OpenedInv ==
  ASSUME IInv, Opened
  PROVE  IInv'
<1>1. /\ read' = <<>> /\ lookahead' \in Tokens /\ tree' = tree /\ status' = "running"
      /\ todo' = <<Do("FuncDef"), Program(Len(tree))>>
      /\ tree \in Seq(TreeNodes) /\ Len(tree) \in Nat
  BY DEF Opened, IInv, TypeOK
<1>2. Do("FuncDef") \in Goals /\ Program(Len(tree)) \in Goals
  BY <1>1 DEF Do, Program, Goals
<1>3. TypeOK'
  BY <1>1, <1>2, Short DEF TypeOK
<1>4. /\ Len(todo') = 2 /\ DOMAIN todo' = {1, 2}
      /\ todo'[1].do = "FuncDef" /\ todo'[2].do = "Program" /\ todo'[2].start = Len(tree)
  BY <1>1 DEF Do, Program
<1>5. Base(todo', tree') /\ AfterMinus(todo', read') /\ ElsesHaveIf(todo', tree')
  BY <1>1, <1>4 DEF Base, AfterMinus, ElsesHaveIf, HasIf
<1>6. StopsAtEnd'
  BY <1>1 DEF StopsAtEnd
<1>. QED  BY <1>1, <1>3, <1>5, <1>6 DEF IInv

LEMMA StepInv ==
  ASSUME IInv, [Next \/ Returned]_vars
  PROVE  IInv'
<1>1. CASE SkipToken \/ EmitNode
  BY <1>1, GoalKeeps
<1>2. CASE ParseFunction
  BY <1>2, DefinitionKeeps, VarDeclKeeps, ProgramKeeps DEF ParseFunction
<1>3. CASE ParseStatement
  BY <1>3, SeqKeeps, StmtKeeps, AssignOrLocalKeeps, ElseKeeps DEF ParseStatement
<1>4. CASE ParseExpression
  BY <1>4, PrimaryKeeps, CallKeeps, OperatorKeeps DEF ParseExpression
<1>5. CASE UNCHANGED vars
  <2>1. /\ read' = read /\ lookahead' = lookahead /\ todo' = todo /\ tree' = tree
        /\ status' = status
    BY <1>5 DEF vars
  <2>. QED  BY <2>1 DEF IInv, TypeOK, Base, AfterMinus, ElsesHaveIf, HasIf, StopsAtEnd
<1>. QED  BY <1>1, <1>2, <1>3, <1>4, <1>5 DEF Next, Returned

(* The state of the parser keeps its types, for every text: goals, nodes   *)
(* and tokens are those that its routines work with (Parser.cpp).          *)
THEOREM TypeCorrect == Spec => []TypeOK
<1>1. Init => IInv
  BY InitInv
<1>2. IInv /\ [Next \/ Returned]_vars => IInv'
  BY StepInv
<1>3. IInv => TypeOK
  BY DEF IInv
<1>. QED  BY <1>1, <1>2, <1>3, PTL DEF Spec

(* Whatever the text, the parser consumes nothing after the end of it, and *)
(* the end itself only to fail, but in the one place where it takes any    *)
(* token for a prefix operator (Parser.cpp:88).                            *)
THEOREM NothingBehindTheEnd == Spec => []StopsAtEnd
<1>1. Init => IInv
  BY InitInv
<1>2. IInv /\ [Next \/ Returned]_vars => IInv'
  BY StepInv
<1>3. IInv => StopsAtEnd
  BY DEF IInv
<1>. QED  BY <1>1, <1>2, <1>3, PTL DEF Spec
-----------------------------------------------------------------------------
(* Else branches.  An if is open while its goal waits.  Two facts carry    *)
(* the proof: each goal of an if has its open if in the tree, at the depth *)
(* that the goals below it give and with nothing less deep behind it; and  *)
(* where a statement has just ended and an else comes next, no if that     *)
(* ends with the statement lacks its own.                                  *)

Ends == {"EndIf", "EndWhile"}

\* The nodes with mark m, from a to b.
Count(nodes, m, a, b) == Cardinality({i \in a .. b : nodes[i].n = m})

\* The ifs that are open behind the j-th node.
Depth(nodes, j) == Count(nodes, "If", 1, j) - Count(nodes, "EndIf", 1, j)

WithElse == [n |-> "If", else |-> TRUE]

\* The if that ends at e has an else branch.
ElseTaken(nodes, e) ==
  \E k \in 1 .. e - 1 :
    /\ nodes[k] = WithElse
    /\ Depth(nodes, k) = Depth(nodes, e) + 1
    /\ \A j \in k .. e - 1 : Depth(nodes, j) > Depth(nodes, e)

\* The statements that the nodes from e to i end are one inside the other.
Together(nodes, e, i) == \A k \in e .. i : nodes[k].n \in Ends

\* No if that ends with the statement at i could take an else.
AllTaken(nodes, i) ==
  \A e \in 1 .. i : nodes[e].n = "EndIf" /\ Together(nodes, e, i) => ElseTaken(nodes, e)

NearestIn(nodes) ==
  \A i \in 1 .. Len(nodes) - 1 : nodes[i + 1].n = "Else" => AllTaken(nodes, i)

\* The goals of an if whose condition has been parsed.
EndsIf(g) == g.do = "Else" \/ (g.do = "Emit" /\ g.node.n = "EndIf")

\* The goals that are done at the end of a statement, and those that follow.
EndsStmt(g) == g.do \in {"Stmt", "Else"} \/ (g.do = "Emit" /\ g.node.n \in Ends)

FollowsStmt(g) == g.do \in {"Stmts", "Else", "Emit"}

\* What goals append.
FitGoal(g) ==
  /\ g.do = "Emit" => g.node.n \notin {"If", "Else"}
  /\ g.do = "Skip" =>
       \/ g.nodes = <<>> /\ g.token # "{"
       \/ \E node \in TreeNodes :
            g.nodes = <<node>> /\ node.n \notin {"If", "Else"} \cup Ends

\* Goals that append before the end of the next statement.
Appends(g) == g.do \in {"AssignOrCall", "Local"} \/ (g.do = "VarId" /\ g.of = Null)

\* Goals that may come directly behind a statement.
Behind(g) ==
  \/ g.do \in {"Stmt", "Stmts", "Else", "Emit", "Seq"}
  \/ g.do = "VarDecl" /\ g.of = Null
  \/ g.do = "Skip" /\ g.token = "{"

Settled(nodes) == nodes = <<>> \/ nodes[Len(nodes)].n \notin Ends

HeadOK(g, nodes, ahead) ==
  \/ Appends(g)
  \/ Settled(nodes)
  \/ Behind(g) /\ (ahead = "else" => AllTaken(nodes, Len(nodes)))

One(b) == IF b THEN 1 ELSE 0

OpenIf(nodes, k, d) ==
  /\ k \in DOMAIN nodes /\ nodes[k].n = "If" /\ Depth(nodes, k) = d
  /\ \A j \in k .. Len(nodes) : Depth(nodes, j) >= d

HasOpenIf(g, nodes, d) ==
  \E k \in DOMAIN nodes :
    /\ OpenIf(nodes, k, d)
    /\ IF g.do = "Else" THEN k = g.if ELSE nodes[k] = WithElse

\* The depth of each goal.
Deep(goals, nodes, d) ==
  /\ d \in [DOMAIN goals -> Int]
  /\ d[1] = Depth(nodes, Len(nodes))
  /\ \A i \in DOMAIN goals : i + 1 \in DOMAIN goals => d[i] = d[i + 1] + One(EndsIf(goals[i]))
  /\ \A i, j \in DOMAIN goals : i <= j => d[i] >= d[j]
  /\ \A i \in DOMAIN goals : EndsIf(goals[i]) => HasOpenIf(goals[i], nodes, d[i])

Followed(goals) ==
  \A i \in DOMAIN goals :
    EndsStmt(goals[i]) => i + 1 \in DOMAIN goals /\ FollowsStmt(goals[i + 1])

Near(goals, nodes, ahead) ==
  /\ \A i \in DOMAIN goals : FitGoal(goals[i])
  /\ Followed(goals)
  /\ HeadOK(goals[1], nodes, ahead)
  /\ \E d : Deep(goals, nodes, d)

NearInv ==
  /\ NearestIn(tree)
  /\ status = "running" => Near(todo, tree, lookahead)

-----------------------------------------------------------------------------
(* Counts of marks                                                         *)

LEMMA CountedSet ==
  ASSUME NEW nodes, NEW m, NEW a \in Nat, NEW b \in Int
  PROVE  LET S == {i \in a .. b : nodes[i].n = m} IN IsFiniteSet(S) /\ Cardinality(S) \in Nat
<1>. DEFINE S == {i \in a .. b : nodes[i].n = m}
<1>1. S \in SUBSET (a .. b) /\ IsFiniteSet(a .. b)
  BY FS_Interval
<1>. HIDE DEF S
<1>2. IsFiniteSet(S) /\ Cardinality(S) \in Nat
  BY <1>1, FS_Subset, FS_CardinalityType
<1>. QED  BY <1>2 DEF S

LEMMA CountNat ==
  ASSUME NEW nodes, NEW m, NEW a \in Nat, NEW b \in Int
  PROVE  Count(nodes, m, a, b) \in Nat
BY CountedSet DEF Count

(* A range of nodes in two parts.                                          *)
LEMMA CountSplit ==
  ASSUME NEW nodes, NEW m, NEW x \in Nat, NEW b \in Nat, x <= b
  PROVE  Count(nodes, m, 1, b) = Count(nodes, m, 1, x) + Count(nodes, m, x + 1, b)
<1>. DEFINE S == {i \in 1 .. x : nodes[i].n = m}
            T == {i \in x + 1 .. b : nodes[i].n = m}
<1>0. x \in Int /\ b \in Int /\ 1 \in Nat
  OBVIOUS
<1>1. IsFiniteSet(S) /\ Cardinality(S) \in Nat
  BY <1>0, CountedSet
<1>2. IsFiniteSet(T) /\ Cardinality(T) \in Nat
  <2>1. \A y \in Nat : LET R == {i \in y .. b : nodes[i].n = m}
                       IN  IsFiniteSet(R) /\ Cardinality(R) \in Nat
    BY <1>0, CountedSet
  <2>2. x + 1 \in Nat
    OBVIOUS
  <2>. QED  BY <2>1, <2>2
<1>3. S \cup T = {i \in 1 .. b : nodes[i].n = m} /\ S \cap T = {}
  OBVIOUS
<1>4. Count(nodes, m, 1, b) = Cardinality(S \cup T)
  BY <1>3 DEF Count
<1>5. Count(nodes, m, 1, x) = Cardinality(S) /\ Count(nodes, m, x + 1, b) = Cardinality(T)
  BY DEF Count
<1>. HIDE DEF S, T
<1>6. Cardinality(S \cup T) = Cardinality(S) + Cardinality(T) - Cardinality({})
  BY <1>1, <1>2, <1>3, FS_Union
<1>. QED  BY <1>1, <1>2, <1>4, <1>5, <1>6, FS_EmptySet

(* One more node.                                                          *)
LEMMA CountNext ==
  ASSUME NEW nodes, NEW m, NEW b \in Nat
  PROVE  Count(nodes, m, 1, b + 1) = Count(nodes, m, 1, b) + One(nodes[b + 1].n = m)
<1>. DEFINE S == {i \in b + 1 .. b + 1 : nodes[i].n = m}
<1>1. Count(nodes, m, 1, b + 1) = Count(nodes, m, 1, b) + Count(nodes, m, b + 1, b + 1)
  <2>1. \A c \in Nat : b <= c =>
          Count(nodes, m, 1, c) = Count(nodes, m, 1, b) + Count(nodes, m, b + 1, c)
    BY CountSplit
  <2>2. b + 1 \in Nat /\ b <= b + 1
    OBVIOUS
  <2>. QED  BY <2>1, <2>2
<1>2. nodes[b + 1].n = m => S = {b + 1}
  OBVIOUS
<1>3. nodes[b + 1].n # m => S = {}
  OBVIOUS
<1>4. Count(nodes, m, b + 1, b + 1) = Cardinality(S)
  BY DEF Count
<1>. HIDE DEF S
<1>. QED  BY <1>1, <1>2, <1>3, <1>4, FS_EmptySet, FS_Singleton DEF One

LEMMA DepthInt ==
  ASSUME NEW nodes, NEW j \in Int
  PROVE  Depth(nodes, j) \in Int
<1>1. Count(nodes, "If", 1, j) \in Nat /\ Count(nodes, "EndIf", 1, j) \in Nat
  BY CountNat
<1>. QED  BY <1>1 DEF Depth

LEMMA DepthNext ==
  ASSUME NEW nodes, NEW j \in Nat
  PROVE  Depth(nodes, j + 1)
           = Depth(nodes, j) + One(nodes[j + 1].n = "If") - One(nodes[j + 1].n = "EndIf")
<1>1. Count(nodes, "If", 1, j) \in Nat /\ Count(nodes, "EndIf", 1, j) \in Nat
  BY CountNat
<1>2. /\ Count(nodes, "If", 1, j + 1)
           = Count(nodes, "If", 1, j) + One(nodes[j + 1].n = "If")
      /\ Count(nodes, "EndIf", 1, j + 1)
           = Count(nodes, "EndIf", 1, j) + One(nodes[j + 1].n = "EndIf")
  BY CountNext
<1>3. One(nodes[j + 1].n = "If") \in Int /\ One(nodes[j + 1].n = "EndIf") \in Int
  BY DEF One
<1>. QED  BY <1>1, <1>2, <1>3 DEF Depth

(* Marks that are the same are equally deep.                               *)
LEMMA DepthSame ==
  ASSUME NEW nodes, NEW new, NEW j \in Int, \A i \in 1 .. j : new[i].n = nodes[i].n
  PROVE  Depth(new, j) = Depth(nodes, j)
<1>1. \A m : {i \in 1 .. j : new[i].n = m} = {i \in 1 .. j : nodes[i].n = m}
  OBVIOUS
<1>. QED  BY <1>1 DEF Depth, Count

(* The if that the mark at e ends is the one that has been taken.          *)
LEMMA TakenIf ==
  ASSUME IInv, NEW e \in DOMAIN tree, ElseTaken(tree, e)
  PROVE  tree[IfOf(e)].else
<1>1. tree \in Seq(TreeNodes) /\ Len(tree) \in Nat /\ e \in 1 .. Len(tree)
  BY DEF IInv, TypeOK
<1>2. PICK k \in 1 .. e - 1 :
        /\ tree[k] = WithElse
        /\ Depth(tree, k) = Depth(tree, e) + 1
        /\ \A j \in k .. e - 1 : Depth(tree, j) > Depth(tree, e)
  BY DEF ElseTaken
<1>. DEFINE Same(j) == /\ tree[j].n = "If"
                       /\ Count(tree, "If", j, e) = Count(tree, "EndIf", j, e)
            I == {j \in 1 .. e : Same(j)}
<1>3. \A j \in 1 .. e : tree[j].n = "If" => (Same(j) <=> Depth(tree, e) = Depth(tree, j - 1))
  <2>. SUFFICES ASSUME NEW j \in 1 .. e, tree[j].n = "If"
                PROVE  Same(j) <=> Depth(tree, e) = Depth(tree, j - 1)
    OBVIOUS
  <2>. DEFINE x == j - 1
  <2>1. x \in Nat /\ e \in Nat /\ x <= e /\ j = x + 1 /\ x + 1 \in Nat
    BY <1>1
  <2>. HIDE DEF x
  <2>2. /\ Count(tree, "If", 1, x) \in Nat /\ Count(tree, "EndIf", 1, x) \in Nat
        /\ Count(tree, "If", x + 1, e) \in Nat /\ Count(tree, "EndIf", x + 1, e) \in Nat
    BY <2>1, CountNat
  <2>3. /\ Count(tree, "If", 1, e) = Count(tree, "If", 1, x) + Count(tree, "If", x + 1, e)
        /\ Count(tree, "EndIf", 1, e) = Count(tree, "EndIf", 1, x) + Count(tree, "EndIf", x + 1, e)
    BY <2>1, CountSplit
  <2>4. Depth(tree, e) = Depth(tree, x)
          <=> Count(tree, "If", x + 1, e) = Count(tree, "EndIf", x + 1, e)
    BY <2>2, <2>3 DEF Depth
  <2>. QED  BY <2>1, <2>4 DEF x
<1>4. k \in I
  <2>1. k - 1 \in Nat /\ (k - 1) + 1 = k
    OBVIOUS
  <2>2. tree[k].n = "If"
    BY <1>2 DEF WithElse
  <2>3. Depth(tree, k) = Depth(tree, k - 1) + One(tree[k].n = "If") - One(tree[k].n = "EndIf")
    BY <2>1, DepthNext
  <2>4. Depth(tree, k - 1) \in Int /\ Depth(tree, e) \in Int
    BY <1>1, DepthInt
  <2>5. Depth(tree, e) = Depth(tree, k - 1)
    BY <1>2, <2>2, <2>3, <2>4 DEF One
  <2>. HIDE DEF Same
  <2>. QED  BY <1>1, <1>3, <2>2, <2>5
<1>5. \A j \in I : j <= k
  <2>. SUFFICES ASSUME NEW j \in I, j > k PROVE FALSE
    BY <1>1
  <2>1. j \in 1 .. e /\ j - 1 \in k .. e - 1
    BY <1>1
  <2>2. Depth(tree, e) = Depth(tree, j - 1)
    BY <1>3, <2>1
  <2>3. Depth(tree, j - 1) > Depth(tree, e) /\ Depth(tree, e) \in Int
    BY <1>1, <1>2, <2>1, DepthInt
  <2>. QED  BY <2>2, <2>3
<1>6. IfOf(e) = IF I # {} THEN Max(I) ELSE 0
  <2>1. \A i \in 1 .. e : i \in DOMAIN tree
    BY <1>1
  <2>. DEFINE matches == [j \in DOMAIN tree |->
                /\ tree[j].n = "If"
                /\ Cardinality({i \in j .. e : tree[i].n = "If"})
                     = Cardinality({i \in j .. e : tree[i].n = "EndIf"})]
  <2>2. \A j \in 1 .. e : matches[j] <=> Same(j)
    BY <2>1 DEF Count
  <2>3. IfOf(e) = LET J == {i \in 1 .. e : matches[i]} IN IF J # {} THEN Max(J) ELSE 0
    BY DEF IfOf, SelectLastInSubSeq
  <2>. HIDE DEF matches, Same
  <2>4. {i \in 1 .. e : matches[i]} = I
    BY <2>2
  <2>. QED  BY <2>3, <2>4
<1>. HIDE DEF I
<1>7. Max(I) = k
  <2>1. \A j \in I : j \in Int
    BY DEF I
  <2>2. Max(I) \in I /\ \A j \in I : Max(I) >= j
    BY <1>4, <1>5, <2>1 DEF Max
  <2>3. Max(I) <= k /\ k <= Max(I) /\ Max(I) \in Int /\ k \in Int
    BY <1>4, <1>5, <2>1, <2>2
  <2>. QED  BY <2>3
<1>. QED  BY <1>2, <1>4, <1>6, <1>7 DEF WithElse

-----------------------------------------------------------------------------
(* Growing trees                                                           *)

\* The nodes up to b are kept, but for an if that gets its else branch.
Kept(nodes, new, b) ==
  \A i \in 1 .. b : new[i].n = nodes[i].n /\ (nodes[i] = WithElse => new[i] = WithElse)

LEMMA KeptDepth ==
  ASSUME NEW nodes, NEW new, NEW b \in Int, Kept(nodes, new, b), NEW j \in Int, j <= b
  PROVE  Depth(new, j) = Depth(nodes, j)
<1>1. \A i \in 1 .. j : new[i].n = nodes[i].n
  BY DEF Kept
<1>. QED  BY <1>1, DepthSame

LEMMA KeptTaken ==
  ASSUME NEW nodes, NEW new, NEW b \in Int, Kept(nodes, new, b), NEW e \in 1 .. b,
         ElseTaken(nodes, e)
  PROVE  ElseTaken(new, e)
<1>1. PICK k \in 1 .. e - 1 :
        /\ nodes[k] = WithElse
        /\ Depth(nodes, k) = Depth(nodes, e) + 1
        /\ \A j \in k .. e - 1 : Depth(nodes, j) > Depth(nodes, e)
  BY DEF ElseTaken
<1>2. \A j \in 1 .. b : Depth(new, j) = Depth(nodes, j)
  BY KeptDepth
<1>3. k \in 1 .. b /\ e \in 1 .. b /\ \A j \in k .. e - 1 : j \in 1 .. b
  OBVIOUS
<1>4. new[k] = WithElse
  BY <1>1, <1>3 DEF Kept
<1>. QED  BY <1>1, <1>2, <1>3, <1>4 DEF ElseTaken

LEMMA KeptAll ==
  ASSUME NEW nodes, NEW new, NEW b \in Int, Kept(nodes, new, b), NEW i \in 1 .. b,
         AllTaken(nodes, i)
  PROVE  AllTaken(new, i)
<1>. SUFFICES ASSUME NEW e \in 1 .. i, new[e].n = "EndIf", Together(new, e, i)
              PROVE  ElseTaken(new, e)
  BY DEF AllTaken
<1>1. e \in 1 .. b /\ \A j \in e .. i : j \in 1 .. b
  OBVIOUS
<1>2. nodes[e].n = "EndIf" /\ Together(nodes, e, i)
  BY <1>1 DEF Kept, Together
<1>. QED  BY <1>1, <1>2, KeptTaken DEF AllTaken

LEMMA KeptNearest ==
  ASSUME NEW nodes \in Seq(TreeNodes), NEW new \in Seq(TreeNodes), NEW b \in Nat,
         b <= Len(nodes), Kept(nodes, new, b), NearestIn(nodes),
         \/ Len(new) = b
         \/ /\ Len(new) = b + 1
            /\ new[Len(new)].n = "Else" => b = 0 \/ AllTaken(nodes, b)
  PROVE  NearestIn(new)
<1>. SUFFICES ASSUME NEW i \in 1 .. Len(new) - 1, new[i + 1].n = "Else"
              PROVE  AllTaken(new, i)
  BY DEF NearestIn
<1>1. i \in 1 .. b
  OBVIOUS
<1>2. AllTaken(nodes, i)
  <2>1. CASE i + 1 <= b
    <3>1. i + 1 \in 1 .. b /\ i \in 1 .. Len(nodes) - 1
      BY <2>1
    <3>2. nodes[i + 1].n = "Else"
      BY <3>1 DEF Kept
    <3>. QED  BY <3>1, <3>2 DEF NearestIn
  <2>2. CASE i + 1 > b
    BY <1>1, <2>2
  <2>. QED  BY <2>1, <2>2
<1>. QED  BY <1>1, <1>2, KeptAll

\* At most one node is appended.
Grown(nodes, new) ==
  /\ new \in Seq(TreeNodes) /\ Kept(nodes, new, Len(nodes))
  /\ Len(new) = Len(nodes) \/ Len(new) = Len(nodes) + 1

LEMMA OpenKeeps ==
  ASSUME NEW nodes \in Seq(TreeNodes), NEW new, Grown(nodes, new), NEW g, NEW x \in Int,
         HasOpenIf(g, nodes, x), x <= Depth(new, Len(new))
  PROVE  HasOpenIf(g, new, x)
<1>1. PICK k \in DOMAIN nodes :
        /\ OpenIf(nodes, k, x)
        /\ IF g.do = "Else" THEN k = g.if ELSE nodes[k] = WithElse
  BY DEF HasOpenIf
<1>2. /\ k \in 1 .. Len(nodes) /\ Len(nodes) \in Nat /\ new \in Seq(TreeNodes)
      /\ Len(new) \in Nat /\ Kept(nodes, new, Len(nodes)) /\ k \in DOMAIN new
      /\ Len(new) = Len(nodes) \/ Len(new) = Len(nodes) + 1
  BY DEF Grown
<1>3. \A j \in k .. Len(new) : j \in 1 .. Len(nodes) \/ j = Len(new)
  BY <1>2
<1>4. \A j \in 1 .. Len(nodes) : Depth(new, j) = Depth(nodes, j)
  BY <1>2, KeptDepth
<1>5. \A j \in 1 .. Len(nodes) : j >= k => Depth(nodes, j) >= x
  BY <1>1, <1>2 DEF OpenIf
<1>6. \A j \in k .. Len(new) : Depth(new, j) >= x
  <2>1. Depth(new, Len(new)) \in Int
    BY <1>2, DepthInt
  <2>2. Depth(new, Len(new)) >= x
    BY <2>1
  <2>. QED  BY <1>2, <1>3, <1>4, <1>5, <2>2
<1>7. new[k].n = "If" /\ (nodes[k] = WithElse => new[k] = WithElse) /\ Depth(new, k) = x
  BY <1>1, <1>2, <1>4 DEF OpenIf, Kept
<1>8. OpenIf(new, k, x)
  BY <1>2, <1>6, <1>7 DEF OpenIf
<1>. QED  BY <1>1, <1>2, <1>7, <1>8 DEF HasOpenIf

-----------------------------------------------------------------------------
(* Steps                                                                   *)

\* The last of the goals that replace the first one is that of an if.
LastEndsIf(gs) == gs # <<>> /\ EndsIf(gs[Len(gs)])

\* The depth of the tree changes as that of the goals.
Balanced(goals, nodes, gs, new) ==
  /\ Depth(new, Len(new)) = Depth(nodes, Len(nodes)) - One(EndsIf(goals[1])) + One(LastEndsIf(gs))
  /\ LastEndsIf(gs) => HasOpenIf(gs[Len(gs)], new, Depth(new, Len(new)))

LEMMA DeepStep ==
  ASSUME NEW goals \in Seq(Goals), goals # <<>>, NEW nodes \in Seq(TreeNodes),
         NEW d, Deep(goals, nodes, d), NEW new, Grown(nodes, new),
         NEW gs \in Seq(Goals), Len(goals) >= 2 \/ gs # <<>>,
         \A i \in DOMAIN gs : i # Len(gs) => ~EndsIf(gs[i]),
         Balanced(goals, nodes, gs, new)
  PROVE  \E c : Deep(gs \o Tail(goals), new, c)
<1>. DEFINE all == gs \o Tail(goals)
            n == Len(gs)
            top == Depth(new, Len(new))
            c == [i \in DOMAIN all |-> IF i <= n THEN top ELSE d[i - n + 1]]
<1>1. /\ all \in Seq(Goals) /\ Len(all) = n + Len(goals) - 1 /\ n \in Nat
      /\ \A i \in 1 .. n : all[i] = gs[i]
      /\ \A i \in n + 1 .. Len(all) :
           i - n + 1 \in 2 .. Len(goals) /\ all[i] = goals[i - n + 1]
  BY Replaced
<1>2. /\ DOMAIN all = 1 .. Len(all) /\ Len(all) \in Nat /\ Len(all) >= 1
      /\ Len(goals) \in Nat /\ Len(goals) >= 1 /\ DOMAIN goals = 1 .. Len(goals)
      /\ n = 0 <=> gs = <<>>
  BY <1>1
<1>3. /\ d \in [1 .. Len(goals) -> Int] /\ d[1] = Depth(nodes, Len(nodes))
      /\ \A i \in 1 .. Len(goals) :
           i + 1 \in 1 .. Len(goals) => d[i] = d[i + 1] + One(EndsIf(goals[i]))
      /\ \A i, j \in 1 .. Len(goals) : i <= j => d[i] >= d[j]
      /\ \A i \in 1 .. Len(goals) : EndsIf(goals[i]) => HasOpenIf(goals[i], nodes, d[i])
  BY <1>2 DEF Deep
<1>4. top \in Int
  BY DepthInt DEF Grown
<1>. HIDE DEF all, n, top
<1>5. \A b : One(b) \in {0, 1}
  BY DEF One
<1>6. top = d[1] - One(EndsIf(goals[1])) + One(LastEndsIf(gs))
  BY <1>3 DEF Balanced, top
<1>7. Len(goals) >= 2 => d[2] \in Int /\ top = d[2] + One(LastEndsIf(gs))
  <2>1. ASSUME Len(goals) >= 2 PROVE d[2] \in Int /\ d[1] = d[2] + One(EndsIf(goals[1]))
    BY <1>2, <1>3, <2>1
  <2>. QED  BY <1>5, <1>6, <2>1
<1>8. \A i \in 2 .. Len(goals) : d[i] \in Int /\ d[i] <= top
  <2>. SUFFICES ASSUME NEW i \in 2 .. Len(goals) PROVE d[i] \in Int /\ d[i] <= top
    OBVIOUS
  <2>1. Len(goals) >= 2 /\ 2 \in 1 .. Len(goals) /\ i \in 1 .. Len(goals)
    BY <1>2
  <2>2. d[i] \in Int /\ d[2] >= d[i]
    BY <1>3, <2>1
  <2>. QED  BY <1>4, <1>5, <1>7, <2>1, <2>2
<1>9. n = 0 => Len(goals) >= 2 /\ One(LastEndsIf(gs)) = 0
  BY <1>2 DEF LastEndsIf, One
<1>10. \A i \in DOMAIN all : c[i] = IF i <= n THEN top ELSE d[i - n + 1]
  OBVIOUS
<1>11. \A i \in DOMAIN all :
         \/ i \in 1 .. n /\ c[i] = top
         \/ i \in n + 1 .. Len(all) /\ i - n + 1 \in 2 .. Len(goals) /\ c[i] = d[i - n + 1]
  BY <1>1, <1>2, <1>10
<1>12. c \in [DOMAIN all -> Int]
  <2>1. \A i \in DOMAIN all : c[i] \in Int
    BY <1>4, <1>8, <1>11
  <2>2. DOMAIN c = DOMAIN all
    OBVIOUS
  <2>. QED  BY <2>1, <2>2
<1>. HIDE DEF c
<1>13. c[1] = top
  <2>1. 1 \in DOMAIN all
    BY <1>2
  <2>2. CASE n = 0
    <3>1. c[1] = d[2]
      BY <1>10, <2>1, <2>2
    <3>. QED  BY <1>7, <1>9, <2>2, <3>1
  <2>3. CASE n # 0
    BY <1>1, <1>10, <2>1, <2>3
  <2>. QED  BY <2>2, <2>3
<1>14. ASSUME NEW i \in DOMAIN all, i + 1 \in DOMAIN all
       PROVE  c[i] = c[i + 1] + One(EndsIf(all[i]))
  <2>1. CASE i + 1 <= n
    <3>1. i \in 1 .. n /\ i # n /\ all[i] = gs[i] /\ i \in DOMAIN gs
      BY <1>1, <1>2, <2>1 DEF n
    <3>2. One(EndsIf(all[i])) = 0
      BY <3>1 DEF One, n
    <3>3. c[i] = top /\ c[i + 1] = top
      BY <1>10, <1>14, <2>1, <3>1
    <3>. QED  BY <1>4, <3>2, <3>3
  <2>2. CASE i = n
    <3>1. n + 1 \in n + 1 .. Len(all) /\ n \in 1 .. n /\ (n + 1) - n + 1 = 2
      BY <1>1, <1>2, <1>14, <2>2
    <3>2. Len(goals) >= 2
      BY <1>1, <3>1
    <3>3. c[n] = top /\ c[n + 1] = d[2] /\ all[n] = gs[n] /\ gs # <<>>
      <4>1. n \in DOMAIN all /\ n + 1 \in DOMAIN all /\ n <= n /\ ~(n + 1 <= n)
        BY <1>1, <1>14, <2>2
      <4>2. c[n] = top /\ c[n + 1] = d[(n + 1) - n + 1]
        BY <1>10, <4>1
      <4>3. n # 0
        BY <1>2, <4>1
      <4>. QED  BY <1>1, <1>2, <3>1, <4>2, <4>3
    <3>4. EndsIf(all[n]) <=> LastEndsIf(gs)
      BY <3>3 DEF LastEndsIf, n
    <3>5. One(EndsIf(all[n])) = One(LastEndsIf(gs))
      BY <3>4 DEF One
    <3>. QED  BY <1>7, <2>2, <3>2, <3>3, <3>5
  <2>3. CASE i > n
    <3>. DEFINE j == i - n + 1
    <3>1. /\ i \in n + 1 .. Len(all) /\ i + 1 \in n + 1 .. Len(all)
          /\ j \in 1 .. Len(goals) /\ j + 1 \in 1 .. Len(goals) /\ (i + 1) - n + 1 = j + 1
      BY <1>1, <1>2, <1>14, <2>3
    <3>2. all[i] = goals[j] /\ c[i] = d[j]
      <4>1. ~(i <= n)
        BY <1>1, <1>2, <2>3
      <4>2. all[i] = goals[i - n + 1] /\ c[i] = d[i - n + 1]
        BY <1>1, <1>10, <3>1, <4>1
      <4>. QED  BY <4>2
    <3>3. c[i + 1] = d[j + 1]
      <4>1. ~(i + 1 <= n)
        BY <1>1, <1>2, <2>3
      <4>. QED  BY <1>10, <1>14, <3>1, <4>1
    <3>4. d[j] = d[j + 1] + One(EndsIf(goals[j]))
      BY <1>3, <3>1
    <3>. QED  BY <3>2, <3>3, <3>4
  <2>. QED  BY <1>1, <1>2, <2>1, <2>2, <2>3
<1>15. ASSUME NEW i \in DOMAIN all, NEW j \in DOMAIN all, i <= j
       PROVE  c[i] >= c[j]
  <2>1. CASE i \in 1 .. n /\ c[i] = top
    BY <1>4, <1>8, <1>11, <2>1
  <2>2. CASE i \in n + 1 .. Len(all) /\ i - n + 1 \in 2 .. Len(goals) /\ c[i] = d[i - n + 1]
    <3>1. j - n + 1 \in 1 .. Len(goals) /\ i - n + 1 \in 1 .. Len(goals) /\ i - n + 1 <= j - n + 1
      BY <1>1, <1>2, <1>15, <2>2
    <3>2. c[j] = d[j - n + 1]
      BY <1>1, <1>2, <1>10, <1>15, <2>2
    <3>3. \A x, y \in 1 .. Len(goals) : x <= y => d[x] >= d[y]
      BY <1>3
    <3>. QED  BY <2>2, <3>1, <3>2, <3>3
  <2>. QED  BY <1>11, <2>1, <2>2
<1>16. ASSUME NEW i \in DOMAIN all, EndsIf(all[i])
       PROVE  HasOpenIf(all[i], new, c[i])
  <2>1. CASE i \in 1 .. n /\ c[i] = top
    <3>1. all[i] = gs[i] /\ i \in DOMAIN gs /\ gs # <<>>
      BY <1>1, <2>1 DEF n
    <3>2. i = n
      BY <1>16, <3>1 DEF n
    <3>3. LastEndsIf(gs)
      BY <1>16, <3>1, <3>2 DEF LastEndsIf, n
    <3>. QED  BY <2>1, <3>1, <3>2, <3>3 DEF Balanced, top, n
  <2>2. CASE i \in n + 1 .. Len(all) /\ i - n + 1 \in 2 .. Len(goals) /\ c[i] = d[i - n + 1]
    <3>. DEFINE j == i - n + 1
    <3>1. all[i] = goals[j] /\ j \in 1 .. Len(goals) /\ j \in 2 .. Len(goals)
      <4>1. all[i] = goals[i - n + 1]
        BY <1>1, <2>2
      <4>2. i - n + 1 \in 1 .. Len(goals)
        BY <1>2, <2>2
      <4>. QED  BY <2>2, <4>1, <4>2
    <3>2. HasOpenIf(goals[j], nodes, d[j])
      BY <1>3, <1>16, <3>1
    <3>3. d[j] \in Int /\ d[j] <= Depth(new, Len(new))
      BY <1>8, <3>1 DEF top
    <3>. HIDE DEF j
    <3>4. HasOpenIf(goals[j], new, d[j])
      BY <3>2, <3>3, OpenKeeps
    <3>. QED  BY <2>2, <3>1, <3>4 DEF j
  <2>. QED  BY <1>11, <2>1, <2>2
<1>17. Deep(all, new, c)
  BY <1>12, <1>13, <1>14, <1>15, <1>16 DEF Deep, top
<1>. QED  BY <1>17 DEF all

\* Goals that may replace the first one.
Fits(gs) ==
  /\ gs \in Seq(Goals)
  /\ \A i \in DOMAIN gs :
       /\ FitGoal(gs[i])
       /\ i # Len(gs) => ~EndsIf(gs[i])
       /\ EndsStmt(gs[i]) =>
            IF i = Len(gs) THEN EndsStmt(todo[1]) ELSE FollowsStmt(gs[i + 1])

QuietGoals == {g \in Goals : FitGoal(g) /\ ~EndsStmt(g)}

LEMMA IfIsStmt == \A g : EndsIf(g) => EndsStmt(g)
BY DEF EndsIf, EndsStmt, Ends

LEMMA QuietFits ==
  ASSUME NEW gs \in Seq(QuietGoals)
  PROVE  Fits(gs) /\ ~LastEndsIf(gs)
<1>1. gs \in Seq(Goals) /\ \A i \in DOMAIN gs : gs[i] \in QuietGoals
  BY DEF QuietGoals
<1>2. gs # <<>> => Len(gs) \in DOMAIN gs
  BY <1>1
<1>3. \A i \in DOMAIN gs : FitGoal(gs[i]) /\ ~EndsStmt(gs[i]) /\ ~EndsIf(gs[i])
  BY <1>1, IfIsStmt DEF QuietGoals
<1>. QED  BY <1>1, <1>2, <1>3 DEF Fits, LastEndsIf

(* The goals of the active routines.                                       *)
LEMMA Running ==
  ASSUME IInv, NearInv, status = "running"
  PROVE  /\ todo \in Seq(Goals) /\ todo # <<>> /\ 1 \in DOMAIN todo /\ Head(todo) = todo[1]
         /\ tree \in Seq(TreeNodes) /\ lookahead \in Tokens
         /\ todo[1].do # "Program" => Len(todo) >= 2
         /\ Near(todo, tree, lookahead) /\ NearestIn(tree)
<1>1. /\ todo \in Seq(Goals) /\ todo # <<>> /\ tree \in Seq(TreeNodes) /\ lookahead \in Tokens
      /\ todo[Len(todo)].do = "Program"
  BY DEF IInv, TypeOK, Base
<1>2. Len(todo) \in Nat /\ Len(todo) >= 1 /\ 1 \in DOMAIN todo /\ Head(todo) = todo[1]
  BY <1>1
<1>3. \A n \in Nat : n >= 1 => n >= 2 \/ n = 1
  OBVIOUS
<1>4. todo[1].do # "Program" => Len(todo) >= 2
  BY <1>1, <1>2, <1>3
<1>. QED  BY <1>1, <1>2, <1>4 DEF NearInv

LEMMA FollowedStep ==
  ASSUME NEW gs, Fits(gs), todo \in Seq(Goals), todo # <<>>,
         \A i \in DOMAIN todo : FitGoal(todo[i]), Followed(todo)
  PROVE  LET all == gs \o Tail(todo) IN
         Followed(all) /\ \A i \in DOMAIN all : FitGoal(all[i])
<1>. DEFINE all == gs \o Tail(todo)
            n == Len(gs)
<1>1. gs \in Seq(Goals)
  BY DEF Fits
<1>2. /\ all \in Seq(Goals) /\ Len(all) = n + Len(todo) - 1 /\ n \in Nat
      /\ \A i \in 1 .. n : all[i] = gs[i]
      /\ \A i \in 2 .. Len(todo) : all[n + i - 1] = todo[i]
      /\ \A i \in n + 1 .. Len(all) :
           i - n + 1 \in 2 .. Len(todo) /\ all[i] = todo[i - n + 1]
  BY <1>1, Replaced
<1>3. /\ DOMAIN all = 1 .. Len(all) /\ Len(all) \in Nat /\ Len(todo) \in Nat
      /\ DOMAIN todo = 1 .. Len(todo) /\ DOMAIN gs = 1 .. n /\ Len(todo) >= 1
  BY <1>1, <1>2
<1>. HIDE DEF all
<1>4. ASSUME NEW i \in DOMAIN all
      PROVE  /\ FitGoal(all[i])
             /\ EndsStmt(all[i]) => i + 1 \in DOMAIN all /\ FollowsStmt(all[i + 1])
  <2>1. CASE i \in 1 .. n /\ i # n
    <3>1. i + 1 \in 1 .. n /\ all[i] = gs[i] /\ all[i + 1] = gs[i + 1] /\ i \in DOMAIN gs
      BY <1>2, <1>3, <2>1
    <3>2. i + 1 \in DOMAIN all
      BY <1>2, <1>3, <3>1
    <3>. QED  BY <2>1, <3>1, <3>2 DEF Fits
  <2>2. CASE i = n
    <3>1. n \in 1 .. n /\ all[n] = gs[n] /\ n \in DOMAIN gs
      BY <1>2, <1>3, <1>4, <2>2
    <3>2. FitGoal(gs[n]) /\ (EndsStmt(gs[n]) => EndsStmt(todo[1]))
      BY <3>1 DEF Fits
    <3>3. EndsStmt(todo[1]) => 2 \in DOMAIN todo /\ FollowsStmt(todo[2])
      <4>1. 1 \in DOMAIN todo /\ 1 + 1 = 2
        BY <1>3
      <4>. QED  BY <4>1 DEF Followed
    <3>4. 2 \in DOMAIN todo => n + 1 \in DOMAIN all /\ all[n + 1] = todo[2]
      <4>1. ASSUME 2 \in 1 .. Len(todo) PROVE all[n + 2 - 1] = todo[2] /\ n + 1 \in 1 .. Len(all)
        BY <1>2, <1>3, <4>1
      <4>2. n + 2 - 1 = n + 1
        BY <1>2
      <4>. QED  BY <1>3, <4>1, <4>2
    <3>. QED  BY <2>2, <3>1, <3>2, <3>3, <3>4
  <2>3. CASE i \in n + 1 .. Len(all)
    <3>. DEFINE j == i - n + 1
    <3>1. j \in 2 .. Len(todo) /\ all[i] = todo[j]
      BY <1>2, <2>3
    <3>2. j \in DOMAIN todo
      BY <1>3, <3>1
    <3>3. FitGoal(todo[j]) /\ (EndsStmt(todo[j]) => j + 1 \in DOMAIN todo /\ FollowsStmt(todo[j + 1]))
      BY <3>2 DEF Followed
    <3>4. ASSUME j + 1 \in DOMAIN todo PROVE i + 1 \in DOMAIN all /\ all[i + 1] = todo[j + 1]
      <4>0. i \in Int /\ n \in Int /\ j = i - n + 1
        BY <1>2, <1>3
      <4>1. j + 1 \in 2 .. Len(todo) /\ n + (j + 1) - 1 = i + 1
        <5>1. n + (j + 1) - 1 = i + 1
          BY <4>0
        <5>2. j + 1 \in 1 .. Len(todo) /\ j \in Int /\ j >= 2
          BY <1>3, <3>1, <3>4
        <5>. HIDE DEF j
        <5>3. j + 1 \in 2 .. Len(todo)
          BY <1>3, <5>2
        <5>. QED  BY <5>1, <5>3
      <4>2. i + 1 \in 1 .. Len(all)
        BY <1>2, <1>3, <2>3, <4>1
      <4>3. all[n + (j + 1) - 1] = todo[j + 1]
        <5>1. \A x \in 2 .. Len(todo) : all[n + x - 1] = todo[x]
          BY <1>2
        <5>. HIDE DEF j
        <5>. QED  BY <4>1, <5>1
      <4>. QED  BY <1>3, <4>1, <4>2, <4>3
    <3>. HIDE DEF j
    <3>. QED  BY <3>1, <3>3, <3>4
  <2>. QED  BY <1>2, <1>3, <2>1, <2>2, <2>3
<1>5. Followed(all) /\ \A i \in DOMAIN all : FitGoal(all[i])
  BY <1>4 DEF Followed
<1>. QED  BY <1>5 DEF all

(* A step that replaces the first goal.                                    *)
LEMMA NearStep ==
  ASSUME IInv, NearInv, status = "running",
         NEW gs, Fits(gs), todo[1].do # "Program" \/ gs # <<>>,
         NEW new, Grown(tree, new), Balanced(todo, tree, gs, new),
         todo' = gs \o Tail(todo), tree' = new,
         HeadOK(todo'[1], new, lookahead'),
         Len(new) = Len(tree) \/ new[Len(new)].n # "Else" \/ AllTaken(tree, Len(tree))
  PROVE  NearInv'
<1>1. /\ todo \in Seq(Goals) /\ todo # <<>> /\ tree \in Seq(TreeNodes)
      /\ todo[1].do # "Program" => Len(todo) >= 2
      /\ Near(todo, tree, lookahead) /\ NearestIn(tree)
  BY Running
<1>2. Followed(todo') /\ \A i \in DOMAIN todo' : FitGoal(todo'[i])
  BY <1>1, FollowedStep DEF Near
<1>3. \E d : Deep(todo', new, d)
  <2>1. PICK d : Deep(todo, tree, d)
    BY <1>1 DEF Near
  <2>2. gs \in Seq(Goals) /\ \A i \in DOMAIN gs : i # Len(gs) => ~EndsIf(gs[i])
    BY DEF Fits
  <2>3. Len(todo) >= 2 \/ gs # <<>>
    BY <1>1
  <2>. QED  BY <1>1, <2>1, <2>2, <2>3, DeepStep
<1>4. NearestIn(new)
  <2>1. /\ new \in Seq(TreeNodes) /\ Kept(tree, new, Len(tree)) /\ Len(tree) \in Nat
        /\ Len(new) = Len(tree) \/ Len(new) = Len(tree) + 1
    BY <1>1 DEF Grown
  <2>2. Len(tree) <= Len(tree)
    BY <2>1
  <2>. DEFINE b == Len(tree)
  <2>3. \/ Len(new) = b
        \/ Len(new) = b + 1 /\ (new[Len(new)].n = "Else" => b = 0 \/ AllTaken(tree, b))
    BY <2>1
  <2>. HIDE DEF b
  <2>. QED  BY <1>1, <2>1, <2>2, <2>3, KeptNearest DEF b
<1>5. Near(todo', new, lookahead')
  BY <1>2, <1>3 DEF Near
<1>. QED  BY <1>4, <1>5 DEF NearInv

LEMMA SameTree ==
  ASSUME NEW nodes \in Seq(TreeNodes)
  PROVE  Grown(nodes, nodes)
BY DEF Grown, Kept

LEMMA Appended ==
  ASSUME NEW nodes \in Seq(TreeNodes), NEW node \in TreeNodes
  PROVE  LET new == nodes \o <<node>> IN
         /\ Grown(nodes, new) /\ Len(new) = Len(nodes) + 1 /\ new[Len(new)] = node
         /\ Depth(new, Len(new))
              = Depth(nodes, Len(nodes)) + One(node.n = "If") - One(node.n = "EndIf")
         /\ Depth(nodes, Len(nodes)) \in Int
<1>. DEFINE new == nodes \o <<node>>
<1>1. /\ new \in Seq(TreeNodes) /\ Len(new) = Len(nodes) + 1 /\ new[Len(nodes) + 1] = node
      /\ \A i \in 1 .. Len(nodes) : new[i] = nodes[i]
      /\ Len(nodes) \in Nat
  OBVIOUS
<1>. HIDE DEF new
<1>2. Kept(nodes, new, Len(nodes))
  BY <1>1 DEF Kept
<1>3. Grown(nodes, new)
  BY <1>1, <1>2 DEF Grown
<1>. DEFINE b == Len(nodes)
<1>4. b \in Int /\ b <= b /\ b \in Nat
  BY <1>1
<1>. HIDE DEF b
<1>5. Depth(new, b) = Depth(nodes, b) /\ Depth(nodes, b) \in Int
  BY <1>2, <1>4, KeptDepth, DepthInt DEF b
<1>6. Depth(new, b + 1) = Depth(new, b) + One(new[b + 1].n = "If") - One(new[b + 1].n = "EndIf")
  BY <1>4, DepthNext
<1>. QED  BY <1>1, <1>3, <1>5, <1>6 DEF b, new

(* Nothing is appended.                                                    *)
LEMMA StayNear ==
  ASSUME IInv, NearInv, status = "running", NEW gs, Fits(gs), ~LastEndsIf(gs),
         ~EndsIf(todo[1]), todo[1].do # "Program" \/ gs # <<>>,
         todo' = gs \o Tail(todo), tree' = tree,
         \/ ~Appends(todo[1]) /\ ~Behind(todo[1])
         \/ gs # <<>> /\ Appends(gs[1])
         \/ /\ gs # <<>> /\ Behind(gs[1]) /\ ~Appends(todo[1])
            /\ lookahead' = lookahead
  PROVE  NearInv'
<1>1. /\ tree \in Seq(TreeNodes) /\ Near(todo, tree, lookahead) /\ todo \in Seq(Goals)
      /\ gs \in Seq(Goals)
  BY Running DEF Fits
<1>2. Grown(tree, tree)
  BY <1>1, SameTree
<1>3. Balanced(todo, tree, gs, tree)
  <2>1. One(EndsIf(todo[1])) = 0 /\ One(LastEndsIf(gs)) = 0
    BY DEF One
  <2>2. Depth(tree, Len(tree)) \in Int
    BY <1>1, DepthInt
  <2>. QED  BY <2>1, <2>2 DEF Balanced
<1>4. HeadOK(todo'[1], tree, lookahead')
  <2>1. gs # <<>> => todo'[1] = gs[1]
    BY <1>1
  <2>2. HeadOK(todo[1], tree, lookahead)
    BY <1>1 DEF Near
  <2>. QED  BY <2>1, <2>2 DEF HeadOK
<1>. QED  BY <1>2, <1>3, <1>4, NearStep

(* A node is appended that is no if, else, or end of a statement.          *)
LEMMA AppendNear ==
  ASSUME IInv, NearInv, status = "running", NEW gs, Fits(gs), ~LastEndsIf(gs),
         ~EndsIf(todo[1]), todo[1].do # "Program" \/ gs # <<>>,
         NEW node \in TreeNodes, node.n \notin {"If", "Else"} \cup Ends,
         todo' = gs \o Tail(todo), tree' = tree \o <<node>>
  PROVE  NearInv'
<1>. DEFINE new == tree \o <<node>>
<1>1. tree \in Seq(TreeNodes)
  BY Running
<1>2. /\ Grown(tree, new) /\ Len(new) = Len(tree) + 1 /\ new[Len(new)] = node
      /\ Depth(new, Len(new))
           = Depth(tree, Len(tree)) + One(node.n = "If") - One(node.n = "EndIf")
      /\ Depth(tree, Len(tree)) \in Int
  BY <1>1, Appended
<1>. HIDE DEF new
<1>3. Balanced(todo, tree, gs, new)
  <2>1. /\ One(EndsIf(todo[1])) = 0 /\ One(LastEndsIf(gs)) = 0
        /\ One(node.n = "If") = 0 /\ One(node.n = "EndIf") = 0
    BY DEF One, Ends
  <2>. QED  BY <1>2, <2>1 DEF Balanced
<1>4. HeadOK(todo'[1], new, lookahead')
  BY <1>2 DEF HeadOK, Settled
<1>5. new[Len(new)].n # "Else" /\ tree' = new
  BY <1>2 DEF new
<1>. QED  BY <1>2, <1>3, <1>4, <1>5, NearStep

-----------------------------------------------------------------------------
(* Routines                                                                *)

\* Nothing, or a node that is no if, else, or end of a statement.
PlainNodes == {node \in TreeNodes : node.n \notin {"If", "Else"} \cup Ends}

Few(nodes) == nodes = <<>> \/ \E node \in PlainNodes : nodes = <<node>>

Calm(g) == ~Appends(g) /\ ~Behind(g)

CalmHeads == {"FuncDef", "FuncId", "OperatorId", "ParamList", "Body", "Program", "Primary",
              "VarOrCall", "UnaryOp", "Args", "MoreArgs", "Remaining", "RightOf"}

LEMMA CalmHead ==
  ASSUME NEW g, g.do \in CalmHeads
  PROVE  Calm(g) /\ ~EndsIf(g)
BY DEF CalmHeads, Calm, Appends, Behind, EndsIf

(* The goals are replaced, and at most a plain node is appended.           *)
LEMMA PlainNear ==
  ASSUME IInv, NearInv, status = "running", NEW gs, Fits(gs), ~LastEndsIf(gs),
         ~EndsIf(Head(todo)), Head(todo).do # "Program" \/ gs # <<>>,
         NEW nodes, Few(nodes), nodes # <<>> \/ Calm(Head(todo)),
         Go(gs, nodes) \/ Take(gs, nodes)
  PROVE  NearInv'
<1>1. /\ Head(todo) = todo[1] /\ tree \in Seq(TreeNodes)
      /\ todo' = gs \o Tail(todo) /\ tree' = tree \o nodes
  BY Running DEF Go, Take
<1>2. CASE nodes = <<>>
  <2>1. tree' = tree
    BY <1>1, <1>2
  <2>. QED  BY <1>1, <1>2, <2>1, StayNear DEF Calm
<1>3. CASE \E node \in PlainNodes : nodes = <<node>>
  BY <1>1, <1>3, AppendNear DEF PlainNodes
<1>. QED  BY <1>2, <1>3 DEF Few

LEMMA CalmNear ==
  ASSUME IInv, NearInv, status = "running", Head(todo).do \in CalmHeads,
         NEW gs \in Seq(QuietGoals), Head(todo).do # "Program" \/ gs # <<>>,
         NEW nodes, Few(nodes), Go(gs, nodes) \/ Take(gs, nodes)
  PROVE  NearInv'
<1>1. Fits(gs) /\ ~LastEndsIf(gs)
  BY QuietFits
<1>2. Calm(Head(todo)) /\ ~EndsIf(Head(todo))
  BY CalmHead
<1>. QED  BY <1>1, <1>2, PlainNear

LEMMA ErrorNear ==
  ASSUME IInv, NearInv, status = "running", ParseError \/ TakeError
  PROVE  NearInv'
<1>1. status' = "error" /\ tree' = SubSeq(tree, 1, todo[Len(todo)].start)
  BY DEF ParseError, TakeError, Last
<1>2. /\ todo \in Seq(Goals) /\ todo # <<>> /\ todo[Len(todo)].do = "Program"
      /\ todo[Len(todo)].start <= Len(tree) /\ tree \in Seq(TreeNodes) /\ NearestIn(tree)
  BY DEF IInv, TypeOK, Base, NearInv
<1>. DEFINE b == todo[Len(todo)].start
            new == SubSeq(tree, 1, b)
<1>3. b \in Nat
  <2>1. Len(todo) \in DOMAIN todo
    BY <1>2
  <2>. QED  BY <1>2, <2>1, GoalFields
<1>4. b <= Len(tree)
  BY <1>2
<1>. HIDE DEF b
<1>5. new \in Seq(TreeNodes) /\ Len(new) = b /\ \A i \in 1 .. b : new[i] = tree[i]
  BY <1>2, <1>3, <1>4
<1>6. Kept(tree, new, b)
  BY <1>5 DEF Kept
<1>7. NearestIn(new)
  BY <1>2, <1>3, <1>4, <1>5, <1>6, KeptNearest
<1>. QED  BY <1>1, <1>7 DEF NearInv, b

(* Goals that end no statement.                                            *)
LEMMA PlainIsQuiet ==
  ASSUME NEW g \in Goals, g.do \notin {"Stmt", "Else", "Emit", "Skip"}
  PROVE  g \in QuietGoals
BY DEF QuietGoals, FitGoal, EndsStmt

LEMMA QuietSkip ==
  ASSUME NEW t \in Punctuation
  PROVE  /\ t # "{" => Skip(t, <<>>) \in QuietGoals
         /\ \A node \in PlainNodes : Skip(t, <<node>>) \in QuietGoals
<1>1. t # "{" => Skip(t, <<>>) \in QuietGoals
  <2>1. Skip(t, <<>>) \in Goals
    BY Empty, PlainGoalTypes DEF PlainGoals
  <2>. QED  BY <2>1 DEF QuietGoals, FitGoal, EndsStmt, Skip
<1>2. ASSUME NEW node \in PlainNodes PROVE Skip(t, <<node>>) \in QuietGoals
  <2>1. node \in TreeNodes /\ node.n \notin {"If", "Else"} \cup Ends
    BY DEF PlainNodes
  <2>2. <<node>> \in Seq(TreeNodes)
    BY <2>1, Short
  <2>. DEFINE g == Skip(t, <<node>>)
  <2>3. g \in Goals
    BY <2>2, PlainGoalTypes DEF PlainGoals
  <2>4. g.do = "Skip" /\ g.nodes = <<node>>
    BY DEF Skip
  <2>. HIDE DEF g
  <2>. QED  BY <2>1, <2>3, <2>4 DEF QuietGoals, FitGoal, EndsStmt, g
<1>. QED  BY <1>1, <1>2

LEMMA QuietEmit ==
  ASSUME NEW node \in PlainNodes
  PROVE  Emit(node) \in QuietGoals
<1>1. node \in TreeNodes /\ node.n \notin {"If", "Else"} \cup Ends
  BY DEF PlainNodes
<1>2. Emit(node) \in Goals
  BY <1>1, PlainGoalTypes DEF PlainGoals
<1>. QED  BY <1>1, <1>2 DEF QuietGoals, FitGoal, EndsStmt, Emit

LEMMA QuietGoalTypes ==
  /\ \A what \in {"FuncDef", "Seq", "Stmts", "Primary", "UnaryOp"} : Do(what) \in QuietGoals
  /\ \A t \in Types : FuncId(t) \in QuietGoals /\ OperatorId(t) \in QuietGoals
  /\ \A def \in FuncDefs : ParamList(def) \in QuietGoals /\ Body(def) \in QuietGoals
  /\ \A of \in Owners : VarDecl(of) \in QuietGoals
  /\ \A of \in Owners, t \in Types : VarId(of, t) \in QuietGoals
  /\ \A x \in VarNames, t \in Types : Local(x, t) \in QuietGoals
  /\ \A x \in Ids : AssignOrCall(x) \in QuietGoals /\ VarOrCall(x) \in QuietGoals
  /\ \A f \in Tokens : Args(f) \in QuietGoals
  /\ \A f \in Tokens, n \in Nat : MoreArgs(f, n) \in QuietGoals
  /\ \A p \in Precedences : Remaining(p) \in QuietGoals
  /\ \A op \in InfixOps : RightOf(op) \in QuietGoals
  /\ \A n \in Nat : Program(n) \in QuietGoals
<1>0. \A g \in PlainGoals : g \in Goals
  BY DEF PlainGoals
<1>1. \A what \in {"FuncDef", "Seq", "Stmts", "Primary", "UnaryOp"} : Do(what) \in QuietGoals
  <2>1. \A what \in {"FuncDef", "Seq", "Stmts", "Primary", "UnaryOp"} :
          Do(what) \in Goals /\ Do(what).do = what
    BY DEF Do, Goals
  <2>. QED  BY <2>1, PlainIsQuiet
<1>2. \A t \in Types : FuncId(t) \in QuietGoals /\ OperatorId(t) \in QuietGoals
  <2>1. \A t \in Types : FuncId(t).do = "FuncId" /\ OperatorId(t).do = "OperatorId"
    BY DEF FuncId, OperatorId
  <2>. QED  BY <1>0, <2>1, PlainGoalTypes, PlainIsQuiet
<1>3. \A def \in FuncDefs : ParamList(def) \in QuietGoals /\ Body(def) \in QuietGoals
  <2>1. \A def \in FuncDefs : ParamList(def).do = "ParamList" /\ Body(def).do = "Body"
    BY DEF ParamList, Body
  <2>. QED  BY <1>0, <2>1, PlainGoalTypes, PlainIsQuiet
<1>4. \A of \in Owners : VarDecl(of) \in QuietGoals
  <2>1. \A of \in Owners : VarDecl(of).do = "VarDecl"
    BY DEF VarDecl
  <2>. QED  BY <1>0, <2>1, PlainGoalTypes, PlainIsQuiet
<1>5. \A of \in Owners, t \in Types : VarId(of, t) \in QuietGoals
  <2>1. \A of \in Owners, t \in Types : VarId(of, t).do = "VarId"
    BY DEF VarId
  <2>. QED  BY <1>0, <2>1, PlainGoalTypes, PlainIsQuiet
<1>6. \A x \in VarNames, t \in Types : Local(x, t) \in QuietGoals
  <2>1. \A x \in VarNames, t \in Types : Local(x, t).do = "Local"
    BY DEF Local
  <2>. QED  BY <1>0, <2>1, PlainGoalTypes, PlainIsQuiet
<1>7. \A x \in Ids : AssignOrCall(x) \in QuietGoals /\ VarOrCall(x) \in QuietGoals
  <2>1. \A x \in Ids : AssignOrCall(x).do = "AssignOrCall" /\ VarOrCall(x).do = "VarOrCall"
    BY DEF AssignOrCall, VarOrCall
  <2>. QED  BY <1>0, <2>1, PlainGoalTypes, PlainIsQuiet
<1>8. \A f \in Tokens : Args(f) \in QuietGoals
  <2>1. \A f \in Tokens : Args(f).do = "Args"
    BY DEF Args
  <2>. QED  BY <1>0, <2>1, PlainGoalTypes, PlainIsQuiet
<1>9. \A f \in Tokens, n \in Nat : MoreArgs(f, n) \in QuietGoals
  <2>1. \A f \in Tokens, n \in Nat : MoreArgs(f, n).do = "MoreArgs"
    BY DEF MoreArgs
  <2>. QED  BY <1>0, <2>1, PlainGoalTypes, PlainIsQuiet
<1>10. \A p \in Precedences : Remaining(p) \in QuietGoals
  <2>1. \A p \in Precedences : Remaining(p).do = "Remaining"
    BY DEF Remaining
  <2>. QED  BY <1>0, <2>1, PlainGoalTypes, PlainIsQuiet
<1>11. \A op \in InfixOps : RightOf(op) \in QuietGoals
  <2>1. \A op \in InfixOps : RightOf(op).do = "RightOf"
    BY DEF RightOf
  <2>. QED  BY <1>0, <2>1, PlainGoalTypes, PlainIsQuiet
<1>12. \A n \in Nat : Program(n) \in QuietGoals
  <2>1. \A n \in Nat : Program(n) \in Goals /\ Program(n).do = "Program"
    BY DEF Program, Goals
  <2>. QED  BY <2>1, PlainIsQuiet
<1>. QED
  BY <1>1, <1>2, <1>3, <1>4, <1>5, <1>6, <1>7, <1>8, <1>9, <1>10, <1>11, <1>12

LEMMA PlainNodeTypes ==
  /\ \A m \in (Marks \cup {"Paren"}) \ {"Else", "EndIf", "EndWhile"} : Mark(m) \in PlainNodes
  /\ \A def \in FuncDefs : [n |-> "Func", def |-> def] \in PlainNodes
  /\ \A x \in VarNames, t \in Types, init \in BOOLEAN :
       [n |-> "Decl", name |-> x, type |-> t, init |-> init] \in PlainNodes
  /\ \A x \in VarNames : [n |-> "Assign", name |-> x] \in PlainNodes
  /\ \A t \in Tokens : [n |-> "Const", text |-> t] \in PlainNodes
  /\ \A x \in VarNames : [n |-> "Var", name |-> x] \in PlainNodes
  /\ \A f \in Tokens, n \in Nat, form \in Forms : CallNode(f, n, form) \in PlainNodes
<1>0. "If" \notin Marks
  BY DEF Marks
<1>1. \A m \in (Marks \cup {"Paren"}) \ {"Else", "EndIf", "EndWhile"} : Mark(m) \in PlainNodes
  BY <1>0, NodeTypes DEF PlainNodes, Mark, Ends
<1>2. \A def \in FuncDefs : [n |-> "Func", def |-> def] \in PlainNodes
  BY NodeTypes DEF PlainNodes, Ends
<1>3. \A x \in VarNames, t \in Types, init \in BOOLEAN :
        [n |-> "Decl", name |-> x, type |-> t, init |-> init] \in PlainNodes
  BY NodeTypes DEF PlainNodes, Ends
<1>4. \A x \in VarNames : [n |-> "Assign", name |-> x] \in PlainNodes
  BY NodeTypes DEF PlainNodes, Ends
<1>5. \A t \in Tokens : [n |-> "Const", text |-> t] \in PlainNodes
  BY NodeTypes DEF PlainNodes, Ends
<1>6. \A x \in VarNames : [n |-> "Var", name |-> x] \in PlainNodes
  BY NodeTypes DEF PlainNodes, Ends
<1>7. \A f \in Tokens, n \in Nat, form \in Forms : CallNode(f, n, form) \in PlainNodes
  BY NodeTypes DEF PlainNodes, Ends, CallNode
<1>. QED  BY <1>1, <1>2, <1>3, <1>4, <1>5, <1>6, <1>7

LEMMA QuietExp ==
  /\ Exp \in Seq(QuietGoals) /\ End \in PlainNodes
  /\ Exp \o <<Skip(";", <<End>>)>> \in Seq(QuietGoals)
  /\ Condition \in Seq(QuietGoals)
  /\ <<Skip("(", <<>>)>> \o Exp \o <<Skip(")", <<Mark("Paren")>>)>> \in Seq(QuietGoals)
<1>1. Do("Primary") \in QuietGoals /\ Remaining(0) \in QuietGoals
  BY QuietGoalTypes DEF Precedences
<1>2. Exp \in Seq(QuietGoals)
  BY <1>1 DEF Exp
<1>3. End \in PlainNodes /\ Mark("Paren") \in PlainNodes
  BY PlainNodeTypes DEF End, Marks
<1>4. /\ Skip(";", <<End>>) \in QuietGoals /\ Skip(")", <<End>>) \in QuietGoals
      /\ Skip("(", <<>>) \in QuietGoals /\ Skip(")", <<Mark("Paren")>>) \in QuietGoals
  BY <1>3, QuietSkip DEF Punctuation
<1>5. /\ <<Skip(";", <<End>>)>> \in Seq(QuietGoals) /\ <<Skip(")", <<End>>)>> \in Seq(QuietGoals)
      /\ <<Skip("(", <<>>)>> \in Seq(QuietGoals)
      /\ <<Skip(")", <<Mark("Paren")>>)>> \in Seq(QuietGoals)
  BY <1>4, Short
<1>6. <<Skip("(", <<>>)>> \o Exp \in Seq(QuietGoals)
  BY <1>2, <1>5, Concat
<1>. QED  BY <1>2, <1>3, <1>5, <1>6, Concat DEF Condition

(* A statement inside another one is expected.                             *)
LEMMA StmtFits ==
  ASSUME NEW gs \in Seq(QuietGoals), NEW g \in Goals, FollowsStmt(g), FitGoal(g),
         EndsStmt(g) => EndsStmt(todo[1])
  PROVE  LET all == gs \o <<Do("Stmt"), g>> IN
         Fits(all) /\ all # <<>> /\ all[Len(all)] = g /\ (LastEndsIf(all) <=> EndsIf(g))
<1>. DEFINE all == gs \o <<Do("Stmt"), g>>
            n == Len(gs)
<1>1. Do("Stmt") \in Goals
  BY PlainGoalTypes DEF PlainGoals
<1>2. /\ gs \in Seq(Goals) /\ n \in Nat /\ DOMAIN gs = 1 .. n
      /\ \A i \in 1 .. n : gs[i] \in QuietGoals
  BY DEF QuietGoals
<1>3. <<Do("Stmt"), g>> \in Seq(Goals)
  BY <1>1, Short
<1>4. /\ all \in Seq(Goals) /\ Len(all) = n + 2 /\ DOMAIN all = 1 .. n + 2
      /\ \A i \in 1 .. n : all[i] = gs[i]
      /\ all[n + 1] = Do("Stmt") /\ all[n + 2] = g /\ all # <<>>
  BY <1>1, <1>2, <1>3
<1>. HIDE DEF all
<1>5. ASSUME NEW i \in 1 .. n + 2
      PROVE  /\ FitGoal(all[i])
             /\ i # n + 2 => ~EndsIf(all[i])
             /\ EndsStmt(all[i]) =>
                  IF i = n + 2 THEN EndsStmt(todo[1]) ELSE FollowsStmt(all[i + 1])
  <2>1. CASE i \in 1 .. n
    <3>1. FitGoal(all[i]) /\ ~EndsStmt(all[i])
      BY <1>2, <1>4, <2>1 DEF QuietGoals
    <3>2. i # n + 2
      BY <1>2, <2>1
    <3>. QED  BY <3>1, IfIsStmt
  <2>2. CASE i = n + 1
    <3>1. all[i] = Do("Stmt") /\ i + 1 = n + 2
      BY <1>2, <1>4, <2>2
    <3>2. FitGoal(all[i]) /\ ~EndsIf(all[i])
      <4>1. Do("Stmt").do = "Stmt"
        BY DEF Do
      <4>2. FitGoal(Do("Stmt")) /\ ~EndsIf(Do("Stmt"))
        BY <4>1 DEF FitGoal, EndsIf
      <4>. QED  BY <3>1, <4>2
    <3>3. FollowsStmt(all[i + 1]) /\ i # n + 2
      BY <1>2, <1>4, <3>1
    <3>. QED  BY <3>2, <3>3
  <2>3. CASE i = n + 2
    BY <1>4, <2>3
  <2>. QED  BY <1>2, <2>1, <2>2, <2>3
<1>6. Fits(all)
  BY <1>4, <1>5 DEF Fits
<1>7. all[Len(all)] = g /\ (LastEndsIf(all) <=> EndsIf(g))
  BY <1>4 DEF LastEndsIf
<1>. QED  BY <1>4, <1>6, <1>7 DEF all

(* At the end of a statement only its own if can be without an else.       *)
LEMMA Unsettled ==
  ASSUME NEW nodes \in Seq(TreeNodes), NEW g, NEW ahead, HeadOK(g, nodes, ahead),
         ~Appends(g), ahead = "else"
  PROVE  AllTaken(nodes, Len(nodes))
<1>1. CASE Settled(nodes)
  <2>1. \A e \in 1 .. Len(nodes) : ~Together(nodes, e, Len(nodes))
    BY <1>1 DEF Settled, Together
  <2>. QED  BY <2>1 DEF AllTaken
<1>. QED  BY <1>1 DEF HeadOK

(* A statement that contains another one ends.                             *)
LEMMA EndNear ==
  ASSUME IInv, NearInv, status = "running", NEW node \in TreeNodes, node.n \in Ends,
         EndsStmt(todo[1]), EndsIf(todo[1]) <=> node.n = "EndIf",
         todo[1].do = "Emit" \/ lookahead # "else",
         Go(<<>>, <<node>>)
  PROVE  NearInv'
<1>. DEFINE new == tree \o <<node>>
            b == Len(tree)
<1>1. /\ tree \in Seq(TreeNodes) /\ todo \in Seq(Goals) /\ todo # <<>> /\ 1 \in DOMAIN todo
      /\ Near(todo, tree, lookahead) /\ lookahead' = lookahead
      /\ todo' = <<>> \o Tail(todo) /\ tree' = new
  BY Running DEF Go
<1>2. /\ Grown(tree, new) /\ Len(new) = b + 1 /\ new[Len(new)] = node
      /\ Depth(new, Len(new)) = Depth(tree, b) + One(node.n = "If") - One(node.n = "EndIf")
      /\ Depth(tree, b) \in Int
  BY <1>1, Appended
<1>3. Fits(<<>>) /\ ~LastEndsIf(<<>>)
  <2>1. <<>> \in Seq(QuietGoals)
    OBVIOUS
  <2>. QED  BY <2>1, QuietFits
<1>. HIDE DEF new, b
<1>4. b \in Nat /\ b = Len(tree)
  BY <1>1 DEF b
<1>5. Balanced(todo, tree, <<>>, new)
  <2>1. One(node.n = "If") = 0 /\ One(LastEndsIf(<<>>)) = 0
    BY <1>3 DEF One, Ends
  <2>2. One(EndsIf(todo[1])) = One(node.n = "EndIf")
    BY DEF One
  <2>3. One(node.n = "EndIf") \in Int
    BY DEF One
  <2>. QED  BY <1>2, <1>3, <1>4, <2>1, <2>2, <2>3 DEF Balanced
<1>6. todo[1].do # "Program" /\ ~Appends(todo[1])
  BY DEF EndsStmt, Appends
<1>7. ASSUME lookahead = "else" PROVE AllTaken(new, Len(new))
  <2>. SUFFICES ASSUME NEW e \in 1 .. Len(new), new[e].n = "EndIf", Together(new, e, Len(new))
                PROVE  ElseTaken(new, e)
    BY DEF AllTaken
  <2>1. Kept(tree, new, b)
    BY <1>2, <1>4 DEF Grown
  <2>2. CASE e \in 1 .. b
    <3>1. tree[e].n = "EndIf" /\ Together(tree, e, b)
      <4>1. \A i \in e .. b : i \in e .. Len(new) /\ i \in 1 .. b
        BY <1>2, <1>4, <2>2
      <4>. QED  BY <2>1, <2>2, <4>1 DEF Kept, Together
    <3>2. AllTaken(tree, b)
      BY <1>1, <1>4, <1>6, <1>7, Unsettled DEF Near
    <3>3. ElseTaken(tree, e)
      BY <2>2, <3>1, <3>2 DEF AllTaken
    <3>. QED  BY <1>4, <2>1, <2>2, <3>3, KeptTaken
  <2>3. CASE e = b + 1
    <3>1. node.n = "EndIf" /\ EndsIf(todo[1]) /\ todo[1].do = "Emit"
      BY <1>2, <1>7, <2>3
    <3>2. PICK d : Deep(todo, tree, d)
      BY <1>1 DEF Near
    <3>3. HasOpenIf(todo[1], tree, d[1]) /\ d[1] = Depth(tree, b)
      BY <1>1, <1>4, <3>1, <3>2 DEF Deep
    <3>4. PICK k \in DOMAIN tree :
            OpenIf(tree, k, d[1]) /\ tree[k] = WithElse
      BY <3>1, <3>3 DEF HasOpenIf
    <3>5. /\ k \in 1 .. b /\ Depth(tree, k) = Depth(tree, b)
          /\ \A j \in k .. b : Depth(tree, j) >= Depth(tree, b)
      BY <1>1, <1>4, <3>3, <3>4 DEF OpenIf
    <3>6. \A j \in 1 .. b : Depth(new, j) = Depth(tree, j) /\ Depth(tree, j) \in Int
      BY <1>4, <2>1, KeptDepth, DepthInt
    <3>7. Depth(new, e) = Depth(tree, b) - 1
      BY <1>2, <2>3, <3>1 DEF One
    <3>8. new[k] = WithElse
      BY <2>1, <3>4, <3>5 DEF Kept
    <3>9. \A j \in k .. e - 1 : j \in k .. b /\ j \in 1 .. b
      BY <1>4, <2>3, <3>5
    <3>10. k \in 1 .. e - 1
      BY <1>4, <2>3, <3>5
    <3>11. Depth(new, k) = Depth(new, e) + 1
      BY <1>2, <3>5, <3>6, <3>7
    <3>12. \A j \in k .. e - 1 : Depth(new, j) > Depth(new, e)
      BY <1>2, <3>5, <3>6, <3>7, <3>9
    <3>. QED  BY <3>8, <3>10, <3>11, <3>12 DEF ElseTaken
  <2>. QED  BY <1>2, <1>4, <2>2, <2>3
<1>8. HeadOK(todo'[1], new, lookahead')
  <2>1. 2 \in DOMAIN todo /\ FollowsStmt(todo[2])
    <3>1. 1 + 1 = 2
      OBVIOUS
    <3>. QED  BY <1>1, <3>1 DEF Near, Followed
  <2>2. todo'[1] = todo[2]
    BY <1>1, <2>1
  <2>3. Behind(todo[2])
    BY <2>1 DEF FollowsStmt, Behind
  <2>. QED  BY <1>1, <1>7, <2>2, <2>3 DEF HeadOK
<1>9. new[Len(new)].n # "Else"
  BY <1>2 DEF Ends
<1>. QED  BY <1>1, <1>2, <1>3, <1>5, <1>6, <1>8, <1>9, NearStep

LEMMA GoalNear ==
  ASSUME IInv, NearInv, SkipToken \/ EmitNode
  PROVE  NearInv'
<1>. DEFINE g == Head(todo)
<1>0. status = "running" /\ g = todo[1] /\ g \in Goals /\ FitGoal(g)
  <2>1. status = "running"
    BY DEF SkipToken, EmitNode, Doing
  <2>. QED  BY <2>1, Running DEF Near
<1>1. Fits(<<>>) /\ ~LastEndsIf(<<>>)
  <2>1. <<>> \in Seq(QuietGoals)
    OBVIOUS
  <2>. QED  BY <2>1, QuietFits
<1>. HIDE DEF g
<1>2. CASE SkipToken
  <2>1. g.do = "Skip" /\ (Take(<<>>, g.nodes) \/ TakeError)
    BY <1>2 DEF SkipToken, Doing, g
  <2>2. /\ Few(g.nodes) /\ (g.nodes # <<>> \/ Calm(g))
        /\ ~EndsIf(g) /\ g.do # "Program"
    <3>1. CASE g.nodes = <<>> /\ g.token # "{"
      BY <2>1, <3>1 DEF Few, Calm, Appends, Behind, EndsIf
    <3>2. CASE \E node \in TreeNodes :
                 g.nodes = <<node>> /\ node.n \notin {"If", "Else"} \cup Ends
      BY <2>1, <3>2 DEF Few, PlainNodes, EndsIf
    <3>. QED  BY <1>0, <2>1, <3>1, <3>2 DEF FitGoal
  <2>3. CASE Take(<<>>, g.nodes)
    BY <1>0, <1>1, <2>2, <2>3, PlainNear DEF g
  <2>4. CASE TakeError
    BY <1>0, <2>4, ErrorNear
  <2>. QED  BY <2>1, <2>3, <2>4
<1>3. CASE EmitNode
  <2>1. g.do = "Emit" /\ Go(<<>>, <<g.node>>)
    BY <1>3 DEF EmitNode, Doing, g
  <2>2. g.node \in TreeNodes /\ g.node.n \notin {"If", "Else"}
    BY <1>0, <2>1, GoalFields DEF FitGoal
  <2>3. CASE g.node.n \in Ends
    <3>1. EndsStmt(g) /\ (EndsIf(g) <=> g.node.n = "EndIf")
      BY <2>1, <2>3 DEF EndsStmt, EndsIf
    <3>. QED  BY <1>0, <2>1, <2>2, <2>3, <3>1, EndNear
  <2>4. CASE g.node.n \notin Ends
    <3>. DEFINE nodes == <<g.node>>
    <3>1. g.node \in PlainNodes
      BY <2>2, <2>4 DEF PlainNodes
    <3>2. Few(nodes) /\ nodes # <<>>
      BY <3>1 DEF Few
    <3>3. ~EndsIf(g) /\ g.do # "Program"
      BY <2>1, <2>4 DEF EndsIf, Ends
    <3>4. Go(<<>>, nodes)
      BY <2>1
    <3>. HIDE DEF nodes
    <3>. QED  BY <1>0, <1>1, <3>2, <3>3, <3>4, PlainNear DEF g
  <2>. QED  BY <2>3, <2>4
<1>. QED  BY <1>2, <1>3

LEMMA DefinitionNear ==
  ASSUME IInv, NearInv, ParseFuncDef \/ ParseFuncId \/ ParseOperatorId \/ ParseParams \/ ParseBody
  PROVE  NearInv'
<1>0. Few(<<>>) /\ <<>> \in Seq(QuietGoals)
  BY DEF Few
<1>1. ASSUME NEW name \in FuncNames, NEW ret \in Types
      PROVE  Signature(name, ret) \in Seq(QuietGoals)
  <2>1. [name |-> name, ret |-> ret, params |-> <<>>, body |-> FALSE] \in FuncDefs
    BY DEF FuncDefs
  <2>2. Skip("(", <<>>) \in QuietGoals
    BY QuietSkip DEF Punctuation
  <2>. QED  BY <2>1, <2>2, QuietGoalTypes DEF Signature
<1>2. CASE ParseFuncDef
  <2>1. status = "running" /\ Head(todo).do = "FuncDef"
    BY <1>2, HeadType DEF ParseFuncDef
  <2>2. CASE lookahead \in Types
    <3>1. <<FuncId(lookahead)>> \in Seq(QuietGoals)
      BY <2>2, QuietGoalTypes
    <3>2. Take(<<FuncId(lookahead)>>, <<>>)
      BY <1>2, <2>2 DEF ParseFuncDef
    <3>. QED  BY <1>0, <2>1, <3>1, <3>2, CalmNear DEF CalmHeads
  <2>3. CASE lookahead \notin Types
    BY <1>2, <2>1, <2>3, ErrorNear DEF ParseFuncDef
  <2>. QED  BY <2>2, <2>3
<1>3. CASE ParseFuncId
  <2>1. status = "running" /\ Head(todo).do = "FuncId" /\ Head(todo).ret \in Types
    BY <1>3, HeadType, GoalFields DEF ParseFuncId
  <2>. DEFINE ret == Head(todo).ret
  <2>2. \/ Take(<<OperatorId(ret)>>, <<>>)
        \/ lookahead \in Ids /\ Take(Signature(lookahead, ret), <<>>)
        \/ TakeError
    BY <1>3 DEF ParseFuncId
  <2>3. <<OperatorId(ret)>> \in Seq(QuietGoals)
    BY <2>1, QuietGoalTypes
  <2>4. lookahead \in Ids => Signature(lookahead, ret) \in Seq(QuietGoals)
    BY <1>1, <2>1, NamedTokens
  <2>. HIDE DEF ret
  <2>. QED  BY <1>0, <2>1, <2>2, <2>3, <2>4, CalmNear, ErrorNear DEF CalmHeads
<1>4. CASE ParseOperatorId
  <2>1. status = "running" /\ Head(todo).do = "OperatorId" /\ Head(todo).ret \in Types
    BY <1>4, HeadType, GoalFields DEF ParseOperatorId
  <2>2. CASE IsOperator(lookahead)
    <3>1. Signature(lookahead, Head(todo).ret) \in Seq(QuietGoals)
      BY <1>1, <2>1, <2>2, NamedTokens DEF IsOperator
    <3>2. Take(Signature(lookahead, Head(todo).ret), <<>>)
      BY <1>4, <2>2 DEF ParseOperatorId
    <3>. QED  BY <1>0, <2>1, <3>1, <3>2, CalmNear DEF CalmHeads
  <2>3. CASE ~IsOperator(lookahead)
    BY <1>4, <2>1, <2>3, ErrorNear DEF ParseOperatorId
  <2>. QED  BY <2>2, <2>3
<1>5. CASE ParseParams
  <2>. DEFINE def == Head(todo).def
  <2>1. status = "running" /\ Head(todo).do = "ParamList" /\ def \in FuncDefs
    BY <1>5, HeadType, GoalFields DEF ParseParams
  <2>2. /\ <<Body(def)>> \in Seq(QuietGoals) /\ <<VarDecl(def)>> \in Seq(QuietGoals)
        /\ <<Skip(",", <<>>), VarDecl(def)>> \in Seq(QuietGoals)
    <3>1. Body(def) \in QuietGoals /\ VarDecl(def) \in QuietGoals
      BY <2>1, QuietGoalTypes DEF Owners
    <3>2. Skip(",", <<>>) \in QuietGoals
      BY QuietSkip DEF Punctuation
    <3>. QED  BY <3>1, <3>2, Short
  <2>3. \/ Take(<<Body(def)>>, <<>>)
        \/ Go(<<VarDecl(def)>>, <<>>)
        \/ Go(<<Skip(",", <<>>), VarDecl(def)>>, <<>>)
    BY <1>5 DEF ParseParams
  <2>. HIDE DEF def
  <2>. QED  BY <1>0, <2>1, <2>2, <2>3, CalmNear DEF CalmHeads
<1>6. CASE ParseBody
  <2>. DEFINE defined  == [n |-> "Func", def |-> [Head(todo).def EXCEPT !.body = TRUE]]
              declared == [n |-> "Func", def |-> [Head(todo).def EXCEPT !.body = FALSE]]
  <2>1. status = "running" /\ Head(todo).do = "Body" /\ Head(todo).def \in FuncDefs
    BY <1>6, HeadType, GoalFields DEF ParseBody
  <2>2. defined \in PlainNodes /\ declared \in PlainNodes
    <3>1. \A b \in BOOLEAN : [Head(todo).def EXCEPT !.body = b] \in FuncDefs
      BY <2>1 DEF FuncDefs
    <3>. QED  BY <3>1, PlainNodeTypes
  <2>3. \/ Go(<<Do("Seq"), Emit(Mark("EndFunc"))>>, <<defined>>)
        \/ Go(<<Skip(";", <<declared>>)>>, <<>>)
    BY <1>6 DEF ParseBody
  <2>. HIDE DEF defined, declared
  <2>4. <<Do("Seq"), Emit(Mark("EndFunc"))>> \in Seq(QuietGoals)
    <3>1. Mark("EndFunc") \in PlainNodes
      BY PlainNodeTypes DEF Marks
    <3>2. Do("Seq") \in QuietGoals /\ Emit(Mark("EndFunc")) \in QuietGoals
      BY <3>1, QuietEmit, QuietGoalTypes
    <3>. QED  BY <3>2, Short
  <2>5. <<Skip(";", <<declared>>)>> \in Seq(QuietGoals)
    <3>1. Skip(";", <<declared>>) \in QuietGoals
      BY <2>2, QuietSkip DEF Punctuation
    <3>. QED  BY <3>1, Short
  <2>6. Few(<<defined>>)
    BY <2>2 DEF Few
  <2>. QED  BY <1>0, <2>1, <2>3, <2>4, <2>5, <2>6, CalmNear DEF CalmHeads
<1>. QED  BY <1>2, <1>3, <1>4, <1>5, <1>6

(* A declaration that is only read appends nothing yet.                    *)
LEMMA VarDeclNear ==
  ASSUME IInv, NearInv, ParseVarDecl \/ ParseVarId
  PROVE  NearInv'
<1>0. ASSUME status = "running", Head(todo).do \in {"VarDecl", "VarId"},
             NEW goal \in QuietGoals, Take(<<goal>>, <<>>),
             Head(todo).of = Null => Appends(goal)
      PROVE  NearInv'
  <2>1. /\ Head(todo) = todo[1] /\ tree \in Seq(TreeNodes)
        /\ todo' = <<goal>> \o Tail(todo) /\ tree' = tree \o <<>>
    BY <1>0, Running DEF Take
  <2>2. <<goal>> \in Seq(QuietGoals) /\ <<goal>> # <<>> /\ <<goal>>[1] = goal
    BY <1>0, Short
  <2>3. Fits(<<goal>>) /\ ~LastEndsIf(<<goal>>)
    BY <2>2, QuietFits
  <2>4. ~EndsIf(todo[1]) /\ todo[1].do # "Program"
    BY <1>0, <2>1 DEF EndsIf
  <2>5. (~Appends(todo[1]) /\ ~Behind(todo[1])) \/ Appends(goal)
    BY <1>0, <2>1 DEF Appends, Behind
  <2>6. tree' = tree
    BY <2>1
  <2>. QED  BY <1>0, <2>1, <2>2, <2>3, <2>4, <2>5, <2>6, StayNear
<1>1. CASE ParseVarDecl
  <2>1. status = "running" /\ Head(todo).do = "VarDecl" /\ Head(todo).of \in Owners
    BY <1>1, HeadType, GoalFields DEF ParseVarDecl
  <2>2. CASE lookahead \in Types
    <3>. DEFINE goal == VarId(Head(todo).of, lookahead)
    <3>1. goal \in QuietGoals
      BY <2>1, <2>2, QuietGoalTypes
    <3>2. Take(<<goal>>, <<>>)
      BY <1>1, <2>2 DEF ParseVarDecl
    <3>3. Head(todo).of = Null => Appends(goal)
      BY DEF Appends, VarId
    <3>. HIDE DEF goal
    <3>. QED  BY <1>0, <2>1, <3>1, <3>2, <3>3
  <2>3. CASE lookahead \notin Types
    BY <1>1, <2>1, <2>3, ErrorNear DEF ParseVarDecl
  <2>. QED  BY <2>2, <2>3
<1>2. CASE ParseVarId
  <2>. DEFINE def  == Head(todo).of
              t    == Head(todo).type
              more == [def EXCEPT !.params = Append(@, [name |-> lookahead, type |-> t])]
              goal == IF def = Null THEN Local(lookahead, t) ELSE ParamList(more)
  <2>1. status = "running" /\ Head(todo).do = "VarId" /\ def \in Owners /\ t \in Types
    BY <1>2, HeadType, GoalFields DEF ParseVarId
  <2>2. CASE lookahead \in Ids
    <3>1. Take(<<goal>>, <<>>)
      BY <1>2, <2>2 DEF ParseVarId
    <3>2. goal \in QuietGoals
      <4>1. CASE def = Null
        BY <2>1, <2>2, <4>1, NamedTokens, QuietGoalTypes
      <4>2. CASE def # Null
        <5>1. [name |-> lookahead, type |-> t] \in Params
          BY <2>1, <2>2, NamedTokens DEF Params
        <5>2. def \in FuncDefs
          BY <2>1, <4>2 DEF Owners
        <5>3. more \in FuncDefs
          BY <5>1, <5>2 DEF FuncDefs
        <5>. QED  BY <4>2, <5>3, QuietGoalTypes
      <4>. QED  BY <4>1, <4>2
    <3>3. Head(todo).of = Null => Appends(goal)
      BY DEF Appends, Local
    <3>. HIDE DEF goal
    <3>. QED  BY <1>0, <2>1, <3>1, <3>2, <3>3
  <2>3. CASE lookahead \notin Ids
    BY <1>2, <2>1, <2>3, ErrorNear DEF ParseVarId
  <2>. QED  BY <2>2, <2>3
<1>. QED  BY <1>1, <1>2

LEMMA ProgramNear ==
  ASSUME IInv, NearInv, NextFuncDef
  PROVE  NearInv'
<1>1. status = "running" /\ Head(todo).do = "Program"
  BY HeadType DEF NextFuncDef
<1>2. CASE lookahead = EOF
  <2>1. status' = "ok" /\ tree' = tree
    BY <1>2 DEF NextFuncDef
  <2>. QED  BY <2>1 DEF NearInv
<1>3. CASE lookahead # EOF
  <2>. DEFINE goals == <<Do("FuncDef"), Program(Len(tree))>>
  <2>1. Go(goals, <<>>)
    BY <1>3 DEF NextFuncDef
  <2>2. Len(tree) \in Nat
    BY DEF IInv, TypeOK
  <2>3. Do("FuncDef") \in QuietGoals /\ Program(Len(tree)) \in QuietGoals
    BY <2>2, QuietGoalTypes
  <2>4. goals \in Seq(QuietGoals) /\ goals # <<>> /\ Few(<<>>)
    BY <2>3, Short DEF Few
  <2>. HIDE DEF goals
  <2>. QED  BY <1>1, <2>1, <2>4, CalmNear DEF CalmHeads
<1>. QED  BY <1>2, <1>3

LEMMA SeqNear ==
  ASSUME IInv, NearInv, ParseSeq \/ ParseStmts
  PROVE  NearInv'
<1>1. /\ status = "running" /\ Head(todo).do \in {"Seq", "Stmts"} /\ Head(todo) = todo[1]
      /\ tree \in Seq(TreeNodes)
  <2>1. status = "running" /\ Head(todo).do \in {"Seq", "Stmts"}
    BY HeadType DEF ParseSeq, ParseStmts
  <2>. QED  BY <2>1, Running
<1>2. ~EndsIf(todo[1]) /\ todo[1].do # "Program" /\ ~Appends(todo[1])
  BY <1>1 DEF EndsIf, Appends
<1>3. ASSUME NEW gs, Fits(gs), ~LastEndsIf(gs), gs # <<>>, Behind(gs[1]), Go(gs, <<>>)
      PROVE  NearInv'
  <2>1. /\ todo' = gs \o Tail(todo) /\ tree' = tree \o <<>> /\ lookahead' = lookahead
    BY <1>3 DEF Go
  <2>2. tree' = tree
    BY <1>1, <2>1
  <2>. QED  BY <1>1, <1>2, <1>3, <2>1, <2>2, StayNear
<1>4. CASE ParseSeq
  <2>. DEFINE gs == <<Skip("{", <<Mark("Seq")>>), Do("Stmts")>>
  <2>1. Mark("Seq") \in PlainNodes
    BY PlainNodeTypes DEF Marks
  <2>2. Skip("{", <<Mark("Seq")>>) \in QuietGoals /\ Do("Stmts") \in QuietGoals
    BY <2>1, QuietSkip, QuietGoalTypes DEF Punctuation
  <2>3. gs \in Seq(QuietGoals) /\ gs # <<>> /\ gs[1] = Skip("{", <<Mark("Seq")>>)
    BY <2>2, Short
  <2>4. Behind(Skip("{", <<Mark("Seq")>>))
    BY DEF Behind, Skip
  <2>5. Go(gs, <<>>)
    BY <1>4 DEF ParseSeq
  <2>. HIDE DEF gs
  <2>. QED  BY <1>3, <2>3, <2>4, <2>5, QuietFits
<1>5. CASE ParseStmts
  <2>. DEFINE gs == <<Do("Stmt"), Do("Stmts")>>
              nodes == <<Mark("EndSeq")>>
  <2>1. Take(<<>>, nodes) \/ Go(gs, <<>>)
    BY <1>5 DEF ParseStmts
  <2>2. CASE Take(<<>>, nodes)
    <3>1. Mark("EndSeq") \in PlainNodes
      BY PlainNodeTypes DEF Marks
    <3>2. Few(nodes) /\ nodes # <<>> /\ <<>> \in Seq(QuietGoals)
      BY <3>1 DEF Few
    <3>. HIDE DEF nodes
    <3>. QED  BY <1>1, <1>2, <2>2, <3>2, QuietFits, PlainNear
  <2>3. CASE Go(gs, <<>>)
    <3>1. Do("Stmts") \in Goals /\ Do("Stmts").do = "Stmts" /\ Do("Stmt").do = "Stmt"
      BY DEF Do, Goals
    <3>2. /\ FollowsStmt(Do("Stmts")) /\ FitGoal(Do("Stmts")) /\ ~EndsStmt(Do("Stmts"))
          /\ ~EndsIf(Do("Stmts")) /\ Behind(Do("Stmt"))
      BY <3>1 DEF FollowsStmt, FitGoal, EndsStmt, EndsIf, Behind
    <3>3. <<>> \in Seq(QuietGoals) /\ gs = <<>> \o <<Do("Stmt"), Do("Stmts")>>
      OBVIOUS
    <3>4. gs # <<>> /\ gs[1] = Do("Stmt")
      OBVIOUS
    <3>. HIDE DEF gs
    <3>5. Fits(gs) /\ ~LastEndsIf(gs)
      BY <3>1, <3>2, <3>3, StmtFits
    <3>. QED  BY <1>3, <2>3, <3>2, <3>4, <3>5
  <2>. QED  BY <2>1, <2>2, <2>3
<1>. QED  BY <1>4, <1>5

LEMMA StmtNear ==
  ASSUME IInv, NearInv, ParseStmt
  PROVE  NearInv'
<1>. DEFINE returns == Exp \o <<Skip(";", <<End>>)>>
            other   == Else(Len(tree) + 1)
            again   == Emit(Mark("EndWhile"))
            ifs     == Condition \o <<Do("Stmt"), other>>
            loop    == Condition \o <<Do("Stmt"), again>>
            if      == [n |-> "If", else |-> FALSE]
            x       == AssignOrCall(lookahead)
<1>1. /\ status = "running" /\ Head(todo).do = "Stmt" /\ Head(todo) = todo[1]
      /\ tree \in Seq(TreeNodes) /\ Len(tree) \in Nat /\ todo \in Seq(Goals)
  <2>1. status = "running" /\ Head(todo).do = "Stmt"
    BY HeadType DEF ParseStmt
  <2>. QED  BY <2>1, Running
<1>2. /\ ~EndsIf(todo[1]) /\ todo[1].do # "Program" /\ ~Appends(todo[1]) /\ Behind(todo[1])
      /\ EndsStmt(todo[1])
  BY <1>1 DEF EndsIf, Appends, Behind, EndsStmt
<1>3. \/ lookahead \in Ids /\ Take(<<x>>, <<>>)
      \/ Go(<<VarDecl(Null)>>, <<>>)
      \/ Go(<<Do("Seq")>>, <<>>)
      \/ Take(returns, <<Mark("Return")>>)
      \/ Take(ifs, <<if>>)
      \/ Take(loop, <<Mark("While")>>)
      \/ ParseError
  BY DEF ParseStmt
<1>4. /\ Mark("Return") \in PlainNodes /\ Mark("While") \in PlainNodes
      /\ Mark("EndWhile") \in TreeNodes /\ Mark("EndWhile").n = "EndWhile"
  BY PlainNodeTypes, NodeTypes DEF Marks, Mark
<1>5. Few(<<Mark("Return")>>) /\ Few(<<Mark("While")>>)
  BY <1>4 DEF Few
<1>6. Condition \in Seq(QuietGoals) /\ returns \in Seq(QuietGoals)
  BY QuietExp
<1>. HIDE DEF returns, ifs, if, loop, x
<1>7. CASE lookahead \in Ids /\ Take(<<x>>, <<>>)
  <2>1. x \in QuietGoals /\ Appends(x)
    BY <1>7, QuietGoalTypes DEF x, Appends, AssignOrCall
  <2>2. <<x>> \in Seq(QuietGoals) /\ <<x>> # <<>> /\ <<x>>[1] = x
    BY <2>1, Short
  <2>3. todo' = <<x>> \o Tail(todo) /\ tree' = tree
    BY <1>1, <1>7 DEF Take
  <2>4. Fits(<<x>>) /\ ~LastEndsIf(<<x>>)
    BY <2>2, QuietFits
  <2>. QED  BY <1>1, <1>2, <2>1, <2>2, <2>3, <2>4, StayNear
<1>8. ASSUME NEW goal \in QuietGoals, Behind(goal), Go(<<goal>>, <<>>)
      PROVE  NearInv'
  <2>1. <<goal>> \in Seq(QuietGoals) /\ <<goal>> # <<>> /\ <<goal>>[1] = goal
    BY <1>8, Short
  <2>2. todo' = <<goal>> \o Tail(todo) /\ tree' = tree /\ lookahead' = lookahead
    BY <1>1, <1>8 DEF Go
  <2>3. Fits(<<goal>>) /\ ~LastEndsIf(<<goal>>)
    BY <2>1, QuietFits
  <2>. QED  BY <1>1, <1>2, <1>8, <2>1, <2>2, <2>3, StayNear
<1>9. CASE Go(<<VarDecl(Null)>>, <<>>)
  <2>1. VarDecl(Null) \in QuietGoals /\ Behind(VarDecl(Null))
    BY QuietGoalTypes DEF Owners, Behind, VarDecl
  <2>. QED  BY <1>8, <1>9, <2>1
<1>10. CASE Go(<<Do("Seq")>>, <<>>)
  <2>1. Do("Seq") \in QuietGoals /\ Behind(Do("Seq"))
    BY QuietGoalTypes DEF Behind, Do
  <2>. QED  BY <1>8, <1>10, <2>1
<1>11. CASE Take(returns, <<Mark("Return")>>)
  <2>1. Fits(returns) /\ ~LastEndsIf(returns)
    BY <1>6, QuietFits
  <2>. QED  BY <1>1, <1>2, <1>5, <1>11, <2>1, PlainNear
<1>12. CASE Take(loop, <<Mark("While")>>)
  <2>1. again.do = "Emit" /\ again.node = Mark("EndWhile")
    BY DEF Emit
  <2>2. again \in Goals
    BY <1>4, PlainGoalTypes DEF PlainGoals
  <2>. HIDE DEF again
  <2>3. FollowsStmt(again) /\ FitGoal(again) /\ ~EndsIf(again)
    BY <1>4, <2>1 DEF FollowsStmt, FitGoal, EndsIf
  <2>4. Fits(loop) /\ ~LastEndsIf(loop)
    BY <1>2, <1>6, <2>2, <2>3, StmtFits DEF loop
  <2>. QED  BY <1>1, <1>2, <1>5, <1>12, <2>4, PlainNear
<1>13. CASE Take(ifs, <<if>>)
  <2>. DEFINE new == tree \o <<if>>
              k   == Len(tree) + 1
  <2>1. other.do = "Else" /\ other.if = k /\ other \in Goals
    BY <1>1 DEF Else, Goals
  <2>2. FollowsStmt(other) /\ FitGoal(other) /\ EndsIf(other)
    BY <2>1 DEF FollowsStmt, FitGoal, EndsIf
  <2>. HIDE DEF other
  <2>3. Fits(ifs) /\ ifs # <<>> /\ ifs[Len(ifs)] = other /\ LastEndsIf(ifs)
    BY <1>2, <1>6, <2>1, <2>2, StmtFits DEF ifs
  <2>4. if \in TreeNodes /\ if.n = "If"
    BY NodeTypes DEF if
  <2>5. /\ Grown(tree, new) /\ Len(new) = k /\ new[Len(new)] = if
        /\ Depth(new, Len(new)) = Depth(tree, Len(tree)) + One(if.n = "If") - One(if.n = "EndIf")
        /\ Depth(tree, Len(tree)) \in Int
    BY <1>1, <2>4, Appended
  <2>6. todo' = ifs \o Tail(todo) /\ tree' = new
    BY <1>13 DEF Take
  <2>. HIDE DEF new, k
  <2>7. One(if.n = "If") = 1 /\ One(if.n = "EndIf") = 0
    BY <2>4 DEF One
  <2>8. One(EndsIf(todo[1])) = 0 /\ One(LastEndsIf(ifs)) = 1
    BY <1>2, <2>3 DEF One
  <2>9. new \in Seq(TreeNodes)
    BY <2>5 DEF Grown
  <2>10. OpenIf(new, k, Depth(new, Len(new)))
    <3>1. k \in DOMAIN new /\ new[k].n = "If" /\ Depth(new, k) = Depth(new, Len(new))
      BY <1>1, <2>4, <2>5, <2>9 DEF k
    <3>2. k \in Int /\ \A j \in k .. Len(new) : j = Len(new)
      BY <1>1, <2>5 DEF k
    <3>3. Depth(new, Len(new)) \in Int
      BY <2>9, DepthInt
    <3>. QED  BY <3>1, <3>2, <3>3 DEF OpenIf
  <2>11. HasOpenIf(other, new, Depth(new, Len(new)))
    <3>1. k \in DOMAIN new
      BY <2>10 DEF OpenIf
    <3>. QED  BY <2>1, <2>10, <3>1 DEF HasOpenIf
  <2>12. Balanced(todo, tree, ifs, new)
    <3>1. Depth(new, Len(new)) = Depth(tree, Len(tree)) + 1
      BY <2>5, <2>7
    <3>2. Depth(new, Len(new))
            = Depth(tree, Len(tree)) - One(EndsIf(todo[1])) + One(LastEndsIf(ifs))
      BY <2>5, <2>8, <3>1
    <3>. QED  BY <2>3, <2>11, <3>2 DEF Balanced
  <2>13. new # <<>> /\ new[Len(new)].n \notin Ends \cup {"Else"}
    BY <1>1, <2>4, <2>5 DEF Ends, k
  <2>14. HeadOK(todo'[1], new, lookahead')
    BY <2>13 DEF HeadOK, Settled
  <2>. QED  BY <1>1, <1>2, <2>3, <2>5, <2>6, <2>12, <2>13, <2>14, NearStep
<1>14. CASE ParseError
  BY <1>1, <1>14, ErrorNear
<1>. QED  BY <1>3, <1>7, <1>9, <1>10, <1>11, <1>12, <1>13, <1>14

LEMMA AssignOrLocalNear ==
  ASSUME IInv, NearInv, ParseAssignOrCall \/ ParseLocal
  PROVE  NearInv'
<1>. DEFINE x == Head(todo).name
            t == Head(todo).type
            initial == Exp \o <<Skip(";", <<End>>)>>
<1>1. /\ initial \in Seq(QuietGoals)
      /\ Skip(";", <<End>>) \in QuietGoals /\ Skip(";", <<>>) \in QuietGoals
  BY QuietExp, QuietSkip DEF Punctuation
<1>2. ASSUME status = "running", Head(todo).do \in {"AssignOrCall", "Local"},
             NEW gs \in Seq(QuietGoals), NEW node \in PlainNodes,
             Go(gs, <<node>>) \/ Take(gs, <<node>>)
      PROVE  NearInv'
  <2>1. Fits(gs) /\ ~LastEndsIf(gs)
    BY <1>2, QuietFits
  <2>2. ~EndsIf(Head(todo)) /\ Head(todo).do # "Program"
    BY <1>2 DEF EndsIf
  <2>. DEFINE nodes == <<node>>
  <2>3. Few(nodes) /\ nodes # <<>>
    BY <1>2 DEF Few
  <2>4. Go(gs, nodes) \/ Take(gs, nodes)
    BY <1>2
  <2>. HIDE DEF nodes
  <2>. QED  BY <1>2, <2>1, <2>2, <2>3, <2>4, PlainNear
<1>. HIDE DEF initial
<1>3. CASE ParseAssignOrCall
  <2>. DEFINE call == <<Args(x), Skip(";", <<End>>)>>
              node == [n |-> "Assign", name |-> x]
  <2>1. status = "running" /\ Head(todo).do = "AssignOrCall" /\ x \in Ids
    BY <1>3, HeadType, GoalFields DEF ParseAssignOrCall
  <2>2. Take(initial, <<node>>) \/ Go(call, <<Mark("CallStmt")>>)
    BY <1>3 DEF ParseAssignOrCall, initial
  <2>3. Args(x) \in QuietGoals /\ node \in PlainNodes /\ Mark("CallStmt") \in PlainNodes
    BY <2>1, NamedTokens, QuietGoalTypes, PlainNodeTypes DEF Marks
  <2>4. call \in Seq(QuietGoals)
    BY <1>1, <2>3, Short
  <2>. HIDE DEF call, node, x
  <2>. QED  BY <1>1, <1>2, <2>1, <2>2, <2>3, <2>4
<1>4. CASE ParseLocal
  <2>. DEFINE decl == [n |-> "Decl", name |-> x, type |-> t, init |-> FALSE]
              init == [n |-> "Decl", name |-> x, type |-> t, init |-> TRUE]
  <2>1. status = "running" /\ Head(todo).do = "Local" /\ x \in VarNames /\ t \in Types
    BY <1>4, HeadType, GoalFields DEF ParseLocal
  <2>2. Take(initial, <<init>>) \/ Go(<<Skip(";", <<>>)>>, <<decl>>)
    BY <1>4 DEF ParseLocal, initial
  <2>3. decl \in PlainNodes /\ init \in PlainNodes
    BY <2>1, PlainNodeTypes
  <2>4. <<Skip(";", <<>>)>> \in Seq(QuietGoals)
    BY <1>1, Short
  <2>. HIDE DEF decl, init
  <2>. QED  BY <1>1, <1>2, <2>1, <2>2, <2>3, <2>4
<1>. QED  BY <1>3, <1>4

LEMMA IfWithElse ==
  ASSUME NEW node \in TreeNodes, node.n = "If"
  PROVE  [node EXCEPT !.else = TRUE] = WithElse
<1>1. node \in [n : {"If"}, else : BOOLEAN]
  BY DEF TreeNodes, Marks
<1>. DEFINE new == [node EXCEPT !.else = TRUE]
<1>2. new \in [n : {"If"}, else : BOOLEAN] /\ new.else
  BY <1>1
<1>. HIDE DEF new
<1>3. PICK b \in BOOLEAN : new = [n |-> "If", else |-> b]
  BY <1>2
<1>4. b = TRUE
  BY <1>2, <1>3
<1>5. new = WithElse
  BY <1>3, <1>4 DEF WithElse
<1>. QED  BY <1>5 DEF new

(* The if of the first goal gets its else branch.                          *)
LEMMA ElseNear ==
  ASSUME IInv, NearInv, ParseElse
  PROVE  NearInv'
<1>. DEFINE k    == Head(todo).if
            last == Emit(Mark("EndIf"))
            gs   == <<Do("Stmt"), last>>
            b    == Len(tree)
<1>1. /\ status = "running" /\ Head(todo).do = "Else" /\ Head(todo) = todo[1]
      /\ tree \in Seq(TreeNodes) /\ b \in Nat /\ todo \in Seq(Goals) /\ todo # <<>>
      /\ 1 \in DOMAIN todo /\ Near(todo, tree, lookahead)
  <2>1. status = "running" /\ Head(todo).do = "Else"
    BY HeadType DEF ParseElse
  <2>. QED  BY <2>1, Running
<1>2. EndsIf(todo[1]) /\ EndsStmt(todo[1]) /\ todo[1].do # "Program" /\ ~Appends(todo[1])
  BY <1>1 DEF EndsIf, EndsStmt, Appends
<1>3. /\ Mark("EndIf") \in TreeNodes /\ Mark("EndIf").n = "EndIf"
      /\ Mark("Else") \in TreeNodes /\ Mark("Else").n = "Else"
  BY NodeTypes DEF Marks, Mark
<1>4. CASE lookahead # "else"
  <2>1. Go(<<>>, <<Mark("EndIf")>>)
    BY <1>4 DEF ParseElse
  <2>2. "EndIf" \in Ends
    BY DEF Ends
  <2>. QED  BY <1>1, <1>2, <1>3, <1>4, <2>1, <2>2, EndNear
<1>5. CASE lookahead = "else"
  <2>. DEFINE marked == [tree EXCEPT ![k].else = TRUE]
              new    == Append(marked, Mark("Else"))
  <2>1. k \in 1 .. b /\ tree[k].n = "If"
    <3>1. HasIf(todo[1], tree)
      BY <1>1 DEF IInv, ElsesHaveIf
    <3>. QED  BY <1>1, <3>1 DEF HasIf
  <2>2. todo' = gs \o Tail(todo) /\ tree' = new
    BY <1>5 DEF ParseElse
  <2>3. /\ new \in Seq(TreeNodes) /\ Len(new) = b + 1 /\ new[b + 1] = Mark("Else")
        /\ new[k] = WithElse
        /\ \A i \in 1 .. b : i # k => new[i] = tree[i]
    <3>1. tree[k] \in TreeNodes
      BY <1>1, <2>1
    <3>2. [tree[k] EXCEPT !.else = TRUE] \in TreeNodes /\ [tree[k] EXCEPT !.else = TRUE] = WithElse
      BY <2>1, <3>1, ElseKeepsIf, IfWithElse
    <3>3. marked = [tree EXCEPT ![k] = [tree[k] EXCEPT !.else = TRUE]]
      OBVIOUS
    <3>4. /\ marked \in Seq(TreeNodes) /\ Len(marked) = b /\ marked[k] = WithElse
          /\ \A i \in 1 .. b : i # k => marked[i] = tree[i]
      BY <1>1, <2>1, <3>2, <3>3
    <3>. HIDE DEF marked
    <3>5. \A i \in 1 .. b : new[i] = marked[i]
      BY <1>1, <3>4
    <3>6. new \in Seq(TreeNodes) /\ Len(new) = b + 1 /\ new[b + 1] = Mark("Else")
      BY <1>1, <1>3, <3>4
    <3>. QED  BY <2>1, <3>4, <3>5, <3>6
  <2>. HIDE DEF marked, new, k, b
  <2>4. Kept(tree, new, b)
    <3>1. WithElse.n = "If"
      BY DEF WithElse
    <3>2. ASSUME NEW i \in 1 .. b
          PROVE  new[i].n = tree[i].n /\ (tree[i] = WithElse => new[i] = WithElse)
      BY <2>1, <2>3, <3>1
    <3>. QED  BY <3>2 DEF Kept
  <2>5. Grown(tree, new)
    BY <2>3, <2>4 DEF Grown, b
  <2>6. Depth(new, Len(new)) = Depth(tree, b) /\ Depth(tree, b) \in Int
    <3>1. b <= b /\ b \in Int /\ b \in Nat
      BY <1>1
    <3>2. Depth(new, b) = Depth(tree, b) /\ Depth(tree, b) \in Int
      BY <2>4, <3>1, KeptDepth, DepthInt
    <3>3. Depth(new, b + 1)
            = Depth(new, b) + One(new[b + 1].n = "If") - One(new[b + 1].n = "EndIf")
      BY <3>1, DepthNext
    <3>4. One(new[b + 1].n = "If") = 0 /\ One(new[b + 1].n = "EndIf") = 0
      BY <1>3, <2>3 DEF One
    <3>. QED  BY <2>3, <3>2, <3>3, <3>4
  <2>7. /\ last \in Goals /\ FollowsStmt(last) /\ FitGoal(last) /\ EndsIf(last)
        /\ last.do # "Else"
    <3>1. last.do = "Emit" /\ last.node = Mark("EndIf")
      BY DEF Emit
    <3>2. last \in Goals
      BY <1>3, PlainGoalTypes DEF PlainGoals
    <3>. HIDE DEF last
    <3>. QED  BY <1>3, <3>1, <3>2 DEF FollowsStmt, FitGoal, EndsIf
  <2>8. Fits(gs) /\ gs # <<>> /\ gs[Len(gs)] = last /\ LastEndsIf(gs) /\ gs[1] = Do("Stmt")
    <3>1. <<>> \in Seq(QuietGoals) /\ gs = <<>> \o <<Do("Stmt"), last>> /\ gs[1] = Do("Stmt")
      OBVIOUS
    <3>. HIDE DEF gs, last
    <3>. QED  BY <1>2, <2>7, <3>1, StmtFits
  <2>. HIDE DEF gs, last
  <2>9. HasOpenIf(last, new, Depth(new, Len(new)))
    <3>1. PICK d : Deep(todo, tree, d)
      BY <1>1 DEF Near
    <3>2. HasOpenIf(todo[1], tree, d[1]) /\ d[1] = Depth(new, Len(new))
      BY <1>1, <1>2, <2>6, <3>1 DEF Deep, b
    <3>3. HasOpenIf(todo[1], new, Depth(new, Len(new)))
      <4>. DEFINE y == Depth(new, Len(new))
      <4>1. y \in Int /\ y <= y
        BY <2>6
      <4>2. HasOpenIf(todo[1], tree, y)
        BY <3>2
      <4>. QED  BY <1>1, <2>5, <4>1, <4>2, OpenKeeps
    <3>4. OpenIf(new, k, Depth(new, Len(new))) /\ k \in DOMAIN new
      BY <1>1, <3>3 DEF HasOpenIf, k
    <3>. QED  BY <2>3, <2>7, <3>4 DEF HasOpenIf
  <2>10. Balanced(todo, tree, gs, new)
    <3>1. One(EndsIf(todo[1])) = 1 /\ One(LastEndsIf(gs)) = 1
      BY <1>2, <2>8 DEF One
    <3>2. Depth(new, Len(new))
            = Depth(tree, Len(tree)) - One(EndsIf(todo[1])) + One(LastEndsIf(gs))
      BY <2>6, <3>1 DEF b
    <3>. QED  BY <2>8, <2>9, <3>2 DEF Balanced
  <2>11. HeadOK(todo'[1], new, lookahead')
    <3>1. new[Len(new)].n \notin Ends
      BY <1>3, <2>3 DEF Ends
    <3>. QED  BY <3>1 DEF HeadOK, Settled
  <2>12. AllTaken(tree, Len(tree))
    BY <1>1, <1>2, <1>5, Unsettled DEF Near
  <2>. QED  BY <1>1, <1>2, <2>2, <2>5, <2>8, <2>10, <2>11, <2>12, NearStep
<1>. QED  BY <1>4, <1>5

LEMMA PrimaryNear ==
  ASSUME IInv, NearInv, ParsePrimary
  PROVE  NearInv'
<1>. DEFINE const == [n |-> "Const", text |-> lookahead]
            paren == <<Skip("(", <<>>)>> \o Exp \o <<Skip(")", <<Mark("Paren")>>)>>
<1>1. status = "running" /\ Head(todo).do = "Primary" /\ lookahead \in Tokens
  BY HeadType DEF ParsePrimary
<1>2. \/ Take(<<>>, <<const>>)
      \/ lookahead \in Ids /\ Take(<<VarOrCall(lookahead)>>, <<>>)
      \/ Take(<<Args(lookahead)>>, <<>>)
      \/ Take(paren, <<>>)
      \/ Take(<<Do("UnaryOp")>>, <<>>)
      \/ TakeError
  BY DEF ParsePrimary
<1>3. /\ lookahead \in Ids => VarOrCall(lookahead) \in QuietGoals
      /\ Args(lookahead) \in QuietGoals /\ Do("UnaryOp") \in QuietGoals
  BY <1>1, QuietGoalTypes
<1>4. /\ lookahead \in Ids => <<VarOrCall(lookahead)>> \in Seq(QuietGoals)
      /\ <<Args(lookahead)>> \in Seq(QuietGoals) /\ <<Do("UnaryOp")>> \in Seq(QuietGoals)
      /\ <<>> \in Seq(QuietGoals)
  BY <1>3, Short
<1>6. paren \in Seq(QuietGoals)
  BY QuietExp
<1>5. Few(<<>>) /\ Few(<<const>>)
  BY <1>1, PlainNodeTypes DEF Few
<1>. HIDE DEF const, paren
<1>. QED  BY <1>1, <1>2, <1>4, <1>5, <1>6, CalmNear, ErrorNear DEF CalmHeads

LEMMA CallNear ==
  ASSUME IInv, NearInv, ParseVarOrCall \/ ParseUnaryOp \/ ParseArgs \/ ParseMoreArgs
  PROVE  NearInv'
<1>. DEFINE name == Head(todo).name
            n    == Head(todo).args
<1>0. Few(<<>>) /\ <<>> \in Seq(QuietGoals)
  BY DEF Few
<1>1. CASE ParseVarOrCall
  <2>. DEFINE var == [n |-> "Var", name |-> name]
  <2>1. status = "running" /\ Head(todo).do = "VarOrCall" /\ name \in Ids
    BY <1>1, HeadType, GoalFields DEF ParseVarOrCall
  <2>2. Go(<<Args(name)>>, <<>>) \/ Go(<<>>, <<var>>)
    BY <1>1 DEF ParseVarOrCall
  <2>3. Args(name) \in QuietGoals /\ var \in PlainNodes
    BY <2>1, NamedTokens, QuietGoalTypes, PlainNodeTypes
  <2>. HIDE DEF name, var
  <2>4. <<Args(name)>> \in Seq(QuietGoals) /\ Few(<<var>>)
    BY <2>3, Short DEF Few
  <2>. QED  BY <1>0, <2>1, <2>2, <2>4, CalmNear DEF CalmHeads
<1>2. CASE ParseUnaryOp
  <2>. DEFINE call == Emit(CallNode(lookahead, 1, "prefix"))
  <2>1. status = "running" /\ Head(todo).do = "UnaryOp" /\ lookahead \in Tokens
    BY <1>2, HeadType DEF ParseUnaryOp
  <2>2. Take(<<Do("Primary"), call>>, <<>>)
    BY <1>2 DEF ParseUnaryOp
  <2>3. CallNode(lookahead, 1, "prefix") \in PlainNodes
    BY <2>1, PlainNodeTypes DEF Forms
  <2>4. Do("Primary") \in QuietGoals /\ call \in QuietGoals
    BY <2>3, QuietGoalTypes, QuietEmit
  <2>. HIDE DEF call
  <2>5. <<Do("Primary"), call>> \in Seq(QuietGoals)
    BY <2>4, Short
  <2>. QED  BY <1>0, <2>1, <2>2, <2>5, CalmNear DEF CalmHeads
<1>3. CASE ParseArgs
  <2>1. status = "running" /\ Head(todo).do = "Args" /\ name \in Tokens
    BY <1>3, HeadType, GoalFields DEF ParseArgs
  <2>2. Go(<<Skip("(", <<>>), MoreArgs(name, 0)>>, <<>>)
    BY <1>3 DEF ParseArgs
  <2>3. Skip("(", <<>>) \in QuietGoals /\ MoreArgs(name, 0) \in QuietGoals
    BY <2>1, QuietSkip, QuietGoalTypes DEF Punctuation
  <2>4. <<Skip("(", <<>>), MoreArgs(name, 0)>> \in Seq(QuietGoals)
    BY <2>3, Short
  <2>. QED  BY <1>0, <2>1, <2>2, <2>4, CalmNear DEF CalmHeads
<1>4. CASE ParseMoreArgs
  <2>. DEFINE more == Exp \o <<MoreArgs(name, n + 1)>>
              call == CallNode(name, n, "args")
  <2>1. status = "running" /\ Head(todo).do = "MoreArgs" /\ name \in Tokens /\ n \in Nat
    BY <1>4, HeadType, GoalFields DEF ParseMoreArgs
  <2>2. Go(more, <<>>) \/ Take(more, <<>>) \/ Go(<<Skip(")", <<call>>)>>, <<>>)
    BY <1>4 DEF ParseMoreArgs
  <2>3. more \in Seq(QuietGoals)
    <3>1. MoreArgs(name, n + 1) \in QuietGoals
      BY <2>1, QuietGoalTypes
    <3>2. <<MoreArgs(name, n + 1)>> \in Seq(QuietGoals)
      BY <3>1, Short
    <3>. QED  BY <3>2, QuietExp, Concat
  <2>4. call \in PlainNodes
    BY <2>1, PlainNodeTypes DEF Forms
  <2>. HIDE DEF more, call
  <2>5. <<Skip(")", <<call>>)>> \in Seq(QuietGoals)
    <3>1. Skip(")", <<call>>) \in QuietGoals
      BY <2>4, QuietSkip DEF Punctuation
    <3>. QED  BY <3>1, Short
  <2>. QED  BY <1>0, <2>1, <2>2, <2>3, <2>5, CalmNear DEF CalmHeads
<1>. QED  BY <1>1, <1>2, <1>3, <1>4

LEMMA OperatorNear ==
  ASSUME IInv, NearInv, ParseRemaining \/ ParseRightOf
  PROVE  NearInv'
<1>0. Few(<<>>) /\ <<>> \in Seq(QuietGoals)
  BY DEF Few
<1>1. CASE ParseRemaining
  <2>. DEFINE goal == Head(todo)
  <2>1. status = "running" /\ goal \in Goals /\ goal.do = "Remaining" /\ goal.prec \in Precedences
    BY <1>1, HeadType, GoalFields DEF ParseRemaining
  <2>2. CASE goal.prec > Precedence(lookahead)
    <3>1. Go(<<>>, <<>>)
      BY <1>1, <2>2 DEF ParseRemaining
    <3>. QED  BY <1>0, <2>1, <3>1, CalmNear DEF CalmHeads
  <2>3. CASE ~(goal.prec > Precedence(lookahead))
    <3>1. Take(<<Do("Primary"), RightOf(lookahead), goal>>, <<>>)
      BY <1>1, <2>3 DEF ParseRemaining
    <3>2. Precedence(lookahead) >= 0
      BY <2>1, <2>3, PrecedenceType DEF Precedences
    <3>3. lookahead \in InfixOps
      BY <3>2, PrecedenceType
    <3>4. Do("Primary") \in QuietGoals /\ RightOf(lookahead) \in QuietGoals /\ goal \in QuietGoals
      BY <2>1, <3>3, QuietGoalTypes, PlainIsQuiet
    <3>. HIDE DEF goal
    <3>5. <<Do("Primary"), RightOf(lookahead), goal>> \in Seq(QuietGoals)
      BY <3>4, Short
    <3>. QED  BY <1>0, <2>1, <3>1, <3>5, CalmNear DEF CalmHeads, goal
  <2>. QED  BY <2>2, <2>3
<1>2. CASE ParseRightOf
  <2>. DEFINE op   == Head(todo).op
              call == Emit(CallNode(op, 2, "infix"))
  <2>1. status = "running" /\ Head(todo).do = "RightOf" /\ op \in InfixOps
    BY <1>2, HeadType, GoalFields DEF ParseRightOf
  <2>2. \/ Go(<<Remaining(Precedence(op) + 1), call>>, <<>>)
        \/ Go(<<call>>, <<>>)
    BY <1>2 DEF ParseRightOf
  <2>3. Precedence(op) + 1 \in Precedences
    BY PrecedenceType DEF Precedences
  <2>4. CallNode(op, 2, "infix") \in PlainNodes
    BY <2>1, NamedTokens, PlainNodeTypes DEF Forms
  <2>5. Remaining(Precedence(op) + 1) \in QuietGoals /\ call \in QuietGoals
    BY <2>3, <2>4, QuietGoalTypes, QuietEmit
  <2>. HIDE DEF call
  <2>6. <<Remaining(Precedence(op) + 1), call>> \in Seq(QuietGoals) /\ <<call>> \in Seq(QuietGoals)
    BY <2>5, Short
  <2>. QED  BY <1>0, <2>1, <2>2, <2>6, CalmNear DEF CalmHeads
<1>. QED  BY <1>1, <1>2

-----------------------------------------------------------------------------
LEMMA NearInit ==
  ASSUME Init
  PROVE  NearInv
<1>1. tree = <<>> /\ todo = <<Do("FuncDef"), Program(0)>>
  BY DEF Init
<1>2. Do("FuncDef") \in QuietGoals /\ Program(0) \in QuietGoals
  BY QuietGoalTypes
<1>3. /\ DOMAIN todo = {1, 2} /\ todo[1] \in QuietGoals /\ todo[2] \in QuietGoals
  BY <1>1, <1>2
<1>4. \A i \in DOMAIN todo : FitGoal(todo[i]) /\ ~EndsStmt(todo[i]) /\ ~EndsIf(todo[i])
  BY <1>3, IfIsStmt DEF QuietGoals
<1>5. HeadOK(todo[1], tree, lookahead)
  BY <1>1 DEF HeadOK, Settled
<1>. DEFINE d == [i \in DOMAIN todo |-> Depth(tree, Len(tree))]
<1>6. Deep(todo, tree, d)
  <2>1. Len(tree) \in Nat
    BY <1>1
  <2>2. Depth(tree, Len(tree)) \in Int
    BY <2>1, DepthInt
  <2>3. \A i \in DOMAIN todo : One(EndsIf(todo[i])) = 0
    BY <1>4 DEF One
  <2>4. d \in [DOMAIN todo -> Int] /\ \A i \in DOMAIN todo : d[i] = Depth(tree, Len(tree))
    BY <2>2
  <2>. HIDE DEF d
  <2>. QED  BY <1>3, <1>4, <2>2, <2>3, <2>4 DEF Deep
<1>. HIDE DEF d
<1>7. Near(todo, tree, lookahead)
  BY <1>4, <1>5, <1>6 DEF Near, Followed
<1>8. NearestIn(tree)
  BY <1>1 DEF NearestIn
<1>. QED  BY <1>7, <1>8 DEF NearInv

LEMMA NearNext ==
  ASSUME IInv, NearInv, [Next \/ Returned]_vars
  PROVE  NearInv'
<1>1. CASE SkipToken \/ EmitNode
  BY <1>1, GoalNear
<1>2. CASE ParseFunction
  BY <1>2, DefinitionNear, VarDeclNear, ProgramNear DEF ParseFunction
<1>3. CASE ParseStatement
  BY <1>3, SeqNear, StmtNear, AssignOrLocalNear, ElseNear DEF ParseStatement
<1>4. CASE ParseExpression
  BY <1>4, PrimaryNear, CallNear, OperatorNear DEF ParseExpression
<1>5. CASE UNCHANGED vars
  <2>1. lookahead' = lookahead /\ todo' = todo /\ tree' = tree /\ status' = status
    BY <1>5 DEF vars
  <2>. QED  BY <2>1 DEF NearInv
<1>. QED  BY <1>1, <1>2, <1>3, <1>4, <1>5 DEF Next, Returned

LEMMA NearIsNearest ==
  ASSUME IInv, NearInv
  PROVE  ElseIsNearest
<1>. SUFFICES ASSUME NEW i \in DOMAIN tree, i < Len(tree), tree[i + 1].n = "Else",
                     NEW e \in 1 .. i, tree[e].n = "EndIf", EndTogether(e, i)
              PROVE  tree[IfOf(e)].else
  BY DEF ElseIsNearest
<1>1. Len(tree) \in Nat /\ DOMAIN tree = 1 .. Len(tree)
  BY DEF IInv, TypeOK
<1>2. i \in 1 .. Len(tree) - 1 /\ e \in DOMAIN tree
  BY <1>1
<1>3. AllTaken(tree, i)
  BY <1>2 DEF NearInv, NearestIn
<1>4. ElseTaken(tree, e)
  BY <1>3 DEF AllTaken, Together, EndTogether, Ends
<1>. QED  BY <1>2, <1>4, TakenIf

(* Whatever the text, an else belongs to the nearest if that can take it:  *)
(* a branch that an else follows never ends in an if without one, however  *)
(* many statements end with it (Parser.cpp:297-301).                       *)
THEOREM ElseOfNearestIf == Spec => []ElseIsNearest
<1>1. Init => IInv /\ NearInv
  BY InitInv, NearInit
<1>2. IInv /\ NearInv /\ [Next \/ Returned]_vars => (IInv /\ NearInv)'
  BY StepInv, NearNext
<1>3. IInv /\ NearInv => ElseIsNearest
  BY NearIsNearest
<1>. QED  BY <1>1, <1>2, <1>3, PTL DEF Spec
=============================================================================
